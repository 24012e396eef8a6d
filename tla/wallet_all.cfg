SPECIFICATION Spec
CONSTANTS
  Users = {u1}
  Requests = {r1, r2}
  Cards = {c1}
  Refunds = {q1}
  Handlers <- AllHandlers
  Amounts = {1, 2}
  MaxRedemptions = 1
  CardAmount = 2
  Opening <- OpeningWallets
  MaxCalls = 3
  NoItem = NoItem
SYMMETRY Symmetry
INVARIANTS TypeOK LedgerAgrees CardWithinLimit
CHECK_DEADLOCK FALSE
