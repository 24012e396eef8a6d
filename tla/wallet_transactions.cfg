SPECIFICATION Spec
CONSTANTS
  Users = {u1, u2}
  Requests = {r1, r2}
  Cards = {c1}
  Refunds = {q1}
  Handlers <- Transactional
  Amounts = {1, 3}
  MaxRedemptions = 1
  CardAmount = 2
  Opening <- OpeningWallets
  MaxCalls = 4
  NoItem = NoItem
INVARIANTS WalletMatchesLedger
PROPERTIES ImplementsAccount
CHECK_DEADLOCK FALSE
