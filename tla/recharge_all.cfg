SPECIFICATION FairSpec
CONSTANTS
  u1 = u1
  o1 = o1
  o2 = o2
  p1 = p1
  Users = {u1}
  Requests = {r1, r2}
  Orders = {o1, o2}
  Purchases = {p1}
  Owner <- OneOwner
  Price <- Prices
  Pack <- Packs
  Welcome = 4
  Spends = {10}
INVARIANTS TypeOK CashAccounted FirstBonusOnce WelcomeOnce GatewayAgrees
PROPERTIES CapturedIsSettled
CHECK_DEADLOCK FALSE
