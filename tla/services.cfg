SPECIFICATION GroupSpec
CONSTANTS
  r1 = r1
  r2 = r2
  k1 = k1
  k2 = k2
  none = none
  p1 = p1
  p2 = p2
  p3 = p3
  x1 = x1
  u1 = u1
  u2 = u2
  a1 = a1
  s1 = s1
  s2 = s2
  s3 = s3
  e1 = e1
  e2 = e2
  Slots = {r1}
  OrderTotal = 10
  Percentages = {50, 100}
  MaxDirect = 2
  MaxFailures = 2
INVARIANTS TypesOK RequestPaidOnce RefundedWasCredited SessionsArePriced EarningsAgree
  PaidIsGiven OneSessionAtATime AccountsAreSafe EveryoneIsTold AnswersAreOwn
PROPERTIES NothingIsTakenBack
CHECK_DEADLOCK FALSE
