SPECIFICATION Spec
CONSTANTS
  u1 = u1
  s1 = s1
  s2 = s2
  Users = {u1}
  Sessions = {s1}
  Requests = {r1, r2}
  UserOf <- OneUser
  Continued = {}
  Rate = 10
  Opening = 50
  Recharges = {40}
  Spends = {40}
  MaxBalance = 50
  Moments = {316}
  MaxFaults = 1
INVARIANTS TypeOK OneBillPerOpening EndedIsBilled PaidWasCharged EndingIsHandled
SYMMETRY Symmetry
CHECK_DEADLOCK FALSE
