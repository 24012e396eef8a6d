SPECIFICATION Spec
CONSTANTS
  u1 = u1
  s1 = s1
  s2 = s2
  Users = {u1}
  Sessions = {s1}
  Requests = {r1, r2}
  UserOf <- OneUser
  Continued = {}
  Rate = 10
  Opening = 50
  Recharges = {}
  Spends = {}
  MaxBalance = 50
  Moments = {61}
  MaxFaults = 0
SYMMETRY Symmetry
INVARIANTS JoinedCallStarts
CHECK_DEADLOCK FALSE
