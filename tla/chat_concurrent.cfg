SPECIFICATION Spec
CONSTANTS
  u1 = u1
  u2 = u2
  a1 = a1
  s1 = s1
  s2 = s2
  s3 = s3
  Users = {u1}
  Astrologers = {a1}
  Sessions = {s1}
  Requests = {r1, r2}
  UserOf <- Users12
  AstrologerOf <- OneAstrologer
  Continued = {s1}
  Rate = 10
  Opening = 50
  Recharges = {60}
  Spends = {40}
  MaxBalance = 70
  Moments = {316}
  MaxFaults = 0
SYMMETRY Symmetry
PROPERTIES BillWithinLimit
CHECK_DEADLOCK FALSE
