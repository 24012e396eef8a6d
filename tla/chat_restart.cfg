SPECIFICATION FairSpec
CONSTANTS
  u1 = u1
  u2 = u2
  a1 = a1
  s1 = s1
  s2 = s2
  s3 = s3
  Users = {u1}
  Astrologers = {a1}
  Sessions = {s1}
  Requests = {r1, r2}
  UserOf <- Users12
  AstrologerOf <- OneAstrologer
  Continued = {}
  Rate = 10
  Opening = 50
  Recharges = {}
  Spends = {}
  MaxBalance = 50
  Moments = {316}
  MaxFaults = 1
INVARIANTS SilentIsFree PaidWasCharged
PROPERTIES ActiveEnds PendingSettles
CHECK_DEADLOCK FALSE
