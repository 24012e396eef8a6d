SPECIFICATION GroupSpec
CONSTANTS
  none = none
  u1 = u1
  u2 = u2
  r1 = r1
  r2 = r2
  k1 = k1
  s1 = s1
  s2 = s2
  Slots = {r1, r2}
  Schedules = {s1}
  Recipients = {u1, u2}
  MaxFailures = 1
  MaxRestarts = 1
INVARIANTS SentIsAll GreetedOnce
PROPERTIES DueIsProcessed SessionsEnd
CHECK_DEADLOCK FALSE
