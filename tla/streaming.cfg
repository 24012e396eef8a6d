SPECIFICATION GroupSpec
CONSTANTS
  u1 = u1
  u2 = u2
  h1 = h1
  r1 = r1
  r2 = r2
  k1 = k1
  k2 = k2
  call = call
  broadcast = broadcast
  Viewers = {u1, u2}
  MaxStreams = 2
  MaxCalls = 2
  Slots = {r1}
  Price = 1
  Opening = 6
  Lengths = {1, 7}
  GiftAmount = 5
  MaxWaiting = 2
  MaxFailures = 1
  NoOne = NoOne
INVARIANTS RevenueCovered ChargedOnce SettledAsCharged LiveStreamsAgree
CHECK_DEADLOCK FALSE
