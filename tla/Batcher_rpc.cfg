SPECIFICATION BatchFairSpec
CONSTANTS
  r1 = r1
  r2 = r2
  r3 = r3
  r4 = r4
  k1 = k1
  k2 = k2
  Requests = {r1, r2, r3, r4}
  Keys = {k1, k2}
  Key <- KeyOfFour
  Single <- OneSingle
  Capacity = 1
  Window = 1
  NoReply = NoReply
INVARIANTS
  CallbackKept
  DueInOrder
PROPERTIES
  ImplementsRPC
  AllAnswered
CHECK_DEADLOCK FALSE
