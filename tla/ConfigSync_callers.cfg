SPECIFICATION Spec
CONSTANTS
  c1 = c1 c2 = c2 u1 = u1 u2 = u2 r1 = r1 r2 = r2 n1 = n1 n2 = n2
  Callers = {c1, c2}
  LocalUpdates = {u1, u2}
  RemoteUpdates = {r1}
  Nodes = {n1}
  MaxMsg = 1
  Carries <- MCCarries
  Undecodable = Undecodable
  NoCallback = NoCallback
  NoUpdate = NoUpdate
  MaxCrashes = 1
  MaxPushFailures = 1
SYMMETRY Symmetry
CHECK_DEADLOCK FALSE
INVARIANTS
  PushAckSound
  CleanIsShared
  PushIsRequested
  CallbackHeld
  DumpIsNotified
  DumpFlagSound
PROPERTIES
  ImplementsContract
