SPECIFICATION FairSpec
CONSTANTS
  a = a b = b l1 = l1 l2 = l2 c1 = c1
  Rooms = {a, b}
  Callers = {l1, l2, c1}
  Target <- AllToOne
  Loads = {l1, l2}
  Capacity = 1
  DownloadCapacity = 1
  MaxChanges = 1
  NoCaller = NoCaller
  NoTask = NoTask
INVARIANTS
  CommandKept
PROPERTIES
  StayingRoomsUndisturbed
  ServedUnlessDown
CHECK_DEADLOCK FALSE
