SPECIFICATION FairSpec
CONSTANTS
  n1 = n1 n2 = n2
  Content = {"messages"}
  Nodes = {n1, n2}
  Capacity = 1
  Pushable = {"keys", "messages"}
  MaxKeys = 2
  MaxPosts = 1
  MaxPushes = 1
  MaxChanges = 1
  MaxRestarts = 1
  Nothing = Nothing
INVARIANTS
  KeysCovered
PROPERTIES
  PassedAreSaved
CHECK_DEADLOCK FALSE
