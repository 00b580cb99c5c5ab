SPECIFICATION FairSpec
CONSTANTS
  n1 = n1
  Content = {"messages"}
  Nodes = {n1}
  Capacity = 1
  Pushable = {"keys", "kicked"}
  MaxKeys = 1
  MaxPosts = 0
  MaxPushes = 5
  MaxChanges = 1
  MaxRestarts = 0
  Nothing = Nothing
PROPERTIES
  WaitEnds
  DispatcherFlows
CHECK_DEADLOCK FALSE
