SPECIFICATION FairSpec
CONSTANTS
  Ids = {a}
  Callers = {c1, c2}
  Instances = {i1, i2, i3}
  Names = {unnamed, bob}
  Default = unnamed
  MaxUpdates = 1
  MaxCrashes = 1
  None = None
INVARIANTS
  RowsAreCurrent
  NoAccountLeaks
  ListedCanBeOpened
PROPERTIES
  ListIsSaved
  ListIsShown
