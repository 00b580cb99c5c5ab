SPECIFICATION FairSpec
CONSTANTS
  Limit = 2
  MaxSeq = 5
  MaxFailures = 1
  MaxRestarts = 1
  MaxElsewhere = 1
INVARIANTS
  HiddenIsDeleted
  RangeRightUnlessSkipped
PROPERTIES
  CaughtUpOrStalled
CHECK_DEADLOCK FALSE
