SPECIFICATION Spec
CONSTANTS
  Limit = 2
  MaxSeq = 5
  MaxFailures = 1
  MaxRestarts = 0
  MaxElsewhere = 0
INVARIANTS
  RangeIsSynced
CHECK_DEADLOCK FALSE
