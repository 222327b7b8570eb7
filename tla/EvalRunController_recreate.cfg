CONSTANTS
  MaxUid = 2
  MaxEdits = 1
  MaxTroubles = 0
SPECIFICATION Spec
INVARIANT VerdictIsOwn
CHECK_DEADLOCK FALSE
