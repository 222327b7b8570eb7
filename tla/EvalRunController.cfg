CONSTANTS
  MaxUid = 2
  MaxEdits = 2
  MaxTroubles = 1
SPECIFICATION Spec
INVARIANTS
  TypeOK
  StatusBacked
PROPERTIES
  NeverForgets
  Mirrors
CHECK_DEADLOCK FALSE
