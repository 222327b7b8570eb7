CONSTANTS
  MaxSpec = 2
  Replicas <- MCReplicas
  MaxReady = 1
  MaxEvents = 1
SPECIFICATION Spec
INVARIANTS
  TypeOK
  OwnedHasFinalizer
PROPERTIES
  StatusOfThisSpec
  Converges
CHECK_DEADLOCK FALSE
