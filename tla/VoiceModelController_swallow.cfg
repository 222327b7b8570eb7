CONSTANTS
  MaxSpec = 1
  Replicas <- MCReplicas
  MaxReady = 1
  MaxEvents = 2
SPECIFICATION Spec
PROPERTY TracksReadiness
CHECK_DEADLOCK FALSE
