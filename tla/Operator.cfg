SPECIFICATION MCSpec
CONSTANTS
  model = "m"
  MaxSpec = 1
  Replicas <- MCReplicas
  MaxReady = 1
  MaxEdits = 1
  MaxEvents = 1
INVARIANT NothingLeftUndone
PROPERTY TracksPods
CHECK_DEADLOCK FALSE
