SPECIFICATION Spec
CONSTANTS
  Token <- MCToken
  Expand <- MCExpand
  Manifests <- MCManifests
  Predictions <- MCPredictions
  Threshold <- MCThreshold
INVARIANTS TypeOK EverySampleReported RatesAgree VerdictIsEarned ExitMatchesReport
CHECK_DEADLOCK FALSE
