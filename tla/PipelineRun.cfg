CONSTANTS
  Requests = {r1, r2}
  Ids = {i1, i2}
  Unnameable = {i2}
  MaxFaults = 1
  Configs <- MCConfigs
  IdChoices <- MCIdChoices
  StageSets <- MCStageSets
SPECIFICATION Spec
INVARIANTS
  TypeOK
  LogTellsResponse
  LogReplays
  
  LaterStagesNeedSTT
PROPERTIES
  LocalAppendOnly
SYMMETRY Symmetry
CHECK_DEADLOCK FALSE
