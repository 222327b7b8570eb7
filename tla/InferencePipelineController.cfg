SPECIFICATION MCSpec
CONSTANTS
  stt = stt
  llm = llm
  Models = {stt, llm}
  Waiting = {"Deploying"}
  Specs <- MCSpecs
  MaxEdits = 1
  MaxChanges = 1
  MaxTroubles = 2
INVARIANTS TypeOK NoWakeupLost
PROPERTIES StatusOfThisSpec Converges Rests
CHECK_DEADLOCK FALSE
