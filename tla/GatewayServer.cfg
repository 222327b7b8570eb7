SPECIFICATION Spec
CONSTANTS
  Requests = {r1, r2}
  ReadTimeout = 1
  WriteTimeout = 4
  BackendTimeout = 4
  Grace = 1
INVARIANTS TypeOK MetricsAddUp
PROPERTIES QuickAnswerArrives WhisperCallsEnd StopsAfterSignal
CHECK_DEADLOCK FALSE
