CONSTANTS
  MinFlush  <- MCMinFlush
  MaxFlush  <- MCMaxFlush
  MaxFrames <- MCMaxFrames
SPECIFICATION Spec
INVARIANTS
  TypeOK
  NoSpeechLost
  CaptureOrder
  TranscriptsInOrder
  LoopSegmentsLongEnough
PROPERTIES
  SilenceFlushes
  SessionWindsDown
  ImplementsSession
CHECK_DEADLOCK FALSE
