CONSTANTS
  MinFlush  <- MCMinFlush
  MaxFlush  <- MCMaxFlush
  MaxFrames <- MCMaxFrames
SPECIFICATION Spec
PROPERTY SpeechThenSilenceFlushes
CHECK_DEADLOCK FALSE
