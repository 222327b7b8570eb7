CONSTANTS
  MinFlush  <- MCMinFlush
  MaxFlush  <- MCMaxFlush
  MaxFrames <- MCMaxFrames
SPECIFICATION Spec
INVARIANT VADOutageDropsNothing
CHECK_DEADLOCK FALSE
