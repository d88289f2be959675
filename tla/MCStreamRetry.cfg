SPECIFICATION FairStreamSpec
CONSTANTS
  MaxAttempts = 3
  MaxChunks = 2
  Buffer = 1
INVARIANT FinalChunkIsLast
CHECK_DEADLOCK FALSE
