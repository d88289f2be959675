CONSTANTS
  MaxAttempts = 3
  MaxChunks = 2
  Buffer = 1
  Nobody = Nobody
  Caller = {c1}
  Batch = {}
  Admin = {a1, a2}
  Operation = {"Update", "Remove"}
  Worker = {w1}
  BufferSize = 1
  MaxGen = 4
  Created = {TRUE}
SPECIFICATION FairMCSpec
INVARIANTS BodyClosedOnce EndToldOnce HooksHoldPipeline
PROPERTIES StreamsEnd BufferedIsAnswered UpdatesReturn
CHECK_DEADLOCK FALSE
