SPECIFICATION MCPSpec
CONSTANTS
  Caller = {c1, c2}
  Monitor = {1, 2}
  Conn = {1, 2, 3}
  Config = {1, 2, 3}
  MaxFailures = 1
  MaxCalls = 2
INVARIANT NobodyStuck
CHECK_DEADLOCK FALSE
