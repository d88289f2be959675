SPECIFICATION MCSpec
CONSTANTS
  k1 = k1 k2 = k2 k3 = k3 k4 = k4 own = own
  Key <- mcKey
  NoKey = NoKey
  MaxRetries = {0, 1, 3}
  RetriesOf <- mcRetriesOf
  Primary = "main"
  Fallback <- mcFallback
  Configured <- mcConfigured
  KeysOf <- mcKeysOf
  DirectKeys = {own}
  Skippable = {"main"}
  Type = {"imageEdit"}
  Call = {"plain", "streamed"}
  Streamed = {"streamed"}
  Names = {"a", "b"}
  Store = {"t1", "t2"}
  Nil = Nil
  MaxSwaps = 1
  MaxTries = 2
  MaxChunks = 1
  Caller = {c1, c2}
  Monitor = {1, 2}
  Conn = {1, 2, 3}
  Config = {1, 2, 3}
  MaxFailures = 1
  MaxCalls = 2
  MaxAgentDepth = 3
  MaxToolCalls = 3
INVARIANT TriedInOrder
CHECK_DEADLOCK FALSE
