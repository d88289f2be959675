CONSTANTS
  Call = {"plain"}
  Streamed = {}
  Names = {"a", "b"}
  Store = {"t"}
  Nil = Nil
  MaxSwaps = 1
  MaxTries = 1
  MaxChunks = 0
SPECIFICATION PluginSpec
INVARIANTS HooksPaired
CHECK_DEADLOCK FALSE
