CONSTANTS
  Proc = {d1, d2}
  NoProc = NoProc
  NoFile = NoFile
  Stale = Stale
  MaxConns = 1
  k1 = k1
  k2 = k2
  NoID = NoID
  NoKey = NoKey
  Blank = Blank
  NotANumber = NotANumber
  Provider = {openai}
  provider = openai
  Key = {k1, k2}
  KeysEnvs <- MCKeysEnvs
  GivenID <- MCGivenID
  RPM <- MCRPM
  TPM <- MCTPM
  RPMEnv = NotANumber
  TPMEnv = 1
  Cooldown429 = 0
  Cooldown5xx = 0
  cooldownOn429 = 2
  cooldownOn5xx = 1
  Cooldown = {1, 2}
  Window = 1
  Tokens = {1}
  MaxTime = 2
  Slot = {s1, s2}
SPECIFICATION FairMCSpec
INVARIANTS SocketFollowsDaemon CleanStopCutsNothing
  PoolNeverBypassed TPMOvershootBounded
PROPERTIES CoolDownRespected RightKeyCooled
  EveryRequestAnswered SignalEndsProcess
