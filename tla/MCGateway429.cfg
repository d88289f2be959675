CONSTANTS
  Proc = {d1}
  NoProc = NoProc
  NoFile = NoFile
  Stale = Stale
  MaxConns = 1
  k1 = k1
  k2 = k2
  NoID = NoID
  NoKey = NoKey
  Blank = Blank
  NotANumber = NotANumber
  Provider = {openai}
  provider = openai
  Key = {k1, k2}
  KeysEnvs <- MCKeysEnvs
  GivenID <- MCGivenID
  RPM <- MCRPM
  TPM <- MCTPM
  RPMEnv = NotANumber
  TPMEnv = 2
  Cooldown429 = 0
  Cooldown5xx = 0
  cooldownOn429 = 2
  cooldownOn5xx = 1
  Cooldown = {1, 2}
  Window = 1
  Tokens = {1, 2}
  MaxTime = 3
  Slot = {s1, s2}
SPECIFICATION MCSpec
PROPERTY Full429CoolDown
