CONSTANTS
  k1 = k1
  k2 = k2
  own = own
  NoID = NoID
  Refused = Refused
  Provider = {openai}
  Key = {k1, k2}
  GivenID <- MCGivenID
  RPM <- MCRPM
  TPM <- MCTPM
  Window = 1
  Cooldown = {2}
  Tokens = {1}
  MaxTime = 3
  MaxCalls = 5
  NL = NL
  SP = SP
  TAB = TAB
  QUOTE = QUOTE
  BS = BS
  Escapable = {QUOTE, BS}
  Byte = {NL, SP, TAB, QUOTE, BS, x}
  MaxLen = 6
  Inputs <- MCInputs
  Caller = {c1, c2}
  Buffer = {b1, b2, b3}
  Length = {1, 3}
  maxPoolBufferSize = 2
  criticalKeywords = {"[critical]", "deadlock", "memory leak"}
  codeKeywords = {"func ", "def ", "class "}
  Lengths = {0, 2000, 2001, 8000, 8001}
SYMMETRY Interchangeable
SPECIFICATION LibrariesSpec
INVARIANTS RPMRespected RoundRobin LockoutBounded TrimExact ValidStaysValid ResultStaysOwn ReasoningIffCritical
PROPERTY ImplementsPool
CHECK_DEADLOCK FALSE
