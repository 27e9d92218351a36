SPECIFICATION MCSpec
CONSTANTS
  NumBridges = 2
  Pools = {"waw", "other"}
  Places = {"works", "refuses", "hangs", "silent", "flaky", "rejected"}
  MaxWrite = 2
  MaxBytes = 3
  CAP = 3
  MaxFrames = 4
  CHUNK = 2
  BIPE = 2
  Tokens = {"close", "keep-alive", "X-Hop"}
  Plain = {"X-Hop", "X-End", "TE"}
  MaxValues = 2
  MaxTokens = 2
INVARIANTS
  SessionAgreed
  RelayedAsMeant
PROPERTIES
  DialKeepsItsPromise
  SosistabImplements
  CryptImplements
CHECK_DEADLOCK FALSE
