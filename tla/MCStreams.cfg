SPECIFICATION MCSpec
CONSTANTS
  INIT_WINDOW = 3
  MAX_WINDOW = 8
  MaxUnread = 8
  MaxMore = 8
  TargetChoices <- SmallTargets
  Ends = {a, b}
  Window = 1
  PipeRoom = 1
  MaxBodies = 2
  Senders = {s1, s2}
  Limit = 2
  MaxFrames = 2
  MaxControl = 2
  Peers = {a, b}
  Calls = {c1}
  AcceptCap = 1
INVARIANTS
  CreditConserved
  WindowNeverEmpty
PROPERTIES
  WindowOpens
  CloseReachesReceiver
  StreamImplements
  BothEnd
  SendEnds
  SessionEnds
  HalfOpenResolved
