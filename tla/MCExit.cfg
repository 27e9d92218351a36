SPECIFICATION MCSpec
CONSTANTS
  Streams = {s1, s2, s3}
  task_limit = 1
  free_port_whitelist = {53, 443}
  is_free = TRUE
  Dests = {"addr", "local", "listed"}
  Copies = {c1, c2}
  Queries = {q1, q2}
  READ = 2
  CAP = 3
  BURST = 3
  RATE = 1
  Loads = {0, 2}
  MaxTime = 3
INVARIANTS
  FilterHonoured
  ExcessPending
  RateKept
  AnswersWhole
PROPERTIES
  BackToLimit
CHECK_DEADLOCK FALSE
