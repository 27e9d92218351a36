SPECIFICATION MCSpec
CONSTANTS
  Users = {u1, u2}
  MaxSlot = 2
  MaxPayments = 3
  MaxConns = 4
  Skews = {1}
  WAIT = 1
  MaxTime = 2
  Visitors = {x1, x2}
  Workers = {w1, w2}
  QUEUE = 1
  MaxProcs = 2
  MaxFaults = 1
INVARIANTS
  PaidSeen
  LossBounded
  SessionSurvives
PROPERTIES
  RepeatsApart
CHECK_DEADLOCK FALSE
