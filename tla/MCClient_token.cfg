SPECIFICATION MCTokenSpec
CONSTANTS
  Parts = {"token"}
  Conns = {c1}
  Names = {n1}
  Local = {}
  FakeAddrs = {a1}
  QUEUE = 1
  task_limit = 1
  Requests = {r1}
  Instances = {i1}
  Waiters = {w1, w2}
  Expiries = {3}
  MaxEpoch = 2
INVARIANTS
  PlusOutlivesByOne
  WakeupKept
PROPERTIES
  TokenReturns
  PlusHonoured
