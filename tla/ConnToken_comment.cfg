SPECIFICATION Spec
CONSTANTS
  Waiters = {w1}
  Expiries = {1, 2, 3}
  MaxEpoch = 2
INVARIANTS
  PlusThen
