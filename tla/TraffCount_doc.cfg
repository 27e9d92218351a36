SPECIFICATION Spec
CONSTANTS
  TicksPerSecond = 2
  max_history_seconds = 3
  MaxSeconds = 6
  MaxIncr = 2
INVARIANTS
  PerSecond
