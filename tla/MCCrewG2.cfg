CONSTANTS
  a = a
  b = b
  c = c
  d = d
  Task = {a, b, c, d}
  MaxKickoffs = 1
  Crews <- GuardedWaves
SPECIFICATION Spec
INVARIANT FailuresNeverSaved
CHECK_DEADLOCK FALSE
