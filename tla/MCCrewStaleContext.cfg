CONSTANTS
  a = a
  b = b
  c = c
  d = d
  Task = {a, b, c, d}
  MaxKickoffs = 2
  Crews <- ReusedStages
SPECIFICATION Spec
INVARIANT NoStaleContext
CHECK_DEADLOCK FALSE
