CONSTANTS
  a = a
  b = b
  c = c
  d = d
  Task = {a, b, c, d}
  MaxKickoffs = 1
  Crews <- AgentlessWaves
SPECIFICATION Spec
INVARIANT ContextIsFresh
CHECK_DEADLOCK FALSE
