CONSTANTS
  a = a
  b = b
  c = c
  d = d
  Task = {a, b, c, d}
  MaxKickoffs = 1
  Crews <- SameStageContext
SPECIFICATION Spec
INVARIANT SiblingsNotRead
CHECK_DEADLOCK FALSE
