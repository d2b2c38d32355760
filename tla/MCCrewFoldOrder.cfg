CONSTANTS
  a = a
  b = b
  c = c
  d = d
  Task = {a, b, c, d}
  MaxKickoffs = 1
  Crews <- CrossedWaves
SPECIFICATION Spec
INVARIANT FoldFollowsDeclaration
CHECK_DEADLOCK FALSE
