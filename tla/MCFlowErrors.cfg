SPECIFICATION Spec
CONSTANTS
  a = a
  b = b
  c = c
  d = d
  e = e
  Name = {a, b, c, d, e}
  Nodes <- DiamondNodes
  Routes <- MCRoutes
  MaxNodes = 4
INVARIANT ErrorsOnlyWhenContinuing
