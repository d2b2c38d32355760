CONSTANTS
  a = a
  b = b
  c = c
  d = d
  Ptr = {a, b, c, d}
  MaxTasks = 4
  MaxContext = 1
  Lists <- MCPermutations
  Contexts <- MCContexts
SYMMETRY Symmetry
SPECIFICATION Spec
INVARIANT WavesAscending
CHECK_DEADLOCK FALSE
