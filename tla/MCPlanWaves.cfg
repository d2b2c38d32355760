CONSTANTS
  a = a
  b = b
  c = c
  Ptr = {a, b, c}
  MaxTasks = 3
  MaxContext = 2
  Lists <- MCLists
  Contexts <- MCContexts
SPECIFICATION Spec
INVARIANTS DepsStrictlyEarlier RejectsExactlyBadGraphs PlanIsEarliest
CHECK_DEADLOCK FALSE
