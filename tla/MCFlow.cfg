SPECIFICATION FairSpec
CONSTANTS
  a = a
  b = b
  c = c
  d = d
  e = e
  Name = {a, b, c, d, e}
  Nodes <- MCNodes
  Routes <- MCRoutes
  MaxNodes = 5
ACTION_CONSTRAINT OneFamily
INVARIANTS
  RejectsExactlyCyclic
  RunsExactlyEnabled
  FoldsInOrder
PROPERTY RunReturns
