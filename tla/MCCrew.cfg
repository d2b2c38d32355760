CONSTANTS
  a = a
  b = b
  c = c
  d = d
  Task = {a, b, c, d}
  MaxKickoffs = 2
  Crews <- MCAllCrews
SPECIFICATION FairSpec
INVARIANTS
  FirstErrIsRootCause
  ContextIsFresh
  GroupMemoryApart
  RecordsMatchOutput
  FoldFollowsPlan
PROPERTIES
  FailureContained
  KickoffReturns
CHECK_DEADLOCK FALSE
