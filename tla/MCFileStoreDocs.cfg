\* What the comments say and the store does not do: one statement at a time, and each is violated.
CONSTANTS
  Scope = {s, t}
  Id = {a, b}
  Val = {x, y}
  NDirs = 1
  DirName <- MCOneDir
  NameScope <- MCNameScope
  LongVal = {y}
  Faults = {"append", "torn"}
  MaxLines = 3
  MaxCorrupt = 2
SPECIFICATION Spec
INVARIANT CorruptCountExact
\* INVARIANT DeletedStaysDeleted
\* INVARIANT OpenSucceeds
\* INVARIANT Durable
\* PROPERTY HonestQuery
CHECK_DEADLOCK FALSE
