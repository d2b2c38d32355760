CONSTANTS
  Scope = {s}
  Id = {a, b}
  Val = {x, y}
  NDirs = 1
  DirName <- MCDirName
  NameScope <- MCNameScope
  LongVal = {}
  Faults = {"torn"}
  MaxLines = 3
  MaxCorrupt = 2
SPECIFICATION Spec
INVARIANT Durable
CHECK_DEADLOCK FALSE
