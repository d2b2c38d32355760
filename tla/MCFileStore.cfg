CONSTANTS
  Scope = {s}
  Id = {a, b}
  Val = {x, y}
  NDirs = 1
  DirName <- MCDirName
  NameScope <- MCNameScope
  LongVal = {y}
  Faults = {"append", "sync", "meta", "crash"}
  MaxLines = 4
  MaxCorrupt = 1
SYMMETRY Symmetry
SPECIFICATION MCSpec
INVARIANTS
  IndexSound
  Durable
PROPERTY Implements
CHECK_DEADLOCK FALSE
