CONSTANTS
  Buffer = 2
  MaxLines = 4
SPECIFICATION StreamFairSpec
INVARIANTS SinkAgrees ResultIsWhole
PROPERTY BothEnd
CHECK_DEADLOCK FALSE
