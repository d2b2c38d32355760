CONSTANTS
  a = a
  b = b
  c = c
  d = d
  Task = {a, b, c, d}
  MaxKickoffs = 2
  Crews <- ReusedSerial
SPECIFICATION Spec
INVARIANT WarningsAreThisKickoffs
CHECK_DEADLOCK FALSE
