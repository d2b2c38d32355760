CONSTANTS
  Caller = {g1, g2}
  NoCaller = nobody
  MaxTokens = 3
SPECIFICATION Spec
INVARIANT NoBlankAnswer
