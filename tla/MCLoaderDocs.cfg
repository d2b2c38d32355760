SPECIFICATION Spec
CONSTANTS
  MaxSchemaRefDepth = 2
  MaxSchemaRefExpansions = 4
  MaxCrewConfigBytes = 2
  Pointers <- MCPointers
  Atoi <- MCAtoi
  ParseFloat <- MCParseFloat
  Patterns <- MCPatterns
  Formats <- MCFormats
  Documents <- MCDocuments
  Answers <- MCOutside
  Orders <- MCOrders
  Llms = {"echo"}
  Tools = {"calc"}
  Guardrails = {"ok"}
  Blank = {"", " "}
\* What the docs say and the code does not do: each is violated.
INVARIANT FalseNeverMatches
\* INVARIANT StrictRejectsUnsupported
\* A call ends.
CHECK_DEADLOCK FALSE
