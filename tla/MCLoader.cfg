SPECIFICATION Spec
CONSTANTS
  MaxSchemaRefDepth = 2
  MaxSchemaRefExpansions = 4
  MaxCrewConfigBytes = 2
  Pointers <- MCPointers
  Atoi <- MCAtoi
  ParseFloat <- MCParseFloat
  Patterns <- MCPatterns
  Formats <- MCFormats
  Documents <- MCDocuments
  Answers <- MCAnswers
  Orders <- MCOrders
  Llms = {"echo"}
  Tools = {"calc"}
  Guardrails = {"ok"}
  Blank = {"", " "}
INVARIANTS VerdictIsExact LoadsExactly
\* A call ends.
CHECK_DEADLOCK FALSE
