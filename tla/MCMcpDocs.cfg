CONSTANTS
  Caller = {g1, g2}
  Loader = loader
  Configs <- MCConfigs
  NServers = 3
  Pages = {2, 3}
  MaxPages = 2
  MaxSessions = 3
  MaxCalls <- MCMaxCalls
SPECIFICATION Spec
\* A failed LoadConfig leaves a session open: each of these is violated.
INVARIANT NoSessionLeft
\* INVARIANT RejectedFirst
CHECK_DEADLOCK FALSE
