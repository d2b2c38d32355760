SPECIFICATION Spec
CONSTANTS
  planner = planner
  writer = writer
  senior = senior
  nameless = nameless
  t1 = t1
  t2 = t2
  c1 = c1
  c2 = c2
  short = short
  long = long
  v = v
  w = w
  key = key
  main = main
  other = other
  Agent = {planner, writer, senior, nameless}
  Role <- PaddedRoles
  AllowDelegation = {planner, writer}
  MaxIterations <- Iterations
  Crew = {c1, c2}
  Agents <- SharedRosters
  ScopeOf <- TwoScopes
  Task = {t1, t2}
  TaskAgent <- TaskAgents
  OwnTools = {}
  Replies <- ManagerReplies
  Embed <- Embedder
  DefaultMaxDelegationDepth = 2
  Queries <- AllQueries
  MaxRecords = 2
  Scope = {main, other}
  Content = {short, long}
  Vector = {v, w}
  Size <- Sizes
  Matches <- Texts
  Cosine <- Cosines
  CallerId = {key}
  MaxMemoryQueryLimit = 3
  DefaultMemoryQueryLimit = 2
  DefaultMemoryMaxChars = 3
\* What the docs say and the code does not do: one statement at a time, and each is violated.
INVARIANT ChainSound
\* INVARIANT OwnCrew
\* INVARIANT NeverSilentlyEmpty
\* PROPERTY DeleteRemoves
