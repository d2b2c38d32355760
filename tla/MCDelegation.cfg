SPECIFICATION FairSpec
CONSTANTS
  planner = planner
  writer = writer
  senior = senior
  nameless = nameless
  t1 = t1
  t2 = t2
  c1 = c1
  c2 = c2
  short = short
  long = long
  v = v
  w = w
  key = key
  main = main
  other = other
  Agent = {planner, writer, senior, nameless}
  Role <- Roles
  AllowDelegation = {planner, writer}
  MaxIterations <- Iterations
  Crew = {c1, c2}
  Agents <- OneRoster
  ScopeOf <- OneScope
  Task = {t1, t2}
  TaskAgent <- TaskAgents
  OwnTools = {}
  Replies <- ManagerReplies
  Embed <- Embedder
  DefaultMaxDelegationDepth = 2
  Queries <- AllQueries
  MaxRecords = 2
  Scope = {main}
  Content = {short, long}
  Vector = {v, w}
  Size <- Sizes
  Matches <- Texts
  Cosine <- Cosines
  CallerId = {key}
  MaxMemoryQueryLimit = 3
  DefaultMemoryQueryLimit = 2
  DefaultMemoryMaxChars = 3
INVARIANTS
  ChainSound
  Attributed
  HitsAreBest
PROPERTIES
  IdsNameOne
  EveryKickoffReturns
