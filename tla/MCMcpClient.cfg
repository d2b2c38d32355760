CONSTANTS
  Caller = {g1, g2}
  Loader = loader
  Configs <- MCConfigs
  NServers = 3
  Pages = {2, 3}
  MaxPages = 2
  MaxSessions = 3
  MaxCalls <- MCMaxCalls
SPECIFICATION FairSpec
INVARIANTS TakenOnce FailedLoadCloses CatalogIsWhole
PROPERTIES SessionKept CallsReturn
CHECK_DEADLOCK FALSE
