SPECIFICATION Spec
CONSTANTS
  p = p
  q = q
  ft = ft
  fu = fu
  plain = plain
  Exec = {p, q}
  Tool = {ft, fu, plain}
  FactTool = {ft, fu}
  Hash = {h}
  Configs <- RewriteConfigs
  MaxCalls = 2
  defaultMaxIterations = 1
  defaultRepairMax = 2
  defaultMaxRefinements = 2
INVARIANT NeverInvalid
CHECK_DEADLOCK FALSE
