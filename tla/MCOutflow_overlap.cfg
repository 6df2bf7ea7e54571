SPECIFICATION Spec
CONSTANTS
  SHARDS = 1
  v1 = v1  v2 = v2
  e1 = e1  e2 = e2
  c1 = c1  c2 = c2
  Visitors = {}
  Seeds = {"keep"}
  Prp <- MCPrp
  U64_MAX = 1
  FaultKinds = {}
  MaxFaults = 0
  MaxBlock = 1
  Rates = {1}
  FailOpenTicks = 1
  STALE = 2
  Executions = {e1, e2}
  PASSES = 2
  Tabs = {}
  MaxQueue = 2
  MaxLocal = 1
  EventPhases = {"pre_queue", "active", "maintenance"}
PROPERTY NoDoubleAdvance
