SPECIFICATION CursorSpec
CONSTANTS
  SHARDS = 1
  v1 = v1  v2 = v2
  e1 = e1  e2 = e2
  c1 = c1  c2 = c2
  Visitors = {}
  Seeds = {"keep"}
  Prp <- MCPrp
  U64_MAX = 1
  FaultKinds = {"error", "ambiguous"}
  MaxFaults = 1
  MaxBlock = 1
  Rates = {1}
  FailOpenTicks = 1
  STALE = 1
  Executions = {e1, e2}
  PASSES = 2
  Tabs = {}
  MaxQueue = 1
  MaxLocal = 0
  EventPhases = {"pre_queue", "active", "maintenance"}
INVARIANTS NoBankedCredit HoldStopsTheLine
PROPERTIES CursorMonotone LineDrains
