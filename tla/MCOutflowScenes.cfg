SPECIFICATION ScenesSpec
CONSTANTS
  SHARDS = 2
  v1 = v1  v2 = v2
  e1 = e1  e2 = e2
  c1 = c1  c2 = c2
  Visitors = {v1, v2}
  Seeds = {"keep"}
  Prp <- MCPrp
  U64_MAX = 2
  FaultKinds = {"error", "ambiguous", "crash", "stale"}
  MaxFaults = 2
  MaxBlock = 1
  Rates = {2, 3}
  FailOpenTicks = 0
  STALE = 0
  Executions = {e1}
  PASSES = 1
  Tabs = {c1, c2}
  MaxQueue = 2
  MaxLocal = 1
  EventPhases = {"pre_queue", "active"}
INVARIANTS SessionsReached ArrivalsAccounted OnePlaceOneVisitor
PROPERTY AdmittedForGood
SYMMETRY TabSymmetry
