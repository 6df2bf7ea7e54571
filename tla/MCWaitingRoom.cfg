SPECIFICATION MCSpec
CONSTANTS
  SHARDS = 1
  s1 = s1  f1 = f1  f2 = f2  b1 = b1
  Visitors = {s1, f1, f2}
  Scripted = {s1}
  Forms = {b1}
  Posts = {1, 2}
  Chains = {1, 2}
  Containers = {1}
  Seeds = {"keep"}
  Prp <- MCPrp
  U64_MAX = 2
  FaultKinds = {"error", "ambiguous", "crash", "stale", "not_holder"}
  MaxFaults = 2
  MaxBlock = 1
  Rates = {1}
  FailOpenTicks = 1
  EventPhases = {"pre_queue", "active"}
  MAX_JOIN_ATTEMPTS = 2
  MAX_MISSES = 3
  MAX_REJOIN_CYCLES = 2
  MaxDelay = 1
INVARIANTS TypeOK PollingNeverDies JoinsAccounted OneFaultForgiven CookieMeansJoined

PROPERTIES MCPageSettles FormLetIn
CHECK_DEADLOCK FALSE
