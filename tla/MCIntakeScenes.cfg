SPECIFICATION ScenesSpec
CONSTANTS
  SHARDS = 2
  v1 = v1  v2 = v2
  i1 = i1  i2 = i2
  o1 = o1  o2 = o2
  Visitors = {v1, v2}
  Seeds = {"reverse"}
  Prp <- MCPrp
  U64_MAX = 3
  FaultKinds = {"error", "ambiguous", "crash", "redelivery", "stale"}
  MaxFaults = 2
  Messages <- MCMessages2
  Requester <- MCRequester2
  Malformed = {}
  Lambdas = {i1, i2}
  BatchSize = 2
  MaxReceives = 2
  Openers = {o1, o2}
  OperatorPhases = {"pre_queue", "active", "maintenance"}
INVARIANTS SlotsOwned NoSharedPosition LiveBehindCohort JoinedOnceCountedOnce
PROPERTIES ImplementsLine NeverRewinds OpensOnce
CHECK_DEADLOCK FALSE
SYMMETRY SceneSymmetry
