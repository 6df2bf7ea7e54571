SPECIFICATION WalkSpec
CONSTANTS
  SHARDS = 1
  v1 = v1  v2 = v2
  i1 = i1  i2 = i2
  o1 = o1  o2 = o2
  Visitors = {v1}
  Seeds = {"keep"}
  Prp <- MCPrp
  U64_MAX = 3
  FaultKinds = {"error", "ambiguous", "crash"}
  MaxFaults = 1
  Messages <- MCMessages3
  Requester <- MCRequesterOne
  Malformed = {3}
  Lambdas = {i1, i2}
  BatchSize = 2
  MaxReceives = 2
  Openers = {o1}
  OperatorPhases = {"pre_queue"}
PROPERTY EveryJoinPlaced
CHECK_DEADLOCK FALSE
