SPECIFICATION Spec
CONSTANTS
  SHARDS = 2
  v1 = v1  v2 = v2
  i1 = i1  i2 = i2
  o1 = o1  o2 = o2
  Visitors = {v1, v2}
  Seeds = {"keep", "reverse"}
  Prp <- MCPrp
  U64_MAX = 3
  FaultKinds = {}
  MaxFaults = 0
  Messages <- MCMessages3
  Requester <- MCRequester3
  Malformed = {}
  Lambdas = {i1, i2}
  BatchSize = 2
  MaxReceives = 1
  Openers = {o1}
  OperatorPhases = {"pre_queue"}
INVARIANT CountedOnce
CHECK_DEADLOCK FALSE
SYMMETRY LambdaSymmetry
