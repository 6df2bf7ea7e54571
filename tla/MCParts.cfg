SPECIFICATION Spec
CONSTANTS
  MaxCohort = 6
  STALE = 2
  Targets = {1, 3}
  MaxLine = 5
  MaxArrivals = 4
  Characters = {"/", ".", "%", "2", "e", "f", "x"}
  MaxPath = 5
  Viewers = {"v1", "v2"}
  MaxTime = 4
  Loaders = {"l1", "l2"}
  Deadline = 2
INVARIANTS Bijective CorrectionSound PanelHonest PathsCanonical BounceBounded OriginFlat
PROPERTIES WalkEnds NeverTurnedAway
CHECK_DEADLOCK FALSE
