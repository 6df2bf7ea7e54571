SPECIFICATION MCSpec
CONSTANTS
  q1 = q1  q2 = q2  q3 = q3
  b1 = b1  b2 = b2
  Requests = {q1, q2, q3}
  Actions <- MCEveryAction
  DEBOUNCE = 2
  MAX_CONFIG_BYTES = 950
  RULES_WRITE_CEILING = 930
  SeedBytes = 60
  Browsers = {b1, b2}
  Logins = {"l1", "l2"}
  Callbacks = {"c1", "c2"}
  Emails = {"operator", "somebody"}
  AllowedEmails = {"operator"}
  PKCE_TTL = 1
  SESSION_TTL = 1
  MaxClock = 2
  FaultKinds = {"dies", "stale", "put_lost", "put_error"}
  MaxFaults = 1
INVARIANTS ActiveMeansOpened DebounceUnlessRewound FailOpenFits StoppedOnlyWhileOpenUncrossed AnnouncementHasSchedule CompletedOnce ServedRightly
PROPERTIES PhaseWalk EdgeFieldsKept
SYMMETRY MCSymmetry
CHECK_DEADLOCK FALSE
