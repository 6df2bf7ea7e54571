SPECIFICATION MCSpec
CONSTANTS
  q1 = q1  q2 = q2  q3 = q3
  b1 = b1  b2 = b2
  Requests = {q1, q2}
  Actions <- MCStartTimes
  DEBOUNCE = 2
  MAX_CONFIG_BYTES = 950
  RULES_WRITE_CEILING = 930
  SeedBytes = 60
  Browsers = {}
  Logins = {}
  Callbacks = {}
  Emails = {"operator", "somebody"}
  AllowedEmails = {"operator"}
  PKCE_TTL = 1
  SESSION_TTL = 1
  MaxClock = 2
  FaultKinds = {"dies"}
  MaxFaults = 1
INVARIANT AnnouncedAsArmed
CHECK_DEADLOCK FALSE
