CONSTANTS
  Plan <- MCPlan
  Watched <- MCWatched
  Timeout <- MCTimeout
  Raises <- MCRaises
  NoiseRules <- MCNoise
  PollSeconds = 2
  TailLines = 2
  Skew = 0
  Outages = FALSE
  Lag = 1
  MaxAlerts = 1
SPECIFICATION Spec
INVARIANT NoStaleCredit
CHECK_DEADLOCK FALSE
