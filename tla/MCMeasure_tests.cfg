CONSTANTS
  Plan <- MCPlan
  Watched <- MCWatched
  Timeout <- MCTimeout
  Raises <- MCRaises
  NoiseRules <- MCNoise
  PollSeconds = 1
  TailLines = 1
  Skew <- MCSlow
  Outages = TRUE
  Lag = 1
  MaxAlerts = 2
SPECIFICATION Spec
INVARIANTS TypeOK CreditsTheFirstAlert MissesOnlyAtTheEnd
PROPERTY EveryTestIsReported
CHECK_DEADLOCK FALSE
