CONSTANTS
  None = None
  Callers = {"enable1", "enable2", "enable3", "monitored1", "monitored2"}
  Programs <- MCPrograms
  Base = "base"
  MaxConfKills = 1
  Runs = {"harden1", "harden2", "harden3"}
  FwRules = 3
  MaxDashKills = 1
  Casts <- MCCasts
SPECIFICATION Spec
INVARIANTS NoBlockTwice MergedBlocksStay EnabledIsLoaded
  NeverLockedOut TimeoutSetOnce EndsWithDashboardUp
CHECK_DEADLOCK FALSE
