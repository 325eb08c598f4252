CONSTANTS
  None = None
  SuricataRuleIds = {"100101", "100102", "100120"}
  HighRiskRules = {"5710", "100120", "100200"}
  Technique <- MCTechnique
  Phrases = {"Initial Access"}
  TimelineCap = 2
  Scenes <- MCScenes
  Runs = {"r1", "r2", "r3"}
  Producers = {"measure", "correlate"}
  Produces <- MCProduces
  Models <- MCModels
  Invocations <- MCInvocations
  MaxClock = 2
  MaxActive = 2
  MaxCrashes = 1
SPECIFICATION Spec
INVARIANT MissesAreShown
CHECK_DEADLOCK FALSE
