CONSTANTS
  None = None
  Garbled = Garbled
  SuricataRuleIds = {"100101", "100102", "100120"}
  HighRiskRules = {"5710", "100120", "100200"}
  Technique <- MCTechnique
  Phrases = {}
  TimelineCap = 1
  Raws <- MCRaws
  Hunts = {"hunt"}
  Fetches = {"f1", "f2"}
  Casts = {{"hunt"}, {"f1", "f2"}}
  Hours = 1
  TailLines = 2
  MaxLag = 1
  MaxClock = 3
  MaxLog = 3
  MaxDrops = 1
SPECIFICATION Spec
INVARIANTS HuntTableMatchesTotal PageCountsTheTable FetchesCoverTheLog
CHECK_DEADLOCK FALSE
