CONSTANTS
  None = None
  Miss = Miss
  SuricataRuleIds = {"100101", "100102", "100120"}
  HighRiskRules = {"5710", "100120", "100200"}
  Technique = {}
  Phrases = {}
  TimelineCap = 2
  TestKeys <- MCTestKeys
  Histories <- MCHistories
SPECIFICATION Spec
INVARIANT RegressionAboveAFifth
CHECK_DEADLOCK FALSE
