CONSTANTS
  r3 = r3
  r2 = r2
  r1 = r1
  None = None
  Window = 5
  Ids <- MCIds
  Values <- MCValues
  ScanWords <- MCScan
  AuthWords <- MCAuth
  FimWords <- MCFim
  Batches <- MCBatches
  Models <- MCModels
  RefSets <- MCRefSets
  Runs = {r1, r2, r3}
  Invocations <- Settings
  MaxRequests = 1
  MaxEvents = 2
  MaxActive = 1
  MaxCrashes = 1
SPECIFICATION Spec
INVARIANTS CrashCostsOneAnalysis SummaryAccountsForIncidents
PROPERTY DryRunForecasts
SYMMETRY RunSymmetry
CHECK_DEADLOCK FALSE
