CONSTANTS
  r2 = r2
  r1 = r1
  None = None
  Window = 5
  Ids <- MCIds
  Values <- MCValues
  ScanWords <- MCScan
  AuthWords <- MCAuth
  FimWords <- MCFim
  Batches <- MCBatches
  Models <- MCModels
  RefSets <- MCRefSets
  Runs = {r1, r2}
  Invocations <- Positional
  MaxRequests = 1
  MaxEvents = 2
  MaxActive = 1
  MaxCrashes = 0
SPECIFICATION Spec
INVARIANT ResultsMatchIncidents
CHECK_DEADLOCK FALSE
