CONSTANTS
  r2 = r2
  r1 = r1
  None = None
  Window = 5
  Ids <- MCIds
  Values <- MCValues
  ScanWords <- MCScan
  AuthWords <- MCAuth
  FimWords <- MCFim
  Batches <- MCBatches
  Models <- MCModels
  RefSets <- MCRefSets
  Runs = {r1, r2}
  Invocations <- Overlapping
  MaxRequests = 1
  MaxEvents = 2
  MaxActive = 2
  MaxCrashes = 1
SPECIFICATION Spec
INVARIANTS TypeOK ResultsCiteOwnAlerts ResultsMatchIncidents ResultsNameTheirModel RequestCeiling
PROPERTY EveryRunEnds
CHECK_DEADLOCK FALSE
