CONSTANTS
  Ids <- MCIds
  Values <- MCValues
  None = None
  Window = 5
  Batches <- MCBatches
SPECIFICATION Spec
INVARIANTS TypeOK Forest GroupsAreComponents OneSourcePerGroup
PROPERTY ComputesCandidateGroups
CHECK_DEADLOCK FALSE
