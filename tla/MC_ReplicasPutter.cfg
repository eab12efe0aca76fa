CONSTANTS
  Levels = {0, 1, 2}
  ReplicaCount <- MCReplicaCount
  MaxReplicas = 3
  LoopVarPerIteration = TRUE
SPECIFICATION Spec
INVARIANTS
  TypeOK
  SendNeverBlocks
  PutResultFaithful
  DistinctReplicasStored
PROPERTIES
  PutTerminates
  PutReturnsLast
CHECK_DEADLOCK FALSE
