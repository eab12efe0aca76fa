CONSTANTS
  Levels = {0, 1, 2}
  ReplicaCount <- MCReplicaCount
  MaxReplicas = 3
  LoopVarPerIteration = FALSE
SPECIFICATION Spec
INVARIANT
  DistinctReplicasStored
CHECK_DEADLOCK FALSE
