------------------------- MODULE MC_ReplicasPutter -------------------------
EXTENDS ReplicasPutter, TLC

\* GetReplicaCount for three levels, scaled down: none, two and three replicas.
MCReplicaCount == (0 :> 0) @@ (1 :> 2) @@ (2 :> 3)

=============================================================================
