------------------------------ MODULE MCCluster ------------------------------
(* Small instances of Cluster for TLC.                                     *)
EXTENDS Cluster, TLC

CONSTANTS v1, v2, a1, a2, b1, x1, x2

MCVmOf == [a \in VmActor |-> IF a = b1 THEN v2 ELSE v1]
MCCapacity == [x \in Agent |-> 1]

\* Agents can be renamed, so of two agents of which one fails at most, x2 does not.
X2Lasts == x2 \in alive' /\ watch'[x2] # "lost"

MCSpec == ClusterInit /\ [][ClusterNext /\ X2Lasts]_vars /\ ClusterFairness
=============================================================================
