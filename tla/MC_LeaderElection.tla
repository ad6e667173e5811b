--------------------------- MODULE MC_LeaderElection ---------------------------
(***************************************************************************)
(* Two replicas, a Lease of 4 ticks renewed every 2, clocks 1 apart.       *)
(***************************************************************************)
EXTENDS LeaderElection, TLC

CONSTANTS r1, r2

MCReplicas == {r1, r2}

ReplicaSymmetry == Permutations(MCReplicas)
=============================================================================
