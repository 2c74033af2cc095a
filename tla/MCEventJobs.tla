---------------------------- MODULE MCEventJobs ----------------------------
(* Small instances of EventJobs for TLC. *)
EXTENDS EventJobsRefinement, TLC

CONSTANTS e1, e2, laneA, laneB, w1, w2

\* Both events share a lane; the other lane stays empty.
OneLane  == (e1 :> laneA) @@ (e2 :> laneA)

Symmetry == Permutations({w1, w2})

=============================================================================
