---------------------------- MODULE MCJobRunner ----------------------------
(* Small instances of JobRunner for TLC. *)
EXTENDS JobRunner, TLC

CONSTANTS e1, e2, e3, laneA, w1, w2, r1, r2

OneLane == [e \in Event |-> laneA]
Workers == [r \in Runner |-> IF r = r1 THEN w1 ELSE w2]

\* The two processes are interchangeable: a runner and its worker id together.
Symmetry == {f \in Permutations({r1, r2, w1, w2}) : f[f[r1]] = r1 /\ f[r1] \in {r1, r2} /\ f[w1] = Workers[f[r1]]}
=============================================================================
