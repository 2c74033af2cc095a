---------------------------- MODULE MCApprovals ----------------------------
(* Small sessions for Approvals: every approval has the same idempotency     *)
(* key, those of Alike also the same arguments; the turns share a process or *)
(* have one each.                                                            *)
EXTENDS Approvals, TLC

CONSTANTS Alike, key, same, other, t1, t2, p1, p2

OneKey == [a \in Approval |-> key]
MostlySame == [a \in Approval |-> IF a \in Alike THEN same ELSE other]
Together == [t \in Turn |-> p1]
Apart == t1 :> p1 @@ t2 :> p2
=============================================================================
