------------------------ MODULE EventJobsRefinement ------------------------
(* The store of EventJobs implements the inbox of DurableInbox. *)
EXTENDS EventJobs

PhaseOf(row) ==
    CASE row.status = "absent"                    -> "none"
      [] row.status \in Waiting                   -> "waiting"
      [] row.status = "running" /\ ~row.started   -> "working"
      [] row.status = "running" /\ row.started    -> "effective"
      [] row.status \in {"failed", "unknown"}     -> "stuck"
      [] row.status = "completed"                 -> "done"

phaseBar == [e \in Event |-> PhaseOf(jobs[e])]

aheadBar ==
    [e \in Event |->
        {f \in Event : /\ LaneOf[f] = LaneOf[e] /\ jobs[f].seq < jobs[e].seq
                       /\ Unresolved(jobs, e) /\ Unresolved(jobs, f)}]

Inbox == INSTANCE DurableInbox WITH phase <- phaseBar, ahead <- aheadBar

\* However its callers interleave, every transaction of the store is a step of
\* the inbox: sequence numbers give the order of receipt although they are
\* reused after a purge, leases and tokens give "started at the head, at most
\* once after its effect", and a sweep moves several events at once.
ImplementsInbox == Inbox!InboxSpec

=============================================================================
