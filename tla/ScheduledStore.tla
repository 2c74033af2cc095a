--------------------------- MODULE ScheduledStore ---------------------------
(***************************************************************************)
(* The transactions of ScheduledTaskStore (feishu/agent/scheduled.py):     *)
(* confirmed tasks with their next trigger, and runs with their lease,     *)
(* their continuation and the delivery of their notice.                    *)
(*                                                                         *)
(* Every instant is relative to the present: a trigger that is due has     *)
(* due <= 0, a lease or deadline that has passed has 0 left.  A caller     *)
(* whose reading of the clock is `age' old passes -age as its now.         *)
(***************************************************************************)
EXTENDS Integers

CONSTANTS
    Task,          \* confirmed or drafted tasks
    MaxRuns,       \* bound: runs of one task that are explored
    MaxTurns,      \* bound: execution leases one run is given
    Horizon,       \* bound: the furthest next trigger
    Grace,         \* grace_seconds
    Lease,         \* lease_seconds
    AskTTL,        \* SCHEDULED_APPROVAL_TTL_SECONDS
    NoticeLease,   \* lease_seconds of claim_delivery
    MaxLag         \* bound: the age of the runner's reading of the clock

ASSUME ScheduledAssumption ==
    /\ {MaxRuns, MaxTurns, Horizon, Lease, AskTTL, NoticeLease} \subseteq Nat \ {0}
    /\ {Grace, MaxLag} \subseteq Nat
    /\ MaxLag < Lease

VARIABLES
    task,   \* [Task -> TaskRow]: scheduled_tasks
    run     \* [RunId -> RunRow]: scheduled_runs, with the approval a run waits for

storeVars == <<task, run>>

-----------------------------------------------------------------------------
RunId == Task \X (1..MaxRuns)

\* No next trigger, or one beyond what is explored.
Never == Horizon + 1

\* Instants further back are not told apart.
Floor == -(Grace + MaxLag + 1)

TaskRow == [kind: {"once", "interval", "calendar"},
            state: {"draft", "active", "paused", "deleted", "completed"},
            due: Floor..Never,              \* next_run_at
            last: (Floor - 1)..Horizon]     \* history: the latest trigger with a run

\* _ACTIVE_RUNS; "awaiting" stands for both awaiting_ statuses, "none" is no row.
Occupying == {"running", "awaiting", "unknown"}
Ended == {"succeeded", "failed", "missed", "skipped_overlap"}

RunRow == [status: Occupying \cup Ended \cup {"none"},
           token: 0..MaxTurns,      \* lease_token: which lease this is
           left: 0..Lease,          \* lease_until; NULL is 0
           ask: {"none", "awaiting", "executing", "unknown", "expired"},
           askOf: 0..MaxTurns,      \* wait_id: the lease under which it was asked
           wait: 0..AskTTL,         \* wait_deadline
           notice: {"pending", "sending", "delivered", "unknown"},
           ticket: 0..2,            \* delivery_token: which claimed delivery this is
           nleft: 0..NoticeLease,   \* delivery_deadline
           why: {"none", "lapsed", "expired"}]   \* summary: of the lease, of the continuation

NoRow == [status |-> "none", token |-> 0, left |-> 0, ask |-> "none", askOf |-> 0,
          wait |-> 0, notice |-> "pending", ticket |-> 0, nleft |-> 0, why |-> "none"]

UsedSlots(t) == {n \in 1..MaxRuns : run[t, n].status # "none"}
Slot(t)      == CHOOSE n \in 1..MaxRuns : run[t, n].status = "none"
Full(t)      == UsedSlots(t) = 1..MaxRuns

Occupied(t) == \E n \in 1..MaxRuns : run[t, n].status \in Occupying

\* The run exists, is running, and this is its unexpired lease.
Fenced(q, token) == run[q].status = "running" /\ run[q].token = token /\ run[q].left > 0

-----------------------------------------------------------------------------
(* Tasks *)

\* Mutant of NextAfter: the trigger that just ran is found again.
NextAtOrAfter(t, after) ==
    IF task[t].kind = "once" THEN {task[t].due} \cap (after + 1)..Horizon
                  ELSE after..(after + Horizon)

\* Schedule.next_after: the triggers strictly after an instant.  A periodic
\* schedule has one within its period, a zone decides where.
NextAfter(t, after) ==
    IF task[t].kind = "once" THEN {task[t].due} \cap (after + 1)..Horizon
                  ELSE (after + 1)..(after + Horizon)

\* confirm_draft
Confirm(t) ==
    /\ task[t].state = "draft"
    /\ \E due \in 1..Horizon :
          task' = [task EXCEPT ![t].state = "active", ![t].due = due]
    /\ UNCHANGED run

\* set_state to paused or deleted
Stop(t, state) ==
    /\ \/ state = "paused" /\ task[t].state = "active"
       \/ state = "deleted" /\ task[t].state \in {"active", "paused", "completed"}
    /\ task' = [task EXCEPT ![t].state = state]
    /\ UNCHANGED run

\* set_state to active: triggers that passed meanwhile are dropped, except that
\* the only trigger of a "once" task is recorded as missed.
Resume(t) ==
    /\ task[t].state = "paused"
    /\ \/ \E due \in NextAfter(t, 0) :
             /\ task' = [task EXCEPT ![t].state = "active",
                                     ![t].due = IF Full(t) THEN Never ELSE due]
             /\ UNCHANGED run
       \/ /\ NextAfter(t, 0) = {} /\ task[t].due # Never
          /\ run' = [run EXCEPT ![<<t, Slot(t)>>] = [NoRow EXCEPT !.status = "missed"]]
          /\ task' = [task EXCEPT ![t] = [@ EXCEPT !.state = "completed", !.due = Never, !.last = task[t].due]]

\* refresh_timezones of one task whose zone changed
Rezone(t, now) ==
    /\ task[t].kind = "calendar" /\ task[t].state = "active"
    /\ task[t].due > now /\ task[t].due # Never
    /\ \E due \in NextAfter(t, now) : task' = [task EXCEPT ![t].due = due]
    /\ UNCHANGED run

Due(now) == {t \in Task : task[t].state = "active" /\ task[t].due <= now}

\* Mutant of ClaimStatus: a frozen run does not hold up the next one.
ClaimOverFrozen(t, now) ==
    IF now - task[t].due > Grace THEN "missed"
    ELSE IF \E n \in 1..MaxRuns : run[t, n].status \in {"running", "awaiting"}
         THEN "skipped_overlap" ELSE "running"

ClaimStatus(t, now) ==
    IF now - task[t].due > Grace THEN "missed"
    ELSE IF Occupied(t) THEN "skipped_overlap" ELSE "running"

\* The row claim_due inserts.
NewRow(status, now) ==
    IF status = "running"
    THEN [NoRow EXCEPT !.status = status, !.token = 1, !.left = Lease + now]
    ELSE [NoRow EXCEPT !.status = status]

\* claim_due of one of the tasks that have been due longest
ClaimDue(t, now) ==
    /\ t \in Due(now) /\ \A s \in Due(now) : task[t].due <= task[s].due
    /\ run' = [run EXCEPT ![<<t, Slot(t)>>] = NewRow(ClaimStatus(t, now), now)]
    /\ LET next == IF UsedSlots(t) \cup {Slot(t)} = 1..MaxRuns /\ task[t].kind # "once"
                   THEN {Never} ELSE NextAfter(t, now)
       IN  \/ \E due \in next : task' = [task EXCEPT ![t].due = due, ![t].last = task[t].due]
           \/ /\ next = {}
              /\ task' = [task EXCEPT ![t] = [@ EXCEPT !.state = "completed", !.due = Never, !.last = task[t].due]]

-----------------------------------------------------------------------------
(* Runs: lease and status *)

\* The notice is owed again, whatever became of an earlier one.
Renotify(row) == [row EXCEPT !.notice = "pending", !.nleft = 0]

\* finish_run under a lease: no new notice, the one of the run is still owed.
Finish(q, status) == run' = [run EXCEPT ![q].status = status, ![q].left = 0, ![q].why = "none"]

\* finish_run of an expired continuation: whatever was told before, tell this.
FinishWait(q, status) ==
    run' = [run EXCEPT ![q] = [Renotify(@) EXCEPT !.status = status, !.left = 0,
                                  !.why = IF status = "failed" THEN "expired" ELSE "none"]]

\* Mutant of LapsedRun: the notice of the run is not owed again.
LapsedQuietly(row) ==
    IF row.status = "running" /\ row.left = 0
    THEN [row EXCEPT !.status = "unknown", !.why = "lapsed"]
    ELSE row

\* expire_runs: a lapsed lease freezes its run and owes the news of it.
LapsedRun(row) ==
    IF row.status = "running" /\ row.left = 0
    THEN [Renotify(row) EXCEPT !.status = "unknown", !.why = "lapsed"]
    ELSE row

ExpireRuns == run' = [q \in RunId |-> LapsedRun(run[q])]

\* Mutant of LapsedNotice: a delivery of unknown outcome is tried again.
RetriedNotice(row) ==
    IF row.notice = "sending" /\ row.nleft = 0 /\ row.ticket < 2
    THEN [row EXCEPT !.notice = "pending"] ELSE row

\* expire_deliveries: a send that was not recorded in time has an unknown outcome.
LapsedNotice(row) ==
    IF row.notice = "sending" /\ row.nleft = 0 THEN [row EXCEPT !.notice = "unknown"] ELSE row

\* renew_lease
Renew(q, token) == Fenced(q, token) /\ run' = [run EXCEPT ![q].left = Lease]

\* reconcile_unknown
Reconcile(q) ==
    /\ run[q].status = "unknown"
    /\ \E status \in {"succeeded", "failed"} :
          run' = [run EXCEPT ![q].status = status, ![q].token = 0, ![q].left = 0, ![q].wait = 0]
    /\ UNCHANGED task

-----------------------------------------------------------------------------
(* Runs: continuations *)

\* record_wait, after the approval itself was stored
RecordWait(q, token) ==
    /\ Fenced(q, token)
    /\ run' = [run EXCEPT ![q].ask = "awaiting", ![q].askOf = token, ![q].wait = AskTTL]

\* claim_resume: one callback takes over the run that waits.
ClaimResume(q) ==
    /\ run[q].status = "awaiting"
    /\ task[q[1]].state \in {"active", "completed"}
    /\ run' = [run EXCEPT ![q].status = "running", ![q].token = @ + 1, ![q].left = Lease]

\* Mutant of WaitExpired: only continuations that could still be taken over.
WaitExpiredOfActive(q) ==
    run[q].status = "awaiting" /\ run[q].wait = 0 /\ task[q[1]].state \in {"active", "completed"}

\* expired_waits
WaitExpired(q) == run[q].status = "awaiting" /\ run[q].wait = 0

-----------------------------------------------------------------------------
(* Runs: notices *)

\* pending_deliveries
Pending(row) == row.status \notin {"none", "running"} /\ row.notice = "pending"

\* claim_delivery
ClaimDelivery(q) ==
    /\ Pending(run[q])
    /\ run' = [run EXCEPT ![q].notice = "sending", ![q].ticket = @ + 1, ![q].nleft = NoticeLease]

\* record_delivery
Recordable(q, ticket) == run[q].notice = "sending" /\ run[q].ticket = ticket

RecordDelivery(q, ticket, outcome) ==
    /\ Recordable(q, ticket)
    /\ run' = [run EXCEPT ![q].notice = outcome, ![q].nleft = 0]

-----------------------------------------------------------------------------
\* Time

Passed(n) == IF n = 0 THEN 0 ELSE n - 1

Sooner(due, floor) == IF due = floor \/ due = Never THEN due ELSE due - 1

Later ==
    /\ task' = [t \in Task |-> [task[t] EXCEPT
                  !.due = Sooner(@, Floor), !.last = Sooner(@, Floor - 1)]]
    /\ run' = [q \in RunId |-> [run[q] EXCEPT
                  !.left = Passed(@), !.wait = Passed(@), !.nleft = Passed(@)]]

StoreInit ==
    /\ \E kind \in [Task -> {"once", "interval", "calendar"}] :
          task = [t \in Task |-> [kind |-> kind[t], state |-> "draft", due |-> Never, last |-> Floor - 1]]
    /\ run = [q \in RunId |-> NoRow]

\* The rows have their types.
StoreTypeOK == task \in [Task -> TaskRow] /\ run \in [RunId -> RunRow]
=============================================================================
