----------------------------- MODULE EventJobs -----------------------------
(***************************************************************************)
(* The durable event inbox of feishu/events/jobs.py (SqliteEventJobStore,  *)
(* and InMemoryEventJobStore where the two must agree): one row per event, *)
(* claimed under a lease, executed lane by lane, settled or frozen.        *)
(*                                                                         *)
(* Every operation of the store is one transaction under its lock, so it   *)
(* is one action.  The caller reads its clock before it waits for that     *)
(* lock: `d` is how far that reading lies in the past when the transaction *)
(* runs, at most MaxLag.                                                   *)
(*                                                                         *)
(* Time is relative.  A row holds how long its lease still runs, how long  *)
(* until it is available and how long ago it settled, and Tick moves them  *)
(* all; so no run of the model ends because a clock reached a bound.  A    *)
(* time nobody reads in a status (available_at of a running row) is 0.     *)
(***************************************************************************)
EXTENDS Integers, FiniteSets

CONSTANTS
    Event,           \* event ids (the primary key)
    Lane,            \* partition keys
    LaneOf,          \* [Event -> Lane], the partition an event belongs to
    Private,         \* events enqueued with private_message=True
    Worker,          \* worker ids
    NoWorker,        \* worker_id IS NULL
    MaxAttempts,     \* max_attempts of the store
    LeaseSeconds,    \* lease_seconds of the workers
    BackoffMax,      \* largest delay a caller passes to retry / fail_fenced
    Tolerance,       \* largest availability_tolerance_seconds
    CompletedTtl,    \* completed_ttl_seconds
    UnknownTtl,      \* unknown_ttl_seconds, when it is not None
    UnknownExpires,  \* unknown_ttl_seconds is not None
    MaxLag,          \* bound: age of a caller's clock reading
    MaxEpochs,       \* bound: times an event is inserted or requeued
    MaxInflight,     \* bound: effects one lease has open at a time
    MaxSeq           \* bound: receipt sequence numbers

ASSUME StoreAssumption ==
    /\ LaneOf \in [Event -> Lane]
    /\ Private \subseteq Event
    /\ NoWorker \notin Worker
    /\ MaxAttempts \in Nat \ {0}
    /\ LeaseSeconds \in Nat \ {0}
    /\ BackoffMax \in Nat
    /\ Tolerance \in Nat
    /\ CompletedTtl \in Nat
    /\ UnknownTtl \in Nat
    /\ UnknownExpires \in BOOLEAN
    /\ MaxLag \in Nat
    /\ MaxEpochs \in Nat
    /\ MaxInflight \in Nat
    /\ MaxSeq \in Nat

VARIABLES
    jobs,     \* [Event -> Row]: event_jobs joined with its order and control rows
    issued,   \* [Event -> Nat]: lease tokens handed out so far; a token is never reused
    epoch     \* [Event -> Nat]: times the event was inserted or requeued by an operator

storeVars == <<jobs, issued, epoch>>

-----------------------------------------------------------------------------
(* Rows *)

Waiting == {"queued", "retry_wait"}
Status  == {"absent", "running", "completed", "failed", "unknown"} \cup Waiting

Row == [status: Status, attempt: 0..MaxAttempts, started: BOOLEAN,
        worker: Worker \cup {NoWorker}, token: Nat, lease: Int, avail: Int,
        age: Nat, seq: Nat, inflight: Nat, uncertain: BOOLEAN]

NoRow == [status |-> "absent", attempt |-> 0, started |-> FALSE,
          worker |-> NoWorker, token |-> 0, lease |-> 0, avail |-> 0,
          age |-> 0, seq |-> 0, inflight |-> 0, uncertain |-> FALSE]

\* Mutant of Unresolved: a frozen job no longer blocks its lane.
UnresolvedUnlessFrozen(js, e) == js[e].status \notin {"absent", "completed", "unknown"}

Present(js, e)    == js[e].status # "absent"
Unresolved(js, e) == js[e].status \notin {"absent", "completed"}

\* No unresolved job of the same lane was received before e.
HeadOfLane(js, e) ==
    \A f \in Event : LaneOf[f] = LaneOf[e] /\ Unresolved(js, f)
                        => js[e].seq <= js[f].seq

\* A row that leaves "running", or is requeued, for status st.
Released(row, st, avail, d) ==
    [row EXCEPT !.status = st, !.worker = NoWorker, !.lease = 0,
                !.avail = IF st \in Waiting THEN avail ELSE 0,
                !.age = IF st \in {"completed", "unknown"} THEN d ELSE 0]

\* Where an attempt that failed before its side effect goes.
RetryOrFail(row) == IF row.attempt < MaxAttempts THEN "retry_wait" ELSE "failed"

Owns(e, w) == jobs[e].status = "running" /\ jobs[e].worker = w

\* Mutant of Holds: any lease on the event will do.
HoldsSomeLease(e, w, t, d) == jobs[e].status = "running" /\ jobs[e].lease + d > 0

\* The check of every fenced operation: owner, token and an unexpired lease.
Holds(e, w, t, d) == Owns(e, w) /\ jobs[e].token = t /\ jobs[e].lease + d > 0

Update(e, row) == jobs' = [jobs EXCEPT ![e] = row]

-----------------------------------------------------------------------------
(* Housekeeping done inside enqueue and claim_next *)

Purged(row, d) ==
    IF \/ row.status = "completed" /\ row.age >= CompletedTtl + d
       \/ row.status = "unknown" /\ UnknownExpires /\ row.age >= UnknownTtl + d
    THEN NoRow ELSE row

Recovered(row, d) ==
    IF row.status = "running" /\ row.lease + d <= 0
    THEN Released(row, IF row.started THEN "unknown" ELSE RetryOrFail(row), -d, d)
    ELSE row

\* Mutant of Swept: expired leases are not recovered.
SweptWithoutRecovery(d) == [e \in Event |-> Purged(jobs[e], d)]

Swept(d) == [e \in Event |-> Recovered(Purged(jobs[e], d), d)]

-----------------------------------------------------------------------------
(* enqueue *)

\* Mutant of NextSeq: one more than the number of rows.
CountSeq(js, s) == s = 1 + Cardinality({f \in Event : Present(js, f)})

\* INTEGER PRIMARY KEY without AUTOINCREMENT: one more than the largest in use.
NextSeq(js, s) ==
    /\ \A f \in Event : js[f].seq < s
    /\ s = 1 \/ \E f \in Event : js[f].seq = s - 1

\* A new event is persisted; the private flag is refused where UNKNOWN expires.
EnqueueNew(e, d) ==
    LET js == [f \in Event |-> Purged(jobs[f], d)] IN
    /\ e \in Private => ~UnknownExpires
    /\ ~Present(js, e)
    /\ epoch[e] < MaxEpochs
    /\ \E s \in 1..MaxSeq :
          /\ NextSeq(js, s)
          /\ jobs' = [js EXCEPT ![e] = [NoRow EXCEPT !.status = "queued", !.seq = s,
                                                     !.avail = -d]]
    /\ epoch' = [epoch EXCEPT ![e] = @ + 1]
    /\ UNCHANGED issued

\* A known event id: nothing but the purge happens, and enqueue returns False.
EnqueueDuplicate(e, d) ==
    LET js == [f \in Event |-> Purged(jobs[f], d)] IN
    /\ e \in Private => ~UnknownExpires
    /\ Present(js, e)
    /\ jobs' = js
    /\ UNCHANGED <<issued, epoch>>

-----------------------------------------------------------------------------
(* claim_next *)

\* Mutant of Claimable: a job that waits for its backoff is overtaken.
ClaimableOvertaking(js, d, tol) ==
    {e \in Event : /\ js[e].status \in Waiting
                   /\ js[e].avail + d <= tol
                   /\ \A f \in Event : LaneOf[f] = LaneOf[e] /\ Unresolved(js, f)
                                           => js[e].seq <= js[f].seq \/ js[f].avail + d > tol}

Claimable(js, d, tol) ==
    {e \in Event : /\ js[e].status \in Waiting
                   /\ js[e].avail + d <= tol
                   /\ HeadOfLane(js, e)}

Leased(row, w, t, d) ==
    [row EXCEPT !.status = "running", !.attempt = @ + 1, !.worker = w,
                !.token = t, !.lease = LeaseSeconds - d, !.avail = 0,
                !.inflight = 0, !.uncertain = FALSE]

ClaimJob(w, e, d, tol) ==
    LET js == Swept(d) IN
    /\ e \in Claimable(js, d, tol)
    /\ \A f \in Claimable(js, d, tol) : js[e].seq <= js[f].seq
    /\ jobs' = [js EXCEPT ![e] = Leased(@, w, issued[e] + 1, d)]
    /\ issued' = [issued EXCEPT ![e] = @ + 1]
    /\ UNCHANGED epoch

\* claim_next returns None, having purged and recovered what had expired.
ClaimNone(d, tol) ==
    /\ Claimable(Swept(d), d, tol) = {}
    /\ jobs' = Swept(d)
    /\ UNCHANGED <<issued, epoch>>

-----------------------------------------------------------------------------
(* Operations of the lease holder, without a token ... *)

Renew(e, w, d) ==
    /\ Owns(e, w)
    /\ Update(e, [jobs[e] EXCEPT !.lease = LeaseSeconds - d])
    /\ UNCHANGED <<issued, epoch>>

MarkSideEffectStarted(e, w) ==
    /\ Owns(e, w)
    /\ Update(e, [jobs[e] EXCEPT !.started = TRUE])
    /\ UNCHANGED <<issued, epoch>>

Complete(e, w, d) ==
    /\ Owns(e, w)
    /\ Update(e, Released(jobs[e], "completed", 0, d))
    /\ UNCHANGED <<issued, epoch>>

Retry(e, w, delay, d) ==
    /\ Owns(e, w)
    /\ ~jobs[e].started
    /\ Update(e, Released(jobs[e], RetryOrFail(jobs[e]), delay - d, d))
    /\ UNCHANGED <<issued, epoch>>

MarkUnknown(e, w, d) ==
    /\ Owns(e, w)
    /\ Update(e, Released(jobs[e], "unknown", 0, d))
    /\ UNCHANGED <<issued, epoch>>

(* ... and with one *)

RenewFenced(e, w, t, d) ==
    /\ Holds(e, w, t, d)
    /\ Update(e, [jobs[e] EXCEPT !.lease = LeaseSeconds - d])
    /\ UNCHANGED <<issued, epoch>>

MarkFencedStarted(e, w, t, d) ==
    /\ Holds(e, w, t, d)
    /\ Update(e, [jobs[e] EXCEPT !.started = TRUE])
    /\ UNCHANGED <<issued, epoch>>

BeginEffect(e, w, t, d) ==
    /\ Holds(e, w, t, d)
    /\ Update(e, [jobs[e] EXCEPT !.inflight = @ + 1, !.started = TRUE])
    /\ UNCHANGED <<issued, epoch>>

EndEffect(e, w, t, uncertain, d) ==
    /\ Holds(e, w, t, d)
    /\ jobs[e].inflight > 0
    /\ Update(e, [jobs[e] EXCEPT !.inflight = @ - 1, !.uncertain = @ \/ uncertain])
    /\ UNCHANGED <<issued, epoch>>

\* Mutant of FinishFenced: an uncertain effect that has ended is forgotten.
FinishForgettingDoubt(e, w, t, d) ==
    /\ Holds(e, w, t, d)
    /\ Update(e, Released(jobs[e], IF jobs[e].inflight > 0 THEN "unknown" ELSE "completed", 0, d))
    /\ UNCHANGED <<issued, epoch>>

FinishFenced(e, w, t, d) ==
    LET open == jobs[e].inflight > 0 \/ jobs[e].uncertain IN
    /\ Holds(e, w, t, d)
    /\ Update(e, Released(jobs[e], IF open THEN "unknown" ELSE "completed", 0, d))
    /\ UNCHANGED <<issued, epoch>>

\* Mutant of FailFenced: only bracketed effects freeze a failed job.
FailIgnoringMark(e, w, t, delay, d) ==
    LET frozen == jobs[e].inflight > 0 \/ jobs[e].uncertain IN
    /\ Holds(e, w, t, d)
    /\ Update(e, Released(jobs[e], IF frozen THEN "unknown" ELSE RetryOrFail(jobs[e]),
                          delay - d, d))
    /\ UNCHANGED <<issued, epoch>>

FailFenced(e, w, t, delay, d) ==
    LET frozen == jobs[e].started \/ jobs[e].inflight > 0 \/ jobs[e].uncertain IN
    /\ Holds(e, w, t, d)
    /\ Update(e, Released(jobs[e], IF frozen THEN "unknown" ELSE RetryOrFail(jobs[e]),
                          delay - d, d))
    /\ UNCHANGED <<issued, epoch>>

-----------------------------------------------------------------------------
(* Operations of an operator *)

Requeued(row, d) == [Released(row, "queued", -d, d) EXCEPT !.attempt = 0]

\* Mutant of RequeueUnknown: the side-effect flag is not cleared.
RequeueStillStarted(e, d) ==
    /\ jobs[e].status = "unknown"
    /\ epoch[e] < MaxEpochs
    /\ Update(e, Requeued(jobs[e], d))
    /\ epoch' = [epoch EXCEPT ![e] = @ + 1]
    /\ UNCHANGED issued

RequeueUnknown(e, d) ==
    /\ jobs[e].status = "unknown"
    /\ epoch[e] < MaxEpochs
    /\ Update(e, [Requeued(jobs[e], d) EXCEPT !.started = FALSE])
    /\ epoch' = [epoch EXCEPT ![e] = @ + 1]
    /\ UNCHANGED issued

RequeueFailed(e, d) ==
    /\ jobs[e].status = "failed"
    /\ epoch[e] < MaxEpochs
    /\ Update(e, Requeued(jobs[e], d))
    /\ epoch' = [epoch EXCEPT ![e] = @ + 1]
    /\ UNCHANGED issued

-----------------------------------------------------------------------------
(* Time *)

Down(x) == IF x > -MaxLag THEN x - 1 ELSE x

\* age is kept to one step past the longest retention it is compared with.
AgeCap == CompletedTtl + UnknownTtl + MaxLag

Aged(row) ==
    [row EXCEPT !.lease = IF row.status = "running" THEN Down(@) ELSE @,
                !.avail = IF row.status \in Waiting THEN Down(@) ELSE @,
                !.age   = IF row.status \in {"completed", "unknown"} /\ @ < AgeCap
                          THEN @ + 1 ELSE @]

Tick ==
    /\ jobs' = [e \in Event |-> Aged(jobs[e])]
    /\ jobs' # jobs
    /\ UNCHANGED <<issued, epoch>>

-----------------------------------------------------------------------------
(* Reads *)

\* should_interrupt: the first unresolved job after e in its lane is a private message.
Later(e) == {f \in Event : LaneOf[f] = LaneOf[e] /\ Unresolved(jobs, f)
                              /\ jobs[f].seq > jobs[e].seq}

SuccessorIsMessage(e) ==
    \E f \in Later(e) \cap Private : \A g \in Later(e) : jobs[f].seq <= jobs[g].seq

\* Mutant of WakeupTimes: running leases do not wake anybody.
WakeupOfWaiting ==
    {jobs[e].avail : e \in {f \in Event : jobs[f].status \in Waiting /\ HeadOfLane(jobs, f)}}

\* next_wakeup is the least of these times (relative to now), or None.
WakeupTimes ==
    LET heads(st) == {e \in Event : jobs[e].status \in st /\ HeadOfLane(jobs, e)} IN
    {jobs[e].avail : e \in heads(Waiting)} \cup {jobs[e].lease : e \in heads({"running"})}

-----------------------------------------------------------------------------
(* The store under any use its callers may make of it: any worker, holding *)
(* any token ever issued, may call any operation at any time.              *)

StoreInit ==
    /\ jobs = [e \in Event |-> NoRow]
    /\ issued = [e \in Event |-> 0]
    /\ epoch = [e \in Event |-> 0]

Lags == 0..MaxLag

Receive(e, d) == EnqueueNew(e, d) \/ EnqueueDuplicate(e, d)

Claim(w, d) ==
    \E tol \in 0..Tolerance : ClaimNone(d, tol) \/ \E e \in Event : ClaimJob(w, e, d, tol)

Unfenced(e, w, d) ==
    \/ Renew(e, w, d)
    \/ MarkSideEffectStarted(e, w)
    \/ Complete(e, w, d)
    \/ \E delay \in 0..BackoffMax : Retry(e, w, delay, d)
    \/ MarkUnknown(e, w, d)

Fenced(e, w, d) ==
    \E t \in 1..issued[e] :
        \/ RenewFenced(e, w, t, d)
        \/ MarkFencedStarted(e, w, t, d)
        \/ jobs[e].inflight < MaxInflight /\ BeginEffect(e, w, t, d)
        \/ \E u \in BOOLEAN : EndEffect(e, w, t, u, d)
        \/ FinishFenced(e, w, t, d)
        \/ \E delay \in 0..BackoffMax : FailFenced(e, w, t, delay, d)

Operator(e, d) == RequeueUnknown(e, d) \/ RequeueFailed(e, d)

StoreNext ==
    \/ Tick
    \/ \E d \in Lags :
         \/ \E w \in Worker : Claim(w, d)
         \/ \E e \in Event :
              \/ Receive(e, d)
              \/ Operator(e, d)
              \/ \E w \in Worker : Unfenced(e, w, d) \/ Fenced(e, w, d)

StoreSpec == StoreInit /\ [][StoreNext]_storeVars

-----------------------------------------------------------------------------
(* Properties *)

\* The rows keep the shape of the three tables; a lease and a worker id belong
\* to running rows only, and the attempt counter never passes max_attempts.
StoreTypeOK ==
    /\ jobs \in [Event -> Row]
    /\ issued \in [Event -> Nat]
    /\ epoch \in [Event -> Nat]

\* A lane is worked in receipt order: a job that was ever attempted and is not
\* completed (running, waiting to retry, failed or frozen) is the head of its
\* lane, so nothing behind it was claimed before it was resolved, whatever
\* expiries, retries, purges and requeues happened (claim_next's NOT EXISTS).
LaneOrder ==
    \A e \in Event :
        Unresolved(jobs, e) /\ (jobs[e].attempt > 0 \/ jobs[e].status \in {"failed", "unknown"})
            => HeadOfLane(jobs, e)

\* No two leases of one lane at once ("without overlapping its partition").
OneLeasePerLane ==
    \A e, f \in Event :
        /\ jobs[e].status = "running" /\ jobs[f].status = "running"
        /\ LaneOf[e] = LaneOf[f]
        => e = f

\* What can be claimed again without an operator never started a side effect;
\* requeue_failed may keep the flag as it is because a failed job has it clear.
WaitingNeverStarted ==
    \A e \in Event : jobs[e].status \in Waiting \cup {"failed"} => ~jobs[e].started

\* e is received after a frozen job of its lane whose retention is over.
BehindExpiredUnknown(e) ==
    \E f \in Event : /\ LaneOf[f] = LaneOf[e] /\ jobs[f].seq < jobs[e].seq
                     /\ jobs[f].status = "unknown" /\ Purged(jobs[f], 0) # jobs[f]

\* A host that sets its alarm to next_wakeup is not late for a job: when
\* claim_next, which purges and recovers before it selects, would find one now,
\* or a lease is there to be recovered, next_wakeup is not None and is due.  The
\* exception is a job behind an UNKNOWN row whose retention is over: the claim
\* would purge that row and take the job, but next_wakeup does not purge, still
\* sees the lane blocked and names no time for it.
WakeupIsDue ==
    (\/ \E e \in Claimable(Swept(0), 0, 0) : ~BehindExpiredUnknown(e)
     \/ \E e \in Event : jobs[e].status = "running" /\ jobs[e].lease <= 0)
    => \E x \in WakeupTimes : x <= 0

\* A completed job stays completed until its retention ended, and only then is
\* its row dropped: a redelivery inside the retention never runs it again.
CompletedIsFinal ==
    [][\A e \in Event : jobs[e].status = "completed" =>
          \/ jobs'[e].status = "completed"
          \/ jobs'[e].status \in {"absent", "queued"} /\ jobs[e].age >= CompletedTtl]_storeVars

=============================================================================
