-------------------------- MODULE JobRunnerProofs --------------------------
(***************************************************************************)
(* Theorems about EventJobs and JobRunner, for every set of events, lanes, *)
(* workers and runners, protected or not, every setting of the retention   *)
(* and the retries, with any number of crashes, lost leases and requeues.  *)
(*                                                                         *)
(* First the store alone.  IInv says of every single row what its status   *)
(* implies (RowOK), that receipt numbers are unique and that a lane is     *)
(* worked in order (Ordered).  With it every transaction is a step of      *)
(* DurableInbox under the mapping of EventJobsRefinement.                  *)
(*                                                                         *)
(* Then the runners on it.  IInv says that a job that waits never started  *)
(* its side effect; RInv carries this over to the runs: in one epoch of an *)
(* event the attempts that marked it or called out are one attempt, whose  *)
(* token the row keeps as long as the row is running.  Every step takes    *)
(* the store through steps of DurableInbox, and so a verdict on what waits *)
(* behind a running job keeps (ToldOK).                                    *)
(***************************************************************************)
EXTENDS JobRunner, EventJobsRefinement, FiniteSetTheorems, TLAPS

\* What the status of a row says about its other fields.
RowOK(row) ==
    /\ row \in Row
    /\ row.status = "absent" => row = NoRow
    /\ row.status # "absent" => row.seq >= 1
    /\ row.status \in Waiting => row.attempt < MaxAttempts
    /\ row.status \in {"running", "retry_wait"} => row.attempt >= 1
    /\ row.status \in Waiting \cup {"failed"} => ~row.started

RowsOK == jobs \in [Event -> Row] /\ \A e \in Event : RowOK(jobs[e])

CountersOK == issued \in [Event -> Nat] /\ epoch \in [Event -> Nat]

\* e holds its lane: it was attempted, or gave up, and is not resolved.
Attempted(js, e) ==
    Unresolved(js, e) /\ (js[e].attempt > 0 \/ js[e].status \in {"failed", "unknown"})

\* Receipt numbers are unique, and whatever was attempted heads its lane.
Ordered(js) ==
    /\ \A e, f \in Event : Present(js, e) /\ Present(js, f) /\ js[e].seq = js[f].seq => e = f
    /\ \A e \in Event : Attempted(js, e) => HeadOfLane(js, e)

IInv == RowsOK /\ CountersOK /\ Ordered(jobs)

\* ks comes from js without a new row: rows are dropped, resolved, or started
\* at the head of their lane.
Follows(js, ks) ==
    \A f \in Event :
        /\ Present(ks, f) => Present(js, f) /\ ks[f].seq = js[f].seq
        /\ Unresolved(ks, f) => Unresolved(js, f)
        /\ Attempted(ks, f) => Attempted(js, f) \/ HeadOfLane(js, f)

-----------------------------------------------------------------------------
(* Rows *)

\* Releasing a row keeps its type.
LEMMA ReleasedType ==
    ASSUME NEW row \in Row, NEW st \in Status, NEW avail \in Int, NEW d \in Nat
    PROVE  Released(row, st, avail, d) \in Row
<1> DEFINE until == IF st \in Waiting THEN avail ELSE 0
           since == IF st \in {"completed", "unknown"} THEN d ELSE 0
<1>1. until \in Int /\ since \in Nat /\ 0 \in Int OBVIOUS
<1> HIDE DEF until, since
<1>2. [row EXCEPT !.status = st, !.worker = NoWorker, !.lease = 0,
                  !.avail = until, !.age = since] \in Row
  BY <1>1 DEF Row
<1>3. QED BY <1>2 DEF Released, until, since

\* A claimed row that has an attempt left.
LEMMA LeasedType ==
    ASSUME NEW row \in Row, row.attempt < MaxAttempts, NEW w \in Worker,
           NEW t \in Nat, NEW d \in Nat
    PROVE  /\ Leased(row, w, t, d) \in Row
           /\ Leased(row, w, t, d).status = "running"
           /\ Leased(row, w, t, d).attempt = row.attempt + 1
           /\ Leased(row, w, t, d).seq = row.seq
<1> DEFINE until == LeaseSeconds - d
           next == row.attempt + 1
<1>1. next \in 0..MaxAttempts /\ until \in Int BY StoreAssumption DEF Row
<1> HIDE DEF until, next
<1>2. Leased(row, w, t, d) = [row EXCEPT !.status = "running", !.attempt = next,
         !.worker = w, !.token = t, !.lease = until, !.avail = 0,
         !.inflight = 0, !.uncertain = FALSE]
  BY DEF Leased, next, until
<1>3. "running" \in Status /\ w \in Worker \cup {NoWorker} /\ 0 \in Int /\ 0 \in Nat
  BY DEF Status
<1>4. Leased(row, w, t, d) \in Row BY <1>1, <1>2, <1>3, ZenonT(40) DEF Row
<1>5. QED BY <1>2, <1>4 DEF Row, next

\* A running row may be released to any status its attempt allows.
LEMMA ReleasedOK ==
    ASSUME NEW row, RowOK(row), row.status = "running",
           NEW st \in Status, NEW avail \in Int, NEW d \in Nat,
           \/ st \in {"completed", "unknown"}
           \/ st = RetryOrFail(row) /\ ~row.started
    PROVE  RowOK(Released(row, st, avail, d))
<1>1. row \in Row BY DEF RowOK
<1>2. Released(row, st, avail, d) \in Row BY <1>1, ReleasedType
<1>3. /\ Released(row, st, avail, d).status = st
      /\ Released(row, st, avail, d).seq = row.seq
      /\ Released(row, st, avail, d).attempt = row.attempt
      /\ Released(row, st, avail, d).started = row.started
  BY <1>1 DEF Released, Row
<1>4. QED
  BY <1>1, <1>2, <1>3, StoreAssumption DEF RowOK, RetryOrFail, Waiting, Row

\* The purge and the recovery of expired leases keep a row well-formed.
LEMMA PurgedOK ==
    ASSUME NEW row, RowOK(row), NEW d \in Nat
    PROVE  RowOK(Purged(row, d))
<1>1. NoRow \in Row BY StoreAssumption DEF NoRow, Row, Status, Waiting
<1>2. RowOK(NoRow) BY <1>1 DEF RowOK, NoRow, Waiting
<1>3. QED BY <1>2 DEF Purged

LEMMA RecoveredOK ==
    ASSUME NEW row, RowOK(row), NEW d \in Nat
    PROVE  RowOK(Recovered(row, d))
<1>1. RetryOrFail(row) \in Status /\ "unknown" \in Status BY DEF RetryOrFail, Status, Waiting
<1>2. -d \in Int OBVIOUS
<1>3. row.started \in BOOLEAN BY DEF RowOK, Row
<1>4. QED BY <1>1, <1>2, <1>3, ReleasedOK DEF Recovered

\* Both leave a row where it is in its lane, or drop it once it may go.
LEMMA SweepMoves ==
    ASSUME NEW row, RowOK(row), NEW d \in Nat
    PROVE  LET new == Recovered(Purged(row, d), d) IN
           /\ new.status # "absent" => row.status # "absent" /\ new.seq = row.seq
           /\ new.status \notin {"absent", "completed"}
                 => /\ row.status \notin {"absent", "completed"}
                    /\ new.attempt = row.attempt
                    /\ new.status \in {"failed", "unknown"}
                          => row.status \in {"failed", "unknown"} \/ row.attempt > 0
<1>1. row \in Row BY DEF RowOK
<1>2. CASE Purged(row, d) = NoRow
  BY <1>2 DEF Recovered, NoRow
<1>3. CASE Purged(row, d) = row /\ Recovered(row, d) = row
  BY <1>3
<1>4. CASE /\ Purged(row, d) = row
           /\ row.status = "running"
           /\ Recovered(row, d) =
                 Released(row, IF row.started THEN "unknown" ELSE RetryOrFail(row), -d, d)
  <2>1. /\ Recovered(row, d).seq = row.seq
        /\ Recovered(row, d).attempt = row.attempt
    BY <1>1, <1>4 DEF Released, Row
  <2>2. row.attempt > 0 BY <1>1, <1>4 DEF RowOK, Row
  <2>3. QED BY <1>4, <2>1, <2>2
<1>5. QED BY <1>2, <1>3, <1>4 DEF Purged, Recovered

-----------------------------------------------------------------------------
(* Lanes *)

LEMMA FollowsKeepsOrder ==
    ASSUME NEW js, NEW ks, Ordered(js), Follows(js, ks)
    PROVE  Ordered(ks)
<1>1. ASSUME NEW e \in Event, NEW f \in Event, Present(ks, e), Present(ks, f), ks[e].seq = ks[f].seq
      PROVE  e = f
  BY <1>1 DEF Follows, Ordered
<1>2. ASSUME NEW e \in Event, Attempted(ks, e)
      PROVE  HeadOfLane(ks, e)
  <2>1. HeadOfLane(js, e) BY <1>2 DEF Follows, Ordered
  <2>2. Present(ks, e) BY <1>2 DEF Attempted, Unresolved, Present
  <2>3. ASSUME NEW f \in Event, LaneOf[f] = LaneOf[e], Unresolved(ks, f)
        PROVE  ks[e].seq <= ks[f].seq
    <3>1. Present(ks, f) BY <2>3 DEF Unresolved, Present
    <3>2. Unresolved(js, f) BY <2>3 DEF Follows
    <3>3. ks[e].seq = js[e].seq /\ ks[f].seq = js[f].seq BY <2>2, <3>1 DEF Follows
    <3>4. js[e].seq <= js[f].seq BY <2>1, <2>3, <3>2 DEF HeadOfLane
    <3>5. QED BY <3>3, <3>4
  <2>4. QED BY <2>3 DEF HeadOfLane
<1>3. QED BY <1>1, <1>2 DEF Ordered

\* What a sweep of expired leases and retentions leaves behind.
LEMMA SweptOK ==
    ASSUME RowsOK, NEW d \in Nat
    PROVE  /\ Swept(d) \in [Event -> Row]
           /\ \A e \in Event : RowOK(Swept(d)[e])
           /\ Follows(jobs, Swept(d))
<1>1. \A e \in Event : Swept(d)[e] = Recovered(Purged(jobs[e], d), d) BY DEF Swept
<1>2. \A e \in Event : RowOK(Swept(d)[e])
  BY <1>1, PurgedOK, RecoveredOK DEF RowsOK
<1>3. Swept(d) \in [Event -> Row] BY <1>1, <1>2 DEF Swept, RowOK
<1>4. ASSUME NEW f \in Event
      PROVE  /\ Present(Swept(d), f) => Present(jobs, f) /\ Swept(d)[f].seq = jobs[f].seq
             /\ Unresolved(Swept(d), f) => Unresolved(jobs, f)
             /\ Attempted(Swept(d), f) => Attempted(jobs, f)
  <2>1. RowOK(jobs[f]) BY DEF RowsOK
  <2>2. QED BY <1>1, <2>1, SweepMoves DEF Present, Unresolved, Attempted
<1>5. QED BY <1>2, <1>3, <1>4 DEF Follows

LEMMA PurgeOK ==
    ASSUME RowsOK, NEW d \in Nat, NEW js, js = [f \in Event |-> Purged(jobs[f], d)]
    PROVE  /\ js \in [Event -> Row]
           /\ \A e \in Event : RowOK(js[e])
           /\ Follows(jobs, js)
<1>1. \A e \in Event : RowOK(js[e]) BY PurgedOK DEF RowsOK
<1>2. js \in [Event -> Row] BY <1>1 DEF RowOK
<1>3. \A f \in Event : js[f] = jobs[f] \/ js[f] = NoRow BY DEF Purged
<1>4. Follows(jobs, js)
  BY <1>3 DEF Follows, Present, Unresolved, Attempted, NoRow
<1>5. QED BY <1>1, <1>2, <1>4

\* Rewriting one row that holds its lane, in place.
LEMMA UpdateOK ==
    ASSUME IInv, NEW e \in Event, jobs[e].status \in {"running", "failed", "unknown"},
           NEW row, RowOK(row), row.status # "absent", row.seq = jobs[e].seq,
           Update(e, row), CountersOK'
    PROVE  IInv'
<1>1. jobs' = [jobs EXCEPT ![e] = row] BY DEF Update
<1>2. RowsOK' BY <1>1 DEF IInv, RowsOK, RowOK
<1>3. Attempted(jobs, e)
  BY DEF IInv, RowsOK, RowOK, Attempted, Unresolved, Row
<1>4. Follows(jobs, jobs')
  BY <1>1, <1>3 DEF Follows, Present, Unresolved, Attempted, IInv, RowsOK
<1>5. Ordered(jobs)' BY <1>4, FollowsKeepsOrder DEF IInv, Ordered, Attempted, HeadOfLane, Present, Unresolved
<1>6. QED BY <1>2, <1>5 DEF IInv

-----------------------------------------------------------------------------
(* One lemma per operation *)

LEMMA InitOK == StoreInit => IInv
<1> SUFFICES ASSUME StoreInit PROVE IInv OBVIOUS
<1>1. NoRow \in Row BY StoreAssumption DEF NoRow, Row, Status, Waiting
<1>2. RowsOK BY <1>1 DEF StoreInit, RowsOK, RowOK, NoRow, Waiting
<1>3. CountersOK BY DEF StoreInit, CountersOK
<1>4. Ordered(jobs)
  BY DEF StoreInit, Ordered, Present, Attempted, Unresolved, NoRow
<1>5. QED BY <1>2, <1>3, <1>4 DEF IInv

LEMMA EnqueueNewOK ==
    ASSUME IInv, NEW e \in Event, NEW d \in Nat, EnqueueNew(e, d)
    PROVE  IInv'
<1> DEFINE js == [f \in Event |-> Purged(jobs[f], d)]
<1>1. PICK s \in 1..MaxSeq :
          /\ NextSeq(js, s)
          /\ jobs' = [js EXCEPT ![e] = [NoRow EXCEPT !.status = "queued", !.seq = s, !.avail = -d]]
  BY DEF EnqueueNew
<1>2. ~Present(js, e) BY DEF EnqueueNew
<1> DEFINE row == [NoRow EXCEPT !.status = "queued", !.seq = s, !.avail = -d]
<1>3. /\ js \in [Event -> Row]
      /\ \A f \in Event : RowOK(js[f])
      /\ Follows(jobs, js)
  BY PurgeOK DEF IInv
<1>4. Ordered(js) BY <1>3, FollowsKeepsOrder DEF IInv
<1>5. NoRow \in Row BY StoreAssumption DEF NoRow, Row, Status, Waiting
<1>6. row \in Row /\ row.status = "queued" /\ row.seq = s /\ row.attempt = 0 /\ ~row.started
  <2>1. s \in Nat /\ -d \in Int /\ "queued" \in Status
    BY <1>1, StoreAssumption DEF Status, Waiting
  <2>2. row \in Row BY <1>5, <2>1 DEF Row
  <2>3. NoRow.attempt = 0 /\ ~NoRow.started BY DEF NoRow
  <2>4. QED BY <1>5, <2>2, <2>3 DEF Row
<1>7. RowOK(row) BY <1>6, StoreAssumption DEF RowOK, Waiting
<1> HIDE DEF js, row
<1>8. jobs' = [js EXCEPT ![e] = row] BY <1>1 DEF row
<1>9. RowsOK' BY <1>3, <1>7, <1>8 DEF RowsOK, RowOK
<1>10. CountersOK' BY DEF EnqueueNew, IInv, CountersOK
<1>11. \A f \in Event : js[f].seq < s /\ js[f].seq \in Nat BY <1>1, <1>3 DEF NextSeq, Row
<1>12. ASSUME NEW f \in Event, NEW g \in Event,
              Present(jobs', f), Present(jobs', g), jobs'[f].seq = jobs'[g].seq
       PROVE  f = g
  BY <1>3, <1>4, <1>6, <1>8, <1>11, <1>12 DEF Ordered, Present
<1>13. ASSUME NEW f \in Event, Attempted(jobs', f)
       PROVE  HeadOfLane(jobs', f)
  <2>1. f # e BY <1>3, <1>6, <1>8, <1>13 DEF Attempted, Unresolved
  <2>2. jobs'[f] = js[f] BY <1>3, <1>8, <2>1
  <2>3. HeadOfLane(js, f) BY <1>4, <1>13, <2>2 DEF Ordered, Attempted, Unresolved
  <2>4. ASSUME NEW g \in Event, LaneOf[g] = LaneOf[f], Unresolved(jobs', g)
        PROVE  jobs'[f].seq <= jobs'[g].seq
    <3>1. CASE g = e BY <1>1, <1>3, <1>6, <1>8, <1>11, <2>2, <3>1
    <3>2. CASE g # e
      BY <1>3, <1>8, <2>2, <2>3, <2>4, <3>2 DEF HeadOfLane, Unresolved
    <3>3. QED BY <3>1, <3>2
  <2>5. QED BY <2>4 DEF HeadOfLane
<1>14. Ordered(jobs)' BY <1>12, <1>13 DEF Ordered, Attempted, HeadOfLane, Present, Unresolved
<1>15. QED BY <1>9, <1>10, <1>14 DEF IInv

LEMMA EnqueueDuplicateOK ==
    ASSUME IInv, NEW e \in Event, NEW d \in Nat, EnqueueDuplicate(e, d)
    PROVE  IInv'
<1>1. jobs' = [f \in Event |-> Purged(jobs[f], d)] BY DEF EnqueueDuplicate
<1>2. /\ jobs' \in [Event -> Row]
      /\ \A f \in Event : RowOK(jobs'[f])
      /\ Follows(jobs, jobs')
  BY <1>1, PurgeOK DEF IInv
<1>3. RowsOK' BY <1>2 DEF RowsOK
<1>4. Ordered(jobs') BY <1>2, FollowsKeepsOrder DEF IInv
<1>5. Ordered(jobs)' BY <1>4 DEF Ordered, Attempted, HeadOfLane, Present, Unresolved
<1>6. CountersOK' BY DEF EnqueueDuplicate, IInv, CountersOK
<1>7. QED BY <1>3, <1>5, <1>6 DEF IInv

LEMMA ClaimNoneOK ==
    ASSUME IInv, NEW d \in Nat, NEW tol, ClaimNone(d, tol)
    PROVE  IInv'
<1>1. jobs' = Swept(d) BY DEF ClaimNone
<1>2. /\ jobs' \in [Event -> Row]
      /\ \A f \in Event : RowOK(jobs'[f])
      /\ Follows(jobs, jobs')
  BY <1>1, SweptOK DEF IInv
<1>3. RowsOK' BY <1>2 DEF RowsOK
<1>4. Ordered(jobs') BY <1>2, FollowsKeepsOrder DEF IInv
<1>5. Ordered(jobs)' BY <1>4 DEF Ordered, Attempted, HeadOfLane, Present, Unresolved
<1>6. CountersOK' BY DEF ClaimNone, IInv, CountersOK
<1>7. QED BY <1>3, <1>5, <1>6 DEF IInv

LEMMA ClaimJobOK ==
    ASSUME IInv, NEW w \in Worker, NEW e \in Event, NEW d \in Nat, NEW tol, ClaimJob(w, e, d, tol)
    PROVE  IInv'
<1> DEFINE js == Swept(d)
           row == Leased(js[e], w, issued[e] + 1, d)
<1>1. /\ js \in [Event -> Row]
      /\ \A f \in Event : RowOK(js[f])
      /\ Follows(jobs, js)
  BY SweptOK DEF IInv
<1>2. Ordered(js) BY <1>1, FollowsKeepsOrder DEF IInv
<1>3. /\ js[e].status \in Waiting
      /\ HeadOfLane(js, e)
      /\ jobs' = [js EXCEPT ![e] = row]
  BY <1>1 DEF ClaimJob, Claimable
<1>4. issued[e] \in Nat BY DEF IInv, CountersOK
<1>5. /\ row \in Row
      /\ row.status = "running"
      /\ row.attempt = js[e].attempt + 1
      /\ row.seq = js[e].seq
  <2> HIDE DEF js
  <2>1. js[e] \in Row /\ js[e].attempt < MaxAttempts BY <1>1, <1>3 DEF RowOK
  <2>2. issued[e] + 1 \in Nat BY <1>4
  <2>3. QED BY <2>1, <2>2, LeasedType
<1> HIDE DEF js, row
<1>6. RowOK(row) BY <1>1, <1>3, <1>5 DEF RowOK, Waiting, Row
<1>7. RowsOK' BY <1>1, <1>3, <1>6 DEF RowsOK, RowOK
<1>8. Follows(js, jobs')
  BY <1>1, <1>3, <1>5 DEF Follows, Present, Unresolved, Attempted, Waiting
<1>9. Ordered(jobs') BY <1>2, <1>8, FollowsKeepsOrder
<1>10. Ordered(jobs)' BY <1>9 DEF Ordered, Attempted, HeadOfLane, Present, Unresolved
<1>11. CountersOK' BY <1>4 DEF ClaimJob, IInv, CountersOK
<1>12. QED BY <1>7, <1>10, <1>11 DEF IInv

\* The lease holder rewrites its row and stays in "running".
LEMMA TouchOK ==
    ASSUME IInv, NEW e \in Event, jobs[e].status = "running",
           NEW row \in Row, row.status = "running",
           row.seq = jobs[e].seq, row.attempt = jobs[e].attempt,
           Update(e, row), UNCHANGED <<issued, epoch>>
    PROVE  IInv'
<1>1. RowOK(jobs[e]) BY DEF IInv, RowsOK
<1>2. RowOK(row) BY <1>1 DEF RowOK, Waiting
<1>3. CountersOK' BY DEF IInv, CountersOK
<1>4. QED BY <1>2, <1>3, UpdateOK

\* The lease holder gives its row up.
LEMMA ReleaseOK ==
    ASSUME IInv, NEW e \in Event, jobs[e].status = "running",
           NEW st, NEW avail \in Int, NEW d \in Nat,
           \/ st \in {"completed", "unknown"}
           \/ st = RetryOrFail(jobs[e]) /\ ~jobs[e].started,
           Update(e, Released(jobs[e], st, avail, d)), UNCHANGED <<issued, epoch>>
    PROVE  IInv'
<1>1. RowOK(jobs[e]) BY DEF IInv, RowsOK
<1>2. st \in Status \ {"absent"} BY DEF Status, Waiting, RetryOrFail
<1>3. RowOK(Released(jobs[e], st, avail, d)) BY <1>1, <1>2, ReleasedOK
<1>4. jobs[e] \in Row BY <1>1 DEF RowOK
<1>5. /\ Released(jobs[e], st, avail, d).status = st
      /\ Released(jobs[e], st, avail, d).seq = jobs[e].seq
  BY <1>4 DEF Released, Row
<1>6. CountersOK' BY DEF IInv, CountersOK
<1>7. QED BY <1>2, <1>3, <1>5, <1>6, UpdateOK

LEMMA UnfencedOK ==
    ASSUME IInv, NEW e \in Event, NEW w \in Worker, NEW d \in Nat, Unfenced(e, w, d)
    PROVE  IInv'
<1>1. jobs[e] \in Row BY DEF IInv, RowsOK
<1>2. CASE Renew(e, w, d)
  <2>1. LeaseSeconds - d \in Int BY StoreAssumption
  <2> DEFINE row == [jobs[e] EXCEPT !.lease = LeaseSeconds - d]
  <2>2. row \in Row /\ row.status = jobs[e].status /\ row.seq = jobs[e].seq
          /\ row.attempt = jobs[e].attempt
    BY <1>1, <2>1 DEF Row
  <2> HIDE DEF row
  <2>3. QED BY <1>2, <2>2, TouchOK DEF Renew, Owns, row
<1>3. CASE MarkSideEffectStarted(e, w)
  <2> DEFINE row == [jobs[e] EXCEPT !.started = TRUE]
  <2>1. row \in Row /\ row.status = jobs[e].status /\ row.seq = jobs[e].seq
          /\ row.attempt = jobs[e].attempt
    BY <1>1 DEF Row
  <2> HIDE DEF row
  <2>2. QED BY <1>3, <2>1, TouchOK DEF MarkSideEffectStarted, Owns, row
<1>4. CASE Complete(e, w, d)
  BY <1>4, ReleaseOK DEF Complete, Owns
<1>5. ASSUME NEW delay \in 0..BackoffMax, Retry(e, w, delay, d)
      PROVE  IInv'
  <2>1. delay - d \in Int BY StoreAssumption
  <2>2. QED BY <1>5, <2>1, ReleaseOK DEF Retry, Owns
<1>6. CASE MarkUnknown(e, w, d)
  BY <1>6, ReleaseOK DEF MarkUnknown, Owns
<1>7. QED BY <1>2, <1>3, <1>4, <1>5, <1>6 DEF Unfenced

LEMMA FencedOK ==
    ASSUME IInv, NEW e \in Event, NEW w \in Worker, NEW d \in Nat, Fenced(e, w, d)
    PROVE  IInv'
<1>1. jobs[e] \in Row BY DEF IInv, RowsOK
<1>2. PICK t \in 1..issued[e] :
          \/ RenewFenced(e, w, t, d)
          \/ MarkFencedStarted(e, w, t, d)
          \/ BeginEffect(e, w, t, d)
          \/ \E u \in BOOLEAN : EndEffect(e, w, t, u, d)
          \/ FinishFenced(e, w, t, d)
          \/ \E delay \in 0..BackoffMax : FailFenced(e, w, t, delay, d)
  BY DEF Fenced
<1>3. CASE RenewFenced(e, w, t, d)
  <2>1. LeaseSeconds - d \in Int BY StoreAssumption
  <2> DEFINE row == [jobs[e] EXCEPT !.lease = LeaseSeconds - d]
  <2>2. row \in Row /\ row.status = jobs[e].status /\ row.seq = jobs[e].seq
          /\ row.attempt = jobs[e].attempt
    BY <1>1, <2>1 DEF Row
  <2> HIDE DEF row
  <2>3. QED BY <1>3, <2>2, TouchOK DEF RenewFenced, Holds, Owns, row
<1>4. CASE MarkFencedStarted(e, w, t, d)
  <2> DEFINE row == [jobs[e] EXCEPT !.started = TRUE]
  <2>1. row \in Row /\ row.status = jobs[e].status /\ row.seq = jobs[e].seq
          /\ row.attempt = jobs[e].attempt
    BY <1>1 DEF Row
  <2> HIDE DEF row
  <2>2. QED BY <1>4, <2>1, TouchOK DEF MarkFencedStarted, Holds, Owns, row
<1>5. CASE BeginEffect(e, w, t, d)
  <2> DEFINE row == [jobs[e] EXCEPT !.inflight = @ + 1, !.started = TRUE]
  <2>1. jobs[e].inflight + 1 \in Nat BY <1>1 DEF Row
  <2>2. row \in Row /\ row.status = jobs[e].status /\ row.seq = jobs[e].seq
          /\ row.attempt = jobs[e].attempt
    BY <1>1, <2>1 DEF Row
  <2> HIDE DEF row
  <2>3. QED BY <1>5, <2>2, TouchOK DEF BeginEffect, Holds, Owns, row
<1>6. ASSUME NEW u \in BOOLEAN, EndEffect(e, w, t, u, d)
      PROVE  IInv'
  <2> DEFINE row == [jobs[e] EXCEPT !.inflight = @ - 1, !.uncertain = @ \/ u]
  <2>1. jobs[e].inflight - 1 \in Nat BY <1>1, <1>6 DEF Row, EndEffect
  <2>2. jobs[e].uncertain \/ u \in BOOLEAN BY <1>1 DEF Row
  <2>3. row \in Row /\ row.status = jobs[e].status /\ row.seq = jobs[e].seq
          /\ row.attempt = jobs[e].attempt
    BY <1>1, <2>1, <2>2 DEF Row
  <2> HIDE DEF row
  <2>4. QED BY <1>6, <2>3, TouchOK DEF EndEffect, Holds, Owns, row
<1>7. CASE FinishFenced(e, w, t, d)
  <2> DEFINE st == IF jobs[e].inflight > 0 \/ jobs[e].uncertain THEN "unknown" ELSE "completed"
  <2>1. st \in {"completed", "unknown"} /\ 0 \in Int OBVIOUS
  <2>2. Update(e, Released(jobs[e], st, 0, d)) /\ jobs[e].status = "running"
    BY <1>7 DEF FinishFenced, Holds, Owns
  <2>3. UNCHANGED <<issued, epoch>> BY <1>7 DEF FinishFenced
  <2> HIDE DEF st
  <2>4. QED BY <2>1, <2>2, <2>3, ReleaseOK
<1>8. ASSUME NEW delay \in 0..BackoffMax, FailFenced(e, w, t, delay, d)
      PROVE  IInv'
  <2>1. delay - d \in Int BY StoreAssumption
  <2> DEFINE frozen == jobs[e].started \/ jobs[e].inflight > 0 \/ jobs[e].uncertain
  <2>2. CASE frozen BY <1>8, <2>1, <2>2, ReleaseOK DEF FailFenced, Holds, Owns
  <2>3. CASE ~frozen BY <1>8, <2>1, <2>3, ReleaseOK DEF FailFenced, Holds, Owns
  <2>4. QED BY <2>2, <2>3
<1>9. QED BY <1>2, <1>3, <1>4, <1>5, <1>6, <1>7, <1>8

LEMMA OperatorOK ==
    ASSUME IInv, NEW e \in Event, NEW d \in Nat, Operator(e, d)
    PROVE  IInv'
<1>1. jobs[e] \in Row /\ RowOK(jobs[e]) BY DEF IInv, RowsOK
<1>2. -d \in Int /\ "queued" \in Status BY DEF Status, Waiting
<1>3. CountersOK' BY DEF Operator, RequeueUnknown, RequeueFailed, IInv, CountersOK
<1> DEFINE base == Released(jobs[e], "queued", -d, d)
<1>4. base \in Row BY <1>1, <1>2, ReleasedType
<1>5. base.status = "queued" /\ base.seq = jobs[e].seq /\ base.started = jobs[e].started
  BY <1>1 DEF Released, Row
<1> HIDE DEF base
<1>6. Requeued(jobs[e], d) = [base EXCEPT !.attempt = 0] BY DEF Requeued, base
<1>7. 0 \in 0..MaxAttempts /\ 0 < MaxAttempts BY StoreAssumption
<1>8. CASE RequeueUnknown(e, d)
  <2> DEFINE row == [[base EXCEPT !.attempt = 0] EXCEPT !.started = FALSE]
  <2>1. row \in Row /\ row.status = "queued" /\ row.seq = jobs[e].seq
          /\ row.attempt = 0 /\ ~row.started
    BY <1>4, <1>5, <1>7 DEF Row
  <2> HIDE DEF row
  <2>2. RowOK(row) BY <1>1, <1>7, <1>8, <2>1 DEF RowOK, Waiting, RequeueUnknown
  <2>3. Update(e, row) /\ jobs[e].status = "unknown" BY <1>6, <1>8 DEF RequeueUnknown, row
  <2>4. QED BY <1>3, <2>1, <2>2, <2>3, UpdateOK
<1>9. CASE RequeueFailed(e, d)
  <2> DEFINE row == [base EXCEPT !.attempt = 0]
  <2>1. row \in Row /\ row.status = "queued" /\ row.seq = jobs[e].seq
          /\ row.attempt = 0 /\ row.started = jobs[e].started
    BY <1>4, <1>5, <1>7 DEF Row
  <2> HIDE DEF row
  <2>2. RowOK(row) BY <1>1, <1>7, <1>9, <2>1 DEF RowOK, Waiting, RequeueFailed
  <2>3. Update(e, row) /\ jobs[e].status = "failed" BY <1>6, <1>9 DEF RequeueFailed, row
  <2>4. QED BY <1>3, <2>1, <2>2, <2>3, UpdateOK
<1>10. QED BY <1>8, <1>9 DEF Operator

LEMMA TickOK == ASSUME IInv, Tick PROVE IInv'
<1>1. ASSUME NEW row, RowOK(row)
      PROVE  /\ RowOK(Aged(row))
             /\ Aged(row).status = row.status /\ Aged(row).seq = row.seq
             /\ Aged(row).attempt = row.attempt
  <2>1. row \in Row BY <1>1 DEF RowOK
  <2> DEFINE lease == IF row.status = "running" THEN Down(row.lease) ELSE row.lease
             avail == IF row.status \in Waiting THEN Down(row.avail) ELSE row.avail
             age   == IF row.status \in {"completed", "unknown"} /\ row.age < AgeCap
                      THEN row.age + 1 ELSE row.age
  <2>2. lease \in Int /\ avail \in Int /\ age \in Nat
    BY <2>1, StoreAssumption DEF Row, Down
  <2>3. Aged(row) = [row EXCEPT !.lease = lease, !.avail = avail, !.age = age]
    BY DEF Aged
  <2> HIDE DEF lease, avail, age
  <2>4. /\ Aged(row) \in Row
        /\ Aged(row).status = row.status /\ Aged(row).seq = row.seq
        /\ Aged(row).attempt = row.attempt /\ Aged(row).started = row.started
    BY <2>1, <2>2, <2>3 DEF Row
  <2>5. CASE row.status = "absent" BY <1>1, <2>5 DEF RowOK, Aged, NoRow, Waiting
  <2>6. CASE row.status # "absent" BY <1>1, <2>4, <2>6 DEF RowOK
  <2>7. QED BY <2>4, <2>5, <2>6
<1>2. jobs' = [e \in Event |-> Aged(jobs[e])] BY DEF Tick
<1>3. RowsOK' BY <1>1, <1>2 DEF IInv, RowsOK, RowOK
<1>4. Follows(jobs, jobs')
  BY <1>1, <1>2 DEF IInv, RowsOK, Follows, Present, Unresolved, Attempted
<1>5. Ordered(jobs') BY <1>4, FollowsKeepsOrder DEF IInv
<1>6. Ordered(jobs)' BY <1>5 DEF Ordered, Attempted, HeadOfLane, Present, Unresolved
<1>7. CountersOK' BY DEF Tick, IInv, CountersOK
<1>8. QED BY <1>3, <1>6, <1>7 DEF IInv

-----------------------------------------------------------------------------
(* Invariants of the store *)

LEMMA NextOK == IInv /\ [StoreNext]_storeVars => IInv'
<1> SUFFICES ASSUME IInv, [StoreNext]_storeVars PROVE IInv' OBVIOUS
<1>1. CASE Tick BY <1>1, TickOK
<1>2. ASSUME NEW d \in Lags, NEW w \in Worker, Claim(w, d)
      PROVE  IInv'
  <2>1. d \in Nat BY StoreAssumption DEF Lags
  <2>2. QED BY <1>2, <2>1, ClaimNoneOK, ClaimJobOK DEF Claim
<1>3. ASSUME NEW d \in Lags, NEW e \in Event, Receive(e, d)
      PROVE  IInv'
  <2>1. d \in Nat BY StoreAssumption DEF Lags
  <2>2. QED BY <1>3, <2>1, EnqueueNewOK, EnqueueDuplicateOK DEF Receive
<1>4. ASSUME NEW d \in Lags, NEW e \in Event, Operator(e, d)
      PROVE  IInv'
  BY <1>4, OperatorOK, StoreAssumption DEF Lags
<1>5. ASSUME NEW d \in Lags, NEW e \in Event, NEW w \in Worker, Unfenced(e, w, d) \/ Fenced(e, w, d)
      PROVE  IInv'
  BY <1>5, UnfencedOK, FencedOK, StoreAssumption DEF Lags
<1>6. CASE UNCHANGED storeVars
  BY <1>6 DEF storeVars, IInv, RowsOK, CountersOK, Ordered, Attempted, HeadOfLane,
              Present, Unresolved
<1>7. QED BY <1>1, <1>2, <1>3, <1>4, <1>5, <1>6 DEF StoreNext

\* Rows are well-formed, receipt numbers unique and lanes in order, always.
THEOREM StoreInvariant == StoreSpec => []IInv
BY InitOK, NextOK, PTL DEF StoreSpec

\* The rows keep their types; in particular the attempt counter of a job never
\* passes max_attempts (claim_next increments it without a test).
THEOREM StoreTypes == StoreSpec => []StoreTypeOK
<1>1. IInv => StoreTypeOK BY DEF IInv, RowsOK, CountersOK, StoreTypeOK
<1>2. QED BY <1>1, StoreInvariant, PTL

\* Whatever may be claimed without an operator never started a side effect.
THEOREM NothingReplayed == StoreSpec => []WaitingNeverStarted
<1>1. IInv => WaitingNeverStarted BY DEF IInv, RowsOK, RowOK, WaitingNeverStarted
<1>2. QED BY <1>1, StoreInvariant, PTL

\* A job that was attempted and is not resolved is the head of its lane.
THEOREM LanesInOrder == StoreSpec => []LaneOrder
<1>1. IInv => LaneOrder BY DEF IInv, Ordered, Attempted, LaneOrder
<1>2. QED BY <1>1, StoreInvariant, PTL

\* At most one job of a lane is leased.
THEOREM LanesSerial == StoreSpec => []OneLeasePerLane
<1>1. ASSUME IInv, NEW e \in Event, NEW f \in Event,
             jobs[e].status = "running", jobs[f].status = "running", LaneOf[e] = LaneOf[f]
      PROVE  e = f
  <2>1. /\ Attempted(jobs, e) /\ Present(jobs, e)
        /\ Attempted(jobs, f) /\ Present(jobs, f)
    BY <1>1 DEF IInv, RowsOK, RowOK, Row, Attempted, Unresolved, Present
  <2>2. HeadOfLane(jobs, e) /\ HeadOfLane(jobs, f) BY <1>1, <2>1 DEF IInv, Ordered
  <2>3. jobs[e].seq <= jobs[f].seq /\ jobs[f].seq <= jobs[e].seq
    BY <1>1, <2>1, <2>2 DEF HeadOfLane, Attempted
  <2>4. jobs[e].seq \in Nat /\ jobs[f].seq \in Nat BY <1>1 DEF IInv, RowsOK, Row
  <2>5. jobs[e].seq = jobs[f].seq BY <2>3, <2>4
  <2>6. QED BY <1>1, <2>1, <2>5 DEF IInv, Ordered
<1>2. IInv => OneLeasePerLane BY <1>1 DEF OneLeasePerLane
<1>3. QED BY <1>2, StoreInvariant, PTL

\* What recovery does to a row at the instant it is called for.
LEMMA RecoveredNow ==
    ASSUME NEW row \in Row
    PROVE  \/ Recovered(row, 0) = row
           \/ /\ row.status = "running" /\ row.lease <= 0
              /\ Recovered(row, 0).status \in {"unknown", "retry_wait", "failed"}
              /\ Recovered(row, 0).avail = 0 /\ Recovered(row, 0).seq = row.seq
<1> DEFINE st == IF row.started THEN "unknown" ELSE RetryOrFail(row)
<1>1. CASE row.status = "running" /\ row.lease + 0 <= 0
  <2>1. Recovered(row, 0) = Released(row, st, -0, 0) BY <1>1 DEF Recovered
  <2>2. st \in {"unknown", "retry_wait", "failed"} BY DEF RetryOrFail
  <2>3. row.lease <= 0 BY <1>1 DEF Row
  <2> HIDE DEF st
  <2>4. /\ Released(row, st, -0, 0).status = st
        /\ Released(row, st, -0, 0).seq = row.seq
        /\ Released(row, st, -0, 0).avail = IF st \in Waiting THEN -0 ELSE 0
    BY DEF Released, Row
  <2>5. QED BY <1>1, <2>1, <2>2, <2>3, <2>4
<1>2. CASE ~(row.status = "running" /\ row.lease + 0 <= 0) BY <1>2 DEF Recovered
<1>3. QED BY <1>1, <1>2

\* Whenever a claim would find a job that is not behind an UNKNOWN row whose
\* retention is over, or would recover a lease, next_wakeup is due.  A running
\* job heads its lane, so its lease is among the times looked at; a job that
\* heads its lane once the claim has swept it headed it before the sweep.
THEOREM WakeupInTime == StoreSpec => []WakeupIsDue
<1>1. ASSUME IInv, NEW e \in Event, jobs[e].status = "running", jobs[e].lease <= 0
      PROVE  \E x \in WakeupTimes : x <= 0
  <2>1. Attempted(jobs, e)
    BY <1>1 DEF IInv, RowsOK, RowOK, Row, Attempted, Unresolved
  <2>2. HeadOfLane(jobs, e) BY <1>1, <2>1 DEF IInv, Ordered
  <2>3. jobs[e].lease \in WakeupTimes BY <1>1, <2>2 DEF WakeupTimes
  <2>4. QED BY <1>1, <2>3
<1>2. ASSUME IInv, NEW e \in Claimable(Swept(0), 0, 0), ~BehindExpiredUnknown(e)
      PROVE  \E x \in WakeupTimes : x <= 0
  <2>1. /\ e \in Event
        /\ \A f \in Event : jobs[f] \in Row
        /\ \A f \in Event : Swept(0)[f] = Recovered(Purged(jobs[f], 0), 0)
    BY <1>2 DEF Claimable, Swept, IInv, RowsOK
  <2>2. Swept(0)[e].status \in Waiting /\ Swept(0)[e].avail <= 0
    <3>1. Swept(0)[e].status \in Waiting /\ Swept(0)[e].avail + 0 <= 0
      BY <1>2 DEF Claimable
    <3>2. jobs[e].avail \in Int /\ NoRow.avail \in Int BY <2>1 DEF Row, NoRow
    <3>3. Purged(jobs[e], 0) \in {jobs[e], NoRow} BY DEF Purged
    <3>4. Swept(0)[e].avail \in Int
      <4>1. CASE Purged(jobs[e], 0) = jobs[e] BY <2>1, <3>2, <4>1, RecoveredNow
      <4>2. CASE Purged(jobs[e], 0) = NoRow
        BY <2>1, <3>2, <4>2 DEF Recovered, NoRow
      <4>3. QED BY <3>3, <4>1, <4>2
    <3>5. QED BY <3>1, <3>4
  <2>3. Purged(jobs[e], 0) = jobs[e] BY <2>1, <2>2 DEF Purged, Recovered, NoRow, Waiting
  <2>4. CASE Swept(0)[e] # jobs[e]
    <3>1. jobs[e].status = "running" /\ jobs[e].lease <= 0
      BY <2>1, <2>3, <2>4, RecoveredNow
    <3>2. QED BY <1>1, <1>2, <2>1, <3>1
  <2>5. CASE Swept(0)[e] = jobs[e]
    <3>1. ASSUME NEW f \in Event, LaneOf[f] = LaneOf[e], Unresolved(jobs, f)
          PROVE  jobs[e].seq <= jobs[f].seq
      <4>1. CASE Purged(jobs[f], 0) = jobs[f]
        <5>1. Unresolved(Swept(0), f) /\ Swept(0)[f].seq = jobs[f].seq
          <6>1. jobs[f] \in Row /\ Swept(0)[f] = Recovered(jobs[f], 0) BY <2>1, <4>1
          <6>2. QED BY <3>1, <6>1, RecoveredNow DEF Unresolved
        <5>2. HeadOfLane(Swept(0), e) BY <1>2 DEF Claimable
        <5>3. QED BY <2>5, <3>1, <5>1, <5>2 DEF HeadOfLane
      <4>2. CASE Purged(jobs[f], 0) # jobs[f]
        <5>1. jobs[f].status = "unknown" BY <3>1, <4>2 DEF Purged, Unresolved
        <5>2. ~(jobs[f].seq < jobs[e].seq)
          BY <1>2, <3>1, <4>2, <5>1 DEF BehindExpiredUnknown
        <5>3. jobs[e].seq \in Nat /\ jobs[f].seq \in Nat BY <2>1 DEF Row
        <5>4. QED BY <5>2, <5>3
      <4>3. QED BY <4>1, <4>2
    <3>2. HeadOfLane(jobs, e) BY <3>1 DEF HeadOfLane
    <3>3. jobs[e].avail \in WakeupTimes BY <2>1, <2>2, <2>5, <3>2 DEF WakeupTimes
    <3>4. QED BY <2>2, <2>5, <3>3
  <2>6. QED BY <2>4, <2>5
<1>3. IInv => WakeupIsDue BY <1>1, <1>2 DEF WakeupIsDue
<1>4. QED BY <1>3, StoreInvariant, PTL

-----------------------------------------------------------------------------
(* Completed jobs *)

\* Row e stays completed, or its retention is over.
Kept(e) == \/ jobs'[e].status = "completed"
           \/ jobs'[e].status \in {"absent", "queued"} /\ jobs[e].age >= CompletedTtl

\* What a sweep does to a completed row.
LEMMA SweepKeeps ==
    ASSUME NEW row \in Row, row.status = "completed", NEW d \in Nat
    PROVE  /\ \/ Purged(row, d) = row
              \/ Purged(row, d) = NoRow /\ row.age >= CompletedTtl
           /\ Recovered(Purged(row, d), d) = Purged(row, d)
<1>1. row.age \in Nat /\ CompletedTtl \in Nat BY StoreAssumption DEF Row
<1>2. QED BY <1>1 DEF Purged, Recovered, NoRow

LEMMA CompletedStep ==
    ASSUME IInv, StoreNext, NEW e \in Event, jobs[e].status = "completed"
    PROVE  Kept(e)
<1>1. jobs[e] \in Row /\ jobs \in [Event -> Row] BY DEF IInv, RowsOK
<1>2. CASE Tick
  <2>1. jobs'[e] = Aged(jobs[e]) BY <1>2 DEF Tick
  <2>2. QED BY <1>1, <2>1 DEF Kept, Aged, Row
<1>3. ASSUME NEW d \in Lags, NEW w \in Worker, Claim(w, d)
      PROVE  Kept(e)
  <2>1. d \in Nat BY StoreAssumption DEF Lags
  <2>2. Swept(d)[e] = Recovered(Purged(jobs[e], d), d) BY DEF Swept
  <2>3. \/ Swept(d)[e].status = "completed"
        \/ Swept(d)[e].status = "absent" /\ jobs[e].age >= CompletedTtl
    BY <1>1, <2>1, <2>2, SweepKeeps DEF NoRow
  <2>4. jobs'[e] = Swept(d)[e]
    <3>1. CASE \E tol \in 0..Tolerance : ClaimNone(d, tol) BY <3>1 DEF ClaimNone
    <3>2. ASSUME NEW tol \in 0..Tolerance, NEW f \in Event, ClaimJob(w, f, d, tol)
          PROVE  jobs'[e] = Swept(d)[e]
      <4>1. Swept(d)[f].status \in Waiting BY <3>2 DEF ClaimJob, Claimable
      <4>2. f # e BY <2>3, <4>1 DEF Waiting
      <4>3. jobs' = [Swept(d) EXCEPT ![f] = Leased(@, w, issued[f] + 1, d)]
        BY <3>2 DEF ClaimJob
      <4>4. QED BY <4>2, <4>3 DEF Swept
    <3>3. QED BY <1>3, <3>1, <3>2 DEF Claim
  <2>5. QED BY <2>3, <2>4 DEF Kept
<1>4. ASSUME NEW d \in Lags, NEW f \in Event, Receive(f, d)
      PROVE  Kept(e)
  <2> DEFINE js == [g \in Event |-> Purged(jobs[g], d)]
  <2>1. d \in Nat BY StoreAssumption DEF Lags
  <2>2. \/ js[e].status = "completed"
        \/ js[e].status = "absent" /\ jobs[e].age >= CompletedTtl
    BY <1>1, <2>1, SweepKeeps DEF NoRow
  <2>3. CASE EnqueueDuplicate(f, d) BY <2>2, <2>3 DEF EnqueueDuplicate, Kept
  <2>4. CASE EnqueueNew(f, d)
    <3>1. PICK s \in 1..MaxSeq : jobs' = [js EXCEPT ![f] =
              [NoRow EXCEPT !.status = "queued", !.seq = s, !.avail = -d]]
      BY <2>4 DEF EnqueueNew
    <3>2. ~Present(js, f) BY <2>4 DEF EnqueueNew
    <3>3. CASE f = e
      <4>1. jobs'[e].status = "queued" BY <3>1, <3>3 DEF NoRow
      <4>2. js[e].status = "absent" BY <3>2, <3>3 DEF Present
      <4>3. QED BY <2>2, <4>1, <4>2 DEF Kept
    <3>4. CASE f # e
      <4>1. jobs'[e] = js[e] BY <3>1, <3>4
      <4>2. QED BY <2>2, <4>1 DEF Kept
    <3>5. QED BY <3>3, <3>4
  <2>5. QED BY <1>4, <2>3, <2>4 DEF Receive
<1>5. ASSUME NEW f \in Event, NEW row, Update(f, row), f # e
      PROVE  Kept(e)
  BY <1>1, <1>5 DEF Update, Kept
<1>6. ASSUME NEW d \in Lags, NEW f \in Event, Operator(f, d)
      PROVE  Kept(e)
  BY <1>5, <1>6 DEF Operator, RequeueUnknown, RequeueFailed
<1>7. ASSUME NEW d \in Lags, NEW f \in Event, NEW w \in Worker, Unfenced(f, w, d)
      PROVE  Kept(e)
  BY <1>5, <1>7 DEF Unfenced, Renew, MarkSideEffectStarted, Complete, Retry, MarkUnknown, Owns
<1>8. ASSUME NEW d \in Lags, NEW f \in Event, NEW w \in Worker, Fenced(f, w, d)
      PROVE  Kept(e)
  BY <1>5, <1>8 DEF Fenced, RenewFenced, MarkFencedStarted, BeginEffect, EndEffect,
                    FinishFenced, FailFenced, Holds, Owns
<1>9. QED BY <1>2, <1>3, <1>4, <1>6, <1>7, <1>8 DEF StoreNext

\* A completed job stays completed until its retention ended: a redelivery
\* inside the retention never runs it again.
THEOREM CompletedStays == StoreSpec => CompletedIsFinal
<1>1. ASSUME IInv, [StoreNext]_storeVars
      PROVE  [\A e \in Event : jobs[e].status = "completed" =>
                 \/ jobs'[e].status = "completed"
                 \/ jobs'[e].status \in {"absent", "queued"}
                       /\ jobs[e].age >= CompletedTtl]_storeVars
  BY <1>1, CompletedStep DEF Kept
<1>2. QED BY <1>1, StoreInvariant, PTL DEF StoreSpec, CompletedIsFinal

-----------------------------------------------------------------------------
(* The store implements the inbox.  A step of the mapped phases and orders *)
(* is a step of DurableInbox when every row advances as the inbox allows,  *)
(* and a new row comes last in its lane.                                   *)

Moves == Inbox!Moves
Open == Inbox!Open

\* A settled row is dropped, or a row moves on and keeps its receipt number.
Advances(row, new) ==
    \/ new.status = "absent" /\ PhaseOf(row) \in {"none", "stuck", "done"}
    \/ /\ new.status # "absent" /\ row.status # "absent"
       /\ new.seq = row.seq
       /\ PhaseOf(new) \in Moves[PhaseOf(row)]

\* A row in the place of none, or of one that the same step dropped.
Arrives(row, new) ==
    new.status = "queued" /\ PhaseOf(row) \in {"none", "stuck", "done"}

LEMMA PhaseFacts ==
    ASSUME NEW row \in Row
    PROVE  /\ PhaseOf(row) \in Inbox!Phase
           /\ row.status = "absent" <=> PhaseOf(row) = "none"
           /\ row.status \notin {"absent", "completed"} <=> PhaseOf(row) \in Open
           /\ row.status \in Waiting <=> PhaseOf(row) = "waiting"
           /\ row.status = "running" <=> PhaseOf(row) \in {"working", "effective"}
BY DEF PhaseOf, Row, Status, Waiting, Open, Inbox!Phase, Inbox!Open

LEMMA Simulated ==
    ASSUME IInv, IInv', NEW arrived \in {{}} \cup {{e} : e \in Event},
           \A f \in Event \ arrived : Advances(jobs[f], jobs'[f]),
           \A e \in arrived : /\ Arrives(jobs[e], jobs'[e])
                              /\ \A f \in Event \ {e} : jobs'[f].seq < jobs'[e].seq
    PROVE  Inbox!InboxNext
<1> DEFINE forgotten == {e \in Event : jobs[e].status # "absent" /\ (jobs'[e].status = "absent" \/ e \in arrived)}
           old == [e \in Event |-> IF e \in forgotten THEN "none" ELSE phaseBar[e]]
           lane(e) == {f \in Event : LaneOf[f] = LaneOf[e]}
<1>1. /\ \A e \in Event : jobs[e] \in Row /\ jobs'[e] \in Row
      /\ \A e \in Event : phaseBar[e] = PhaseOf(jobs[e]) /\ phaseBar'[e] = PhaseOf(jobs'[e])
      /\ arrived \subseteq Event
      /\ \A e, f \in arrived : e = f
  BY DEF IInv, RowsOK, phaseBar
<1>2. \A e \in forgotten : phaseBar[e] \in {"stuck", "done"}
  BY <1>1, PhaseFacts DEF Advances, Arrives, Moves, Inbox!Moves
<1>3. phaseBar' = [e \in Event |-> phaseBar'[e]] BY DEF phaseBar
<1>4. ASSUME NEW e \in Event
      PROVE  /\ phaseBar'[e] \in Moves[old[e]]
             /\ (old[e] = "none" /\ phaseBar'[e] # "none") <=> e \in arrived
             /\ phaseBar'[e] \in Open /\ e \notin arrived => old[e] \in Open /\ old[e] = phaseBar[e] /\ jobs'[e].seq = jobs[e].seq
             /\ old[e] \in Open => phaseBar[e] = old[e] /\ e \notin arrived
  <2>1. old[e] = IF e \in forgotten THEN "none" ELSE PhaseOf(jobs[e]) BY <1>1
  <2>2. CASE e \in arrived
    <3>1. jobs'[e].status = "queued" /\ PhaseOf(jobs[e]) \in {"none", "stuck", "done"} BY <2>2 DEF Arrives
    <3>2. PhaseOf(jobs'[e]) = "waiting" BY <1>1, <3>1, PhaseFacts DEF Waiting
    <3>3. old[e] = "none" BY <1>1, <2>1, <2>2, <3>1, PhaseFacts
    <3>4. QED BY <1>1, <2>2, <3>2, <3>3 DEF Moves, Inbox!Moves, Open, Inbox!Open
  <2>3. CASE e \notin arrived /\ jobs'[e].status = "absent"
    <3>1. PhaseOf(jobs'[e]) = "none" BY <1>1, <2>3, PhaseFacts
    <3>2. old[e] = "none" BY <1>1, <2>1, <2>3, PhaseFacts
    <3>3. QED BY <1>1, <2>3, <3>1, <3>2 DEF Moves, Inbox!Moves, Open, Inbox!Open
  <2>4. CASE e \notin arrived /\ jobs'[e].status # "absent"
    <3>1. /\ jobs[e].status # "absent" /\ jobs'[e].seq = jobs[e].seq
          /\ PhaseOf(jobs'[e]) \in Moves[PhaseOf(jobs[e])]
      BY <2>4 DEF Advances
    <3>2. old[e] = PhaseOf(jobs[e]) /\ old[e] # "none" BY <1>1, <2>1, <2>4, <3>1, PhaseFacts
    <3>3. PhaseOf(jobs[e]) \in Inbox!Phase BY <1>1, PhaseFacts
    <3>4. PhaseOf(jobs'[e]) \in Open => PhaseOf(jobs[e]) \in Open
      BY <3>1, <3>2, <3>3 DEF Moves, Inbox!Moves, Open, Inbox!Open, Inbox!Phase
    <3>5. QED BY <1>1, <2>4, <3>1, <3>2, <3>4
  <2>5. QED BY <2>2, <2>3, <2>4
<1>5. ASSUME NEW e \in Event, old[e] = "waiting", phaseBar'[e] = "working"
      PROVE  aheadBar'[e] = {}
  <2>1. jobs'[e].status = "running" BY <1>1, <1>5, PhaseFacts
  <2>2. Attempted(jobs', e)
    BY <2>1 DEF IInv, RowsOK, RowOK, Row, Attempted, Unresolved
  <2>3. HeadOfLane(jobs', e) BY <2>2 DEF IInv, Ordered, Attempted, HeadOfLane, Unresolved
  <2>4. \A f \in Event : jobs'[f].seq \in Nat BY <1>1 DEF Row
  <2>5. QED BY <2>3, <2>4 DEF HeadOfLane, aheadBar, Unresolved
<1>6. ASSUME NEW e \in Event
      PROVE  aheadBar'[e] = IF phaseBar'[e] \notin Open THEN {}
                            ELSE {f \in IF e \in arrived THEN lane(e) ELSE aheadBar[e] :
                                     old[f] \in Open /\ phaseBar'[f] \in Open}
  <2>1. \A f \in Event : Unresolved(jobs, f) <=> phaseBar[f] \in Open
    BY <1>1, PhaseFacts DEF Unresolved
  <2>2. \A f \in Event : Unresolved(jobs', f) <=> phaseBar'[f] \in Open
    BY <1>1, PhaseFacts DEF Unresolved
  <2>3. aheadBar'[e] = {f \in Event : /\ LaneOf[f] = LaneOf[e] /\ jobs'[f].seq < jobs'[e].seq
                                     /\ phaseBar'[e] \in Open /\ phaseBar'[f] \in Open}
    BY <2>2 DEF aheadBar, Unresolved
  <2>4. aheadBar[e] = {f \in Event : /\ LaneOf[f] = LaneOf[e] /\ jobs[f].seq < jobs[e].seq
                                    /\ phaseBar[e] \in Open /\ phaseBar[f] \in Open}
    BY <2>1 DEF aheadBar
  <2>5. \A f \in Event : jobs'[f].seq \in Nat /\ jobs[f].seq \in Nat BY <1>1 DEF Row
  <2>6. \A a \in arrived : \A f \in Event \ {a} : jobs'[f].seq < jobs'[a].seq OBVIOUS
  <2> HIDE DEF forgotten, old
  <2>7. CASE phaseBar'[e] \notin Open BY <2>3, <2>7
  <2>8. CASE phaseBar'[e] \in Open /\ e \in arrived
    <3>1. ASSUME NEW f \in Event
          PROVE  (jobs'[f].seq < jobs'[e].seq /\ phaseBar'[f] \in Open) <=> (old[f] \in Open /\ phaseBar'[f] \in Open)
      BY <1>1, <1>4, <2>5, <2>6, <2>8
    <3>2. QED BY <2>3, <2>8, <3>1
  <2>9. CASE phaseBar'[e] \in Open /\ e \notin arrived
    <3>1. ASSUME NEW f \in Event, phaseBar'[f] \in Open
          PROVE  jobs'[f].seq < jobs'[e].seq
                   <=> (jobs[f].seq < jobs[e].seq /\ phaseBar[e] \in Open /\ phaseBar[f] \in Open /\ old[f] \in Open)
      BY <1>4, <2>5, <2>6, <2>9, <3>1
    <3>2. QED BY <2>3, <2>4, <2>9, <3>1
  <2>10. QED BY <2>7, <2>8, <2>9
<1>7. aheadBar' = [e \in Event |-> aheadBar'[e]] BY DEF aheadBar
<1>8. aheadBar' = [e \in Event |->
          IF phaseBar'[e] \notin Open THEN {}
          ELSE {f \in IF e \in arrived THEN lane(e) ELSE aheadBar[e] :
                   old[f] \in Open /\ phaseBar'[f] \in Open}]
  BY <1>6, <1>7
<1>9. Inbox!Step(forgotten, arrived)
  BY <1>2, <1>3, <1>4, <1>5, <1>8 DEF Inbox!Step, Moves, Open
<1>10. forgotten \in SUBSET Event OBVIOUS
<1>11. QED BY <1>9, <1>10 DEF Inbox!InboxNext

\* A step in which nothing arrives.
LEMMA NoArrival ==
    ASSUME IInv, IInv', \A f \in Event : Advances(jobs[f], jobs'[f])
    PROVE  Inbox!InboxNext
<1> DEFINE arrived == {}
<1>1. arrived \in {{}} \cup {{e} : e \in Event} OBVIOUS
<1>2. /\ \A f \in Event \ arrived : Advances(jobs[f], jobs'[f])
      /\ \A e \in arrived : /\ Arrives(jobs[e], jobs'[e])
                            /\ \A f \in Event \ {e} : jobs'[f].seq < jobs'[e].seq
  OBVIOUS
<1> HIDE DEF arrived
<1>3. QED BY <1>1, <1>2, Simulated

-----------------------------------------------------------------------------
(* Every transaction lets the rows advance *)

LEMMA StaysAdvances ==
    ASSUME NEW row \in Row, NEW new \in Row, new.status = row.status, new.seq = row.seq,
           row.started => new.started
    PROVE  Advances(row, new)
BY DEF Advances, PhaseOf, Moves, Inbox!Moves, Row, Status, Waiting

LEMMA ReleasedAdvances ==
    ASSUME NEW row, RowOK(row), row.status = "running",
           NEW st, NEW avail \in Int, NEW d \in Nat,
           \/ st \in {"completed", "unknown"}
           \/ st = RetryOrFail(row) /\ ~row.started
    PROVE  Advances(row, Released(row, st, avail, d))
<1>1. row \in Row BY DEF RowOK
<1>2. /\ Released(row, st, avail, d).status = st
      /\ Released(row, st, avail, d).seq = row.seq
      /\ Released(row, st, avail, d).started = row.started
  BY <1>1 DEF Released, Row
<1>3. QED
  BY <1>1, <1>2 DEF Advances, PhaseOf, Moves, Inbox!Moves, Row, Waiting, RetryOrFail

LEMMA PurgedAdvances ==
    ASSUME NEW row, RowOK(row), NEW d \in Nat
    PROVE  /\ Advances(row, Purged(row, d))
           /\ Purged(row, d).status = "absent" => PhaseOf(row) \in {"none", "stuck", "done"}
<1>1. row \in Row /\ Advances(row, row) BY StaysAdvances DEF RowOK
<1>2. QED BY <1>1 DEF Advances, Purged, NoRow, PhaseOf, Waiting

LEMMA SweptAdvances ==
    ASSUME NEW row, RowOK(row), NEW d \in Nat
    PROVE  Advances(row, Recovered(Purged(row, d), d))
<1>1. CASE Recovered(Purged(row, d), d) = Purged(row, d) BY <1>1, PurgedAdvances
<1>2. CASE Recovered(Purged(row, d), d) # Purged(row, d)
  <2>1. Purged(row, d) = row /\ row.status = "running" BY <1>2 DEF Recovered, Purged, NoRow
  <2>2. Recovered(row, d) = Released(row, IF row.started THEN "unknown" ELSE RetryOrFail(row), -d, d)
    BY <1>2, <2>1 DEF Recovered
  <2>3. -d \in Int OBVIOUS
  <2>4. QED BY <2>1, <2>2, <2>3, ReleasedAdvances
<1>3. QED BY <1>1, <1>2

\* One row is rewritten.
LEMMA UpdateAdvances ==
    ASSUME IInv, IInv', NEW e \in Event, NEW row, Update(e, row), Advances(jobs[e], row)
    PROVE  Inbox!InboxNext
<1>1. \A f \in Event : jobs[f] \in Row BY DEF IInv, RowsOK
<1>2. \A f \in Event : jobs'[f] = IF f = e THEN row ELSE jobs[f] BY DEF Update, IInv, RowsOK
<1>3. \A f \in Event : Advances(jobs[f], jobs'[f]) BY <1>1, <1>2, StaysAdvances
<1>4. QED BY <1>3, NoArrival

\* The lease holder rewrites its row, or gives it up.
LEMMA HolderAdvances ==
    ASSUME IInv, IInv', NEW e \in Event, NEW w \in Worker, NEW d \in Nat,
           Unfenced(e, w, d) \/ Fenced(e, w, d)
    PROVE  Inbox!InboxNext
<1>1. jobs[e] \in Row /\ RowOK(jobs[e]) /\ jobs \in [Event -> Row] BY DEF IInv, RowsOK
<1>2. ASSUME NEW row, Update(e, row), row.status = jobs[e].status, row.seq = jobs[e].seq,
             jobs[e].started => row.started
      PROVE  Inbox!InboxNext
  <2>1. row \in Row BY <1>1, <1>2 DEF Update, IInv, RowsOK
  <2>2. QED BY <1>1, <1>2, <2>1, StaysAdvances, UpdateAdvances
<1>3. ASSUME NEW st, NEW avail \in Int, jobs[e].status = "running",
             \/ st \in {"completed", "unknown"}
             \/ st = RetryOrFail(jobs[e]) /\ ~jobs[e].started,
             Update(e, Released(jobs[e], st, avail, d))
      PROVE  Inbox!InboxNext
  BY <1>1, <1>3, ReleasedAdvances, UpdateAdvances
<1>4. 0 \in Int /\ \A delay \in 0..BackoffMax : delay - d \in Int BY StoreAssumption
<1>5. CASE Unfenced(e, w, d)
  <2>1. CASE Renew(e, w, d) BY <1>1, <1>2, <2>1 DEF Renew, Row
  <2>2. CASE MarkSideEffectStarted(e, w) BY <1>1, <1>2, <2>2 DEF MarkSideEffectStarted, Row
  <2>3. CASE Complete(e, w, d) BY <1>3, <1>4, <2>3 DEF Complete, Owns
  <2>4. ASSUME NEW delay \in 0..BackoffMax, Retry(e, w, delay, d)
        PROVE  Inbox!InboxNext
    BY <1>3, <1>4, <2>4 DEF Retry, Owns
  <2>5. CASE MarkUnknown(e, w, d) BY <1>3, <1>4, <2>5 DEF MarkUnknown, Owns
  <2>6. QED BY <1>5, <2>1, <2>2, <2>3, <2>4, <2>5 DEF Unfenced
<1>6. CASE Fenced(e, w, d)
  <2>1. PICK t \in 1..issued[e] :
          \/ RenewFenced(e, w, t, d)
          \/ MarkFencedStarted(e, w, t, d)
          \/ BeginEffect(e, w, t, d)
          \/ \E u \in BOOLEAN : EndEffect(e, w, t, u, d)
          \/ FinishFenced(e, w, t, d)
          \/ \E delay \in 0..BackoffMax : FailFenced(e, w, t, delay, d)
    BY <1>6 DEF Fenced
  <2>2. CASE RenewFenced(e, w, t, d) BY <1>1, <1>2, <2>2 DEF RenewFenced, Row
  <2>3. CASE MarkFencedStarted(e, w, t, d) BY <1>1, <1>2, <2>3 DEF MarkFencedStarted, Row
  <2>4. CASE BeginEffect(e, w, t, d) BY <1>1, <1>2, <2>4 DEF BeginEffect, Row
  <2>5. ASSUME NEW u \in BOOLEAN, EndEffect(e, w, t, u, d)
        PROVE  Inbox!InboxNext
    BY <1>1, <1>2, <2>5 DEF EndEffect, Row
  <2>6. CASE FinishFenced(e, w, t, d) BY <1>3, <1>4, <2>6 DEF FinishFenced, Holds, Owns
  <2>7. ASSUME NEW delay \in 0..BackoffMax, FailFenced(e, w, t, delay, d)
        PROVE  Inbox!InboxNext
    <3> DEFINE frozen == jobs[e].started \/ jobs[e].inflight > 0 \/ jobs[e].uncertain
    <3>1. CASE frozen BY <1>3, <1>4, <2>7, <3>1 DEF FailFenced, Holds, Owns
    <3>2. CASE ~frozen BY <1>3, <1>4, <2>7, <3>2 DEF FailFenced, Holds, Owns
    <3>3. QED BY <3>1, <3>2
  <2>8. QED BY <2>1, <2>2, <2>3, <2>4, <2>5, <2>6, <2>7
<1>7. QED BY <1>5, <1>6

\* An operator puts a stuck job back in its place.
LEMMA OperatorAdvances ==
    ASSUME IInv, IInv', NEW e \in Event, NEW d \in Nat, Operator(e, d)
    PROVE  Inbox!InboxNext
<1>1. jobs[e] \in Row /\ jobs \in [Event -> Row] BY DEF IInv, RowsOK
<1>2. PICK row : /\ Update(e, row)
                 /\ row.status = "queued" /\ row.seq = jobs[e].seq
                 /\ jobs[e].status \in {"failed", "unknown"}
  BY <1>1 DEF Operator, RequeueUnknown, RequeueFailed, Requeued, Released, Row
<1>3. Advances(jobs[e], row)
  BY <1>2 DEF Advances, PhaseOf, Moves, Inbox!Moves, Waiting
<1>4. QED BY <1>2, <1>3, UpdateAdvances

\* A sweep moves what has lapsed, and the head of a lane may start.
LEMMA ClaimAdvances ==
    ASSUME IInv, IInv', NEW w \in Worker, NEW d \in Nat, Claim(w, d)
    PROVE  Inbox!InboxNext
<1>1. \A f \in Event : RowOK(jobs[f]) /\ RowOK(Swept(d)[f]) /\ Swept(d) \in [Event -> Row]
  BY SweptOK DEF IInv, RowsOK
<1>2. \A f \in Event : Advances(jobs[f], Swept(d)[f]) BY <1>1, SweptAdvances DEF Swept
<1>3. CASE \E tol \in 0..Tolerance : ClaimNone(d, tol)
  <2>1. \A f \in Event : Advances(jobs[f], jobs'[f]) BY <1>2, <1>3 DEF ClaimNone
  <2>2. QED BY <2>1, NoArrival
<1>4. ASSUME NEW tol \in 0..Tolerance, NEW e \in Event, ClaimJob(w, e, d, tol)
      PROVE  Inbox!InboxNext
  <2> DEFINE old == Swept(d)[e]
             new == Leased(old, w, issued[e] + 1, d)
  <2>1. jobs' = [Swept(d) EXCEPT ![e] = new] /\ old.status \in Waiting
    BY <1>4 DEF ClaimJob, Claimable
  <2>2. old \in Row /\ ~old.started BY <1>1, <2>1 DEF RowOK
  <2>3. new.status = "running" /\ new.seq = old.seq /\ ~new.started
    BY <2>2 DEF Leased, Row
  <2>4. Advances(jobs[e], old) BY <1>2
  <2>5. PhaseOf(old) = "waiting" /\ PhaseOf(new) = "working" /\ new.status # "absent" /\ old.status # "absent"
    BY <2>1, <2>3 DEF PhaseOf, Waiting
  <2>6. PhaseOf(jobs[e]) \in Inbox!Phase /\ jobs[e] \in Row BY <1>1, PhaseFacts DEF RowOK
  <2> HIDE DEF old, new
  <2>7. jobs[e].status # "absent" /\ jobs[e].seq = old.seq /\ PhaseOf(old) \in Moves[PhaseOf(jobs[e])]
    BY <2>4, <2>5 DEF Advances
  <2>8. jobs[e].status \in {"failed", "unknown"} => FALSE
    <3>1. ASSUME jobs[e].status \in {"failed", "unknown"} PROVE Swept(d)[e].status \notin Waiting
      BY <3>1 DEF Swept, Purged, Recovered, NoRow, Waiting
    <3>2. QED BY <2>1, <3>1 DEF old
  <2>9. PhaseOf(jobs[e]) \in {"waiting", "working"}
    <3>1. PhaseOf(jobs[e]) \in {"none", "waiting", "working", "stuck"}
      BY <2>5, <2>6, <2>7 DEF Moves, Inbox!Moves, Inbox!Phase
    <3>2. PhaseOf(jobs[e]) # "none" BY <2>6, <2>7, PhaseFacts
    <3>3. PhaseOf(jobs[e]) = "stuck" => jobs[e].status \in {"failed", "unknown"}
      BY <2>6 DEF PhaseOf, Row, Status, Waiting
    <3>4. QED BY <2>8, <3>1, <3>2, <3>3
  <2>10. Advances(jobs[e], new)
    BY <2>3, <2>5, <2>7, <2>9 DEF Advances, Moves, Inbox!Moves
  <2>11. \A f \in Event : Advances(jobs[f], jobs'[f])
    BY <1>1, <1>2, <2>1, <2>10
  <2>12. QED BY <2>11, NoArrival
<1>5. QED BY <1>3, <1>4 DEF Claim

\* A new row comes last, whatever the retention dropped and whatever number it took.
LEMMA ReceiveAdvances ==
    ASSUME IInv, IInv', NEW e \in Event, NEW d \in Nat, Receive(e, d)
    PROVE  Inbox!InboxNext
<1> DEFINE js == [f \in Event |-> Purged(jobs[f], d)]
<1>1. \A f \in Event : /\ RowOK(jobs[f])
                       /\ Advances(jobs[f], js[f])
                       /\ js[f].status = "absent" => PhaseOf(jobs[f]) \in {"none", "stuck", "done"}
  BY PurgedAdvances DEF IInv, RowsOK
<1>2. CASE EnqueueDuplicate(e, d)
  <2>1. jobs' = js BY <1>2 DEF EnqueueDuplicate
  <2>2. \A f \in Event : Advances(jobs[f], jobs'[f]) BY <1>1, <2>1
  <2>3. QED BY <2>2, NoArrival
<1>3. CASE EnqueueNew(e, d)
  <2>1. PICK s \in 1..MaxSeq :
          /\ NextSeq(js, s)
          /\ jobs' = [js EXCEPT ![e] = [NoRow EXCEPT !.status = "queued", !.seq = s, !.avail = -d]]
    BY <1>3 DEF EnqueueNew
  <2>2. jobs'[e].status = "queued" /\ jobs'[e].seq = s BY <2>1 DEF NoRow
  <2>3. js[e].status = "absent" BY <1>3 DEF EnqueueNew, Present
  <2>4. \A f \in Event \ {e} : jobs'[f] = js[f] /\ jobs'[f].seq < s BY <2>1 DEF NextSeq
  <2>5. \A f \in Event \ {e} : Advances(jobs[f], jobs'[f]) BY <1>1, <2>4
  <2>6. Arrives(jobs[e], jobs'[e]) BY <1>1, <2>2, <2>3 DEF Arrives
  <2> DEFINE arrived == {e}
  <2>7. arrived \in {{}} \cup {{x} : x \in Event} OBVIOUS
  <2>8. /\ \A f \in Event \ arrived : Advances(jobs[f], jobs'[f])
        /\ \A x \in arrived : /\ Arrives(jobs[x], jobs'[x])
                              /\ \A f \in Event \ {x} : jobs'[f].seq < jobs'[x].seq
    BY <2>2, <2>4, <2>5, <2>6
  <2> HIDE DEF arrived
  <2>9. QED BY <2>7, <2>8, Simulated
<1>4. QED BY <1>2, <1>3 DEF Receive

LEMMA TickAdvances == ASSUME IInv, IInv', Tick PROVE Inbox!InboxNext
<1>1. \A f \in Event : jobs[f] \in Row /\ jobs'[f] \in Row BY DEF IInv, RowsOK
<1>2. \A f \in Event : /\ jobs'[f].status = jobs[f].status /\ jobs'[f].seq = jobs[f].seq
                       /\ jobs'[f].started = jobs[f].started
  BY <1>1, ZenonT(40) DEF Tick, Aged, Row
<1>3. \A f \in Event : Advances(jobs[f], jobs'[f]) BY <1>1, <1>2, StaysAdvances
<1>4. QED BY <1>3, NoArrival

\* Every transaction of the store, whoever calls it, is a step of the inbox:
\* receipt numbers give its order although they are used again after a purge,
\* leases and tokens give "started at the head, and at most once after its
\* effect", and one sweep moves several events.
THEOREM InboxImplemented == StoreSpec => ImplementsInbox
<1>1. StoreInit => Inbox!InboxInit
  <2> SUFFICES ASSUME StoreInit PROVE Inbox!InboxInit OBVIOUS
  <2>1. \A e \in Event : jobs[e].status = "absent" BY DEF StoreInit, NoRow
  <2>2. phaseBar = [e \in Event |-> "none"] BY <2>1 DEF phaseBar, PhaseOf, Waiting
  <2>3. aheadBar = [e \in Event |-> {}] BY <2>1 DEF aheadBar, Unresolved
  <2>4. QED BY <2>2, <2>3 DEF Inbox!InboxInit
<1>2. IInv /\ IInv' /\ [StoreNext]_storeVars => [Inbox!InboxNext]_(Inbox!inboxVars)
  <2> SUFFICES ASSUME IInv, IInv', [StoreNext]_storeVars
               PROVE  [Inbox!InboxNext]_(Inbox!inboxVars)
    OBVIOUS
  <2>1. Lags \subseteq Nat BY StoreAssumption DEF Lags
  <2>2. CASE StoreNext
    BY <2>1, <2>2, TickAdvances, ClaimAdvances, ReceiveAdvances, OperatorAdvances, HolderAdvances
       DEF StoreNext
  <2>3. CASE UNCHANGED storeVars
    BY <2>3 DEF storeVars, Inbox!inboxVars, phaseBar, aheadBar, Unresolved
  <2>4. QED BY <2>2, <2>3
<1>3. QED BY <1>1, <1>2, StoreInvariant, PTL DEF StoreSpec, ImplementsInbox, Inbox!InboxSpec

-----------------------------------------------------------------------------
(* The runners *)

Live(r) == run[r].pc # "idle"

Calling == {"bare", "bracket"}

TypesOK ==
    /\ run \in [Runner -> Run]
    /\ effects \in [Event -> SUBSET Nat]
    /\ unsure \in [Event -> SUBSET Nat]

\* A token belongs to one run; the row of a run that still has its lease says so.
HeldOK ==
    /\ \A r \in Runner : Live(r) =>
          LET row == jobs[run[r].ev] IN
          /\ run[r].ev \in Event
          /\ run[r].token \in 1..issued[run[r].ev]
          /\ run[r].era <= epoch[run[r].ev]
          /\ row.status = "running" /\ (row.worker = WorkerOf[r] \/ row.token = run[r].token) =>
                /\ row.worker = WorkerOf[r] /\ row.token = run[r].token
                /\ run[r].era = epoch[run[r].ev]
    /\ \A r, s \in Runner :
          Live(r) /\ Live(s) /\ run[r].ev = run[s].ev /\ run[r].token = run[s].token => r = s

\* The run marked its event in the present epoch.
Marks(r, e) == Live(r) /\ run[r].ev = e /\ run[r].era = epoch[e] /\ run[r].marked

\* Some attempt of the present epoch, with token t, marked e or called out.
Started(e, t) == t \in effects[e] \/ \E r \in Runner : Marks(r, e) /\ run[r].token = t

\* There is one such attempt, and the row shows it.
SealOK ==
    /\ \A e \in Event, t \in Nat : Started(e, t) =>
          /\ jobs[e].status \notin Waiting \cup {"failed"}
          /\ jobs[e].status = "running" => jobs[e].token = t /\ jobs[e].started
    /\ \A e \in Event, t, u \in Nat : Started(e, t) /\ Started(e, u) => t = u

\* Whoever is inside a call has marked its event, and is known to have called out.
CallsOK ==
    \A r \in Runner : run[r].pc \in Calling =>
        /\ run[r].marked
        /\ run[r].era = epoch[run[r].ev] => run[r].token \in effects[run[r].ev]

\* The event of a run that marked it is not settled for good, unless its record expired.
OpenOK ==
    ~UnknownExpires => \A r \in Runner : Live(r) /\ Marks(r, run[r].ev) =>
        jobs[run[r].ev].status \in {"running", "unknown"}

\* A doubt about a call is a doubt in the row.
DoubtOK ==
    /\ \A e \in Event : unsure[e] \subseteq effects[e]
    /\ \A e \in Event : IsFenced(e) /\ unsure[e] # {} =>
          /\ jobs[e].status # "completed"
          /\ jobs[e].status = "running" => jobs[e].inflight > 0 \/ jobs[e].uncertain

RInv == IInv /\ TypesOK /\ HeldOK /\ SealOK /\ CallsOK /\ OpenOK /\ DoubtOK

-----------------------------------------------------------------------------
(* What a row may do without its runs, or when its run gives it up *)

KeptRow(row, new) ==
    /\ new.status = row.status /\ new.token = row.token
    /\ new.worker = row.worker /\ new.started = row.started

Left(row, new) ==
    /\ row.status = "running"
    /\ \/ new.status \in {"unknown", "completed"}
       \/ ~row.started /\ new.status \in {"retry_wait", "failed"}

Dropped(row, new) ==
    /\ new.status = "absent"
    /\ row.status = "completed" \/ (row.status = "unknown" /\ UnknownExpires)

Drifts(row, new) == KeptRow(row, new) \/ Left(row, new) \/ Dropped(row, new)

\* Time takes no job to "completed", and no running one while its lease lasts.
Elapses(row, new) ==
    /\ Drifts(row, new)
    /\ new.status = "running" => new.inflight = row.inflight /\ new.uncertain = row.uncertain
    /\ row.status = "running" /\ new.status # "running" =>
          new.status # "completed" /\ row.lease <= 0

LEMMA PurgeElapses ==
    ASSUME NEW row, RowOK(row), NEW d \in Nat PROVE Elapses(row, Purged(row, d))
BY DEF Purged, Elapses, Drifts, KeptRow, Dropped, NoRow

LEMMA RecoveryElapses ==
    ASSUME NEW row, RowOK(row), NEW d \in Nat PROVE Elapses(row, Recovered(row, d))
<1>1. row \in Row BY DEF RowOK
<1>2. CASE row.status = "running" /\ row.lease + d <= 0
  <2>1. Recovered(row, d).status = IF row.started THEN "unknown" ELSE RetryOrFail(row)
    BY <1>1, <1>2 DEF Recovered, Released, Row
  <2>2. row.lease <= 0 BY <1>1, <1>2 DEF Row
  <2>3. QED BY <1>2, <2>1, <2>2 DEF Elapses, Drifts, Left, RetryOrFail
<1>3. CASE ~(row.status = "running" /\ row.lease + d <= 0)
  BY <1>3 DEF Recovered, Elapses, Drifts, KeptRow
<1>4. QED BY <1>2, <1>3

LEMMA SweepElapses ==
    ASSUME RowsOK, NEW d \in Nat
    PROVE  \A e \in Event : Elapses(jobs[e], Swept(d)[e])
<1> SUFFICES ASSUME NEW e \in Event PROVE Elapses(jobs[e], Swept(d)[e]) OBVIOUS
<1>1. RowOK(jobs[e]) BY DEF RowsOK
<1>2. Swept(d)[e] = Recovered(Purged(jobs[e], d), d) BY DEF Swept
<1>3. CASE Purged(jobs[e], d) = jobs[e] BY <1>1, <1>2, <1>3, RecoveryElapses
<1>4. CASE Purged(jobs[e], d) # jobs[e]
  <2>1. Purged(jobs[e], d) = NoRow BY <1>4 DEF Purged
  <2>2. Swept(d)[e] = NoRow BY <1>2, <2>1 DEF Recovered, NoRow
  <2>3. QED BY <1>1, <2>1, <2>2, PurgeElapses
<1>5. QED BY <1>3, <1>4

LEMMA TickElapses ==
    ASSUME RowsOK, Tick PROVE \A e \in Event : Elapses(jobs[e], jobs'[e])
<1> SUFFICES ASSUME NEW e \in Event PROVE Elapses(jobs[e], jobs'[e]) OBVIOUS
<1>1. jobs[e] \in Row BY DEF RowsOK
<1>2. jobs'[e] = Aged(jobs[e]) BY DEF Tick
<1>3. /\ KeptRow(jobs[e], jobs'[e])
      /\ jobs'[e].inflight = jobs[e].inflight /\ jobs'[e].uncertain = jobs[e].uncertain
  BY <1>1, <1>2 DEF Aged, KeptRow, Row
<1>4. QED BY <1>3 DEF Elapses, Drifts, KeptRow

LEMMA ReleaseLeaves ==
    ASSUME NEW row \in Row, row.status = "running", NEW st \in Status, NEW avail \in Int, NEW d \in Nat
    PROVE  Released(row, st, avail, d).status = st
BY DEF Released, Row

-----------------------------------------------------------------------------
(* Steps in which no run takes a job, marks it or calls out *)

Quiet(r) ==
    \/ run'[r].pc = "idle"
    \/ /\ Live(r)
       /\ run'[r].ev = run[r].ev /\ run'[r].token = run[r].token
       /\ run'[r].era = run[r].era /\ run'[r].marked = run[r].marked
       /\ run'[r].pc \in Calling => run[r].pc \in Calling

LEMMA QuietKeeps ==
    ASSUME RInv, UNCHANGED <<issued, epoch, effects>>,
           \A e \in Event : Drifts(jobs[e], jobs'[e]), \A r \in Runner : Quiet(r)
    PROVE  HeldOK' /\ SealOK' /\ CallsOK'
<1>1. HeldOK'
  <2>1. ASSUME NEW r \in Runner, run'[r].pc # "idle"
        PROVE  LET row == jobs'[run'[r].ev] IN
          /\ run'[r].ev \in Event
          /\ run'[r].token \in 1..issued'[run'[r].ev]
          /\ run'[r].era <= epoch'[run'[r].ev]
          /\ row.status = "running" /\ (row.worker = WorkerOf[r] \/ row.token = run'[r].token) =>
                /\ row.worker = WorkerOf[r] /\ row.token = run'[r].token
                /\ run'[r].era = epoch'[run'[r].ev]
    <3>1. Live(r) /\ run'[r].ev = run[r].ev /\ run'[r].token = run[r].token /\ run'[r].era = run[r].era
      BY <2>1 DEF Quiet
    <3>2. run[r].ev \in Event BY <3>1 DEF RInv, HeldOK
    <3>3. Drifts(jobs[run[r].ev], jobs'[run[r].ev]) BY <3>2
    <3>4. QED BY <3>1, <3>3 DEF RInv, HeldOK, Drifts, KeptRow, Left, Dropped
  <2>2. \A r, s \in Runner :
           run'[r].pc # "idle" /\ run'[s].pc # "idle"
              /\ run'[r].ev = run'[s].ev /\ run'[r].token = run'[s].token => r = s
    BY DEF Quiet, RInv, HeldOK
  <2>3. QED BY <2>1, <2>2 DEF HeldOK, Live
<1>2. SealOK'
  <2>1. ASSUME NEW e \in Event, NEW t \in Nat, Started(e, t)' PROVE Started(e, t)
    BY <2>1 DEF Started, Marks, Quiet, Live
  <2>2. ASSUME NEW e \in Event, NEW t \in Nat, Started(e, t)'
        PROVE  /\ jobs'[e].status \notin Waiting \cup {"failed"}
               /\ jobs'[e].status = "running" => jobs'[e].token = t /\ jobs'[e].started
    <3>1. /\ jobs[e].status \notin Waiting \cup {"failed"}
          /\ jobs[e].status = "running" => jobs[e].token = t /\ jobs[e].started
      BY <2>1, <2>2 DEF RInv, SealOK
    <3>2. Drifts(jobs[e], jobs'[e]) OBVIOUS
    <3>3. QED BY <3>1, <3>2 DEF Drifts, KeptRow, Left, Dropped, Waiting
  <2>3. \A e \in Event, t, u \in Nat : Started(e, t)' /\ Started(e, u)' => t = u
    BY <2>1 DEF RInv, SealOK
  <2>4. QED BY <2>2, <2>3 DEF SealOK
<1>3. CallsOK' BY DEF Quiet, RInv, HeldOK, CallsOK, Live, Calling
<1>4. QED BY <1>1, <1>2, <1>3

\* A job is completed by the run that holds it, which is over then.
LEMMA OpenKeeps ==
    ASSUME RInv, UNCHANGED epoch,
           \A e \in Event : Drifts(jobs[e], jobs'[e]), \A r \in Runner : Quiet(r),
           \A e \in Event : jobs[e].status = "running" /\ jobs'[e].status = "completed" =>
               \A r \in Runner : run'[r].pc # "idle" /\ run[r].ev = e => run[r].token # jobs[e].token
    PROVE  OpenOK'
<1> SUFFICES ASSUME ~UnknownExpires, NEW r \in Runner, run'[r].pc # "idle",
                    Marks(r, run[r].ev)', run'[r].ev = run[r].ev
             PROVE  jobs'[run[r].ev].status \in {"running", "unknown"}
  BY DEF OpenOK, Live, Marks, Quiet
<1>1. Live(r) /\ Marks(r, run[r].ev) /\ run[r].ev \in Event /\ run[r].token \in Nat
  BY DEF Quiet, Marks, Live, RInv, HeldOK, TypesOK, Run
<1> DEFINE e == run[r].ev
<1>2. jobs[e].status \in {"running", "unknown"} BY <1>1 DEF RInv, OpenOK
<1>3. jobs[e].status = "running" => jobs[e].token = run[r].token /\ jobs[e].started
  BY <1>1 DEF RInv, SealOK, Started
<1>4. Drifts(jobs[e], jobs'[e]) BY <1>1
<1>5. QED BY <1>1, <1>2, <1>3, <1>4 DEF Drifts, KeptRow, Left, Dropped

\* No doubt is dropped.
LEMMA DoubtKeeps ==
    ASSUME RInv, UNCHANGED effects, \A e \in Event : unsure'[e] \subseteq unsure[e],
           \A e \in Event : Drifts(jobs[e], jobs'[e]),
           \A e \in Event : jobs'[e].status = "running" =>
               jobs'[e].inflight = jobs[e].inflight /\ jobs'[e].uncertain = jobs[e].uncertain,
           \A e \in Event : jobs[e].status = "running" /\ jobs'[e].status = "completed" /\ IsFenced(e) =>
               jobs[e].inflight = 0 /\ ~jobs[e].uncertain
    PROVE  DoubtOK'
<1>1. ASSUME NEW e \in Event, IsFenced(e), unsure'[e] # {}
      PROVE  /\ jobs'[e].status # "completed"
             /\ jobs'[e].status = "running" => jobs'[e].inflight > 0 \/ jobs'[e].uncertain
  <2>1. /\ jobs[e].status # "completed"
        /\ jobs[e].status = "running" => jobs[e].inflight > 0 \/ jobs[e].uncertain
    BY <1>1 DEF RInv, DoubtOK
  <2>2. Drifts(jobs[e], jobs'[e]) OBVIOUS
  <2>3. QED BY <1>1, <2>1, <2>2 DEF Drifts, KeptRow, Left, Dropped
<1>2. \A e \in Event : unsure'[e] \subseteq effects'[e] BY DEF RInv, DoubtOK
<1>3. QED BY <1>1, <1>2 DEF DoubtOK, IsFenced

\* The three together, for a step that leaves the store to itself.
LEMMA PassKeeps ==
    ASSUME RInv, IInv', TypesOK', UNCHANGED <<issued, epoch, effects>>,
           \A e \in Event : unsure'[e] \subseteq unsure[e],
           \A e \in Event : Elapses(jobs[e], jobs'[e]), \A r \in Runner : Quiet(r)
    PROVE  RInv'
<1>1. /\ \A e \in Event : Drifts(jobs[e], jobs'[e])
      /\ \A e \in Event : jobs'[e].status = "running" =>
            jobs'[e].inflight = jobs[e].inflight /\ jobs'[e].uncertain = jobs[e].uncertain
  BY DEF Elapses
<1>2. \A e \in Event : ~(jobs[e].status = "running" /\ jobs'[e].status = "completed")
  BY DEF Elapses
<1>3. HeldOK' /\ SealOK' /\ CallsOK' BY <1>1, QuietKeeps
<1>4. OpenOK' BY <1>1, <1>2, OpenKeeps
<1>5. DoubtOK' BY <1>1, <1>2, DoubtKeeps
<1>6. QED BY <1>3, <1>4, <1>5 DEF RInv

LEMMA StoreStays ==
    ASSUME IInv, UNCHANGED storeVars
    PROVE  IInv' /\ UNCHANGED <<issued, epoch>> /\ \A e \in Event : Elapses(jobs[e], jobs'[e])
<1>1. IInv' BY NextOK
<1>2. QED BY <1>1 DEF storeVars, Elapses, Drifts, KeptRow

-----------------------------------------------------------------------------
(* A run beside the store *)

LEMMA IdleRun == Idle \in Run /\ Idle.pc = "idle"
BY RunnerAssumption DEF Idle, Run, Pc, Handling

LEMMA GiveUpQuiet ==
    ASSUME TypesOK, NEW r \in Runner, GiveUp(r)
    PROVE  /\ run' \in [Runner -> Run] /\ run'[r] = Idle
           /\ \A s \in Runner : Quiet(s)
<1>1. run' \in [Runner -> Run] /\ run'[r] = Idle BY IdleRun DEF GiveUp, TypesOK
<1>2. \A s \in Runner \ {r} : run'[s] = run[s] BY DEF GiveUp, TypesOK
<1>3. QED BY <1>1, <1>2, IdleRun DEF Quiet, Live

LEMMA GotoQuiet ==
    ASSUME TypesOK, NEW r \in Runner, Live(r), NEW pc \in Pc \ {"idle"},
           pc \in Calling => run[r].pc \in Calling, Goto(r, pc)
    PROVE  run' \in [Runner -> Run] /\ \A s \in Runner : Quiet(s)
<1>1. run' \in [Runner -> Run] BY DEF Goto, TypesOK, Run
<1>2. \A s \in Runner \ {r} : run'[s] = run[s] BY DEF Goto, TypesOK
<1>3. /\ run'[r].pc = pc /\ run'[r].ev = run[r].ev /\ run'[r].token = run[r].token
      /\ run'[r].era = run[r].era /\ run'[r].marked = run[r].marked
  BY DEF Goto, TypesOK, Run
<1>4. QED BY <1>1, <1>2, <1>3 DEF Quiet, Live

LEMMA RaisesQuiet ==
    ASSUME TypesOK, NEW r \in Runner, Live(r), Raises(r)
    PROVE  run' \in [Runner -> Run] /\ \A s \in Runner : Quiet(s)
BY GotoQuiet DEF Raises, Pc, Handling, Calling

LEMMA AsideKeeps ==
    ASSUME RInv, UNCHANGED <<storeVars, effects, unsure>>,
           run' \in [Runner -> Run], \A r \in Runner : Quiet(r)
    PROVE  RInv'
<1>1. IInv' /\ UNCHANGED <<issued, epoch>> /\ \A e \in Event : Elapses(jobs[e], jobs'[e])
  BY StoreStays DEF RInv
<1>2. TypesOK' BY DEF RInv, TypesOK
<1>3. QED BY <1>1, <1>2, PassKeeps

\* Every step of a run that neither touches the store nor calls out.
LEMMA RunsAside ==
    ASSUME RInv, NEW r \in Runner, NEW d \in Lags,
           \/ Precheck(r, d) \/ WatchInterrupt(r, d) \/ Doom(r) \/ Checkpoint(r) \/ BareReturns(r)
           \/ HandlerReturns(r) \/ HandlerRaises(r) \/ Crash(r)
    PROVE  RInv'
<1>t. TypesOK BY DEF RInv
<1>1. CASE Precheck(r, d)
  <2>1. CASE GiveUp(r) BY <1>t, <1>1, <2>1, GiveUpQuiet, AsideKeeps DEF Precheck
  <2>2. CASE run' = [run EXCEPT ![r].pc = "active", ![r].cancel = SuccessorIsMessage(run[r].ev)]
    <3> DEFINE told == SuccessorIsMessage(run[r].ev)
    <3>1. told \in BOOLEAN BY DEF SuccessorIsMessage
    <3> HIDE DEF told
    <3>2. run' \in [Runner -> Run]
      <4>1. "active" \in Pc BY DEF Pc, Handling
      <4>2. [run[r] EXCEPT !.pc = "active", !.cancel = told] \in Run
        BY <1>t, <3>1, <4>1 DEF TypesOK, Run
      <4>3. run' = [run EXCEPT ![r] = [run[r] EXCEPT !.pc = "active", !.cancel = told]]
        BY <1>t, <2>2 DEF TypesOK, Run, told
      <4>4. QED BY <1>t, <4>2, <4>3 DEF TypesOK
    <3>3. \A s \in Runner : Quiet(s)
      BY <1>t, <1>1, <2>2 DEF TypesOK, Run, Precheck, Quiet, Live, Calling
    <3>4. QED BY <1>1, <3>2, <3>3, AsideKeeps DEF Precheck
  <2>3. QED BY <1>1, <2>1, <2>2 DEF Precheck
<1>2. CASE WatchInterrupt(r, d)
  <2>1. run' \in [Runner -> Run] BY <1>t, <1>2, ZenonT(40) DEF TypesOK, Run, WatchInterrupt
  <2>2. \A s \in Runner : Quiet(s)
    BY <1>t, <1>2 DEF TypesOK, Run, WatchInterrupt, Quiet, Live, Calling, Handling
  <2>3. QED BY <1>2, <2>1, <2>2, AsideKeeps DEF WatchInterrupt
<1>3. CASE Doom(r)
  <2> DEFINE pc == IF run[r].pc = "done" THEN "failed" ELSE run[r].pc
             doomed == [run[r] EXCEPT !.doomed = TRUE, !.pc = pc]
  <2>a. pc \in Pc BY <1>t DEF TypesOK, Run, Pc
  <2>b. doomed \in Run BY <1>t, <2>a DEF TypesOK, Run
  <2>c. run' = [run EXCEPT ![r] = doomed] BY <1>t, <1>3 DEF TypesOK, Run, Doom
  <2>1. run' \in [Runner -> Run] BY <1>t, <2>b, <2>c DEF TypesOK
  <2>2. \A s \in Runner : Quiet(s)
    BY <1>t, <1>3 DEF TypesOK, Run, Doom, Quiet, Live, Calling, Handling
  <2>3. QED BY <1>3, <2>1, <2>2, AsideKeeps DEF Doom
<1>4. CASE Checkpoint(r)
  <2>1. run' \in [Runner -> Run] BY <1>t, <1>4, ZenonT(40) DEF TypesOK, Run, Checkpoint
  <2>2. \A s \in Runner : Quiet(s)
    BY <1>t, <1>4 DEF TypesOK, Run, Checkpoint, Working, Quiet, Live, Calling, Handling
  <2>3. QED BY <1>4, <2>1, <2>2, AsideKeeps DEF Checkpoint
<1>5. CASE BareReturns(r)
  <2>1. Live(r) BY <1>5 DEF BareReturns, Live
  <2>2. QED
    BY <1>t, <1>5, <2>1, GotoQuiet, RaisesQuiet, AsideKeeps DEF BareReturns, Pc, Handling, Calling
<1>6. CASE HandlerReturns(r)
  <2>1. Live(r) BY <1>6 DEF HandlerReturns, Working, Live
  <2>2. QED BY <1>t, <1>6, <2>1, GotoQuiet, AsideKeeps DEF HandlerReturns, Pc, Calling
<1>7. CASE HandlerRaises(r)
  <2>1. Live(r) BY <1>7 DEF HandlerRaises, Live
  <2>2. QED BY <1>t, <1>7, <2>1, GotoQuiet, AsideKeeps DEF HandlerRaises, Pc, Calling
<1>8. CASE Crash(r) BY <1>t, <1>8, GiveUpQuiet, AsideKeeps DEF Crash
<1>9. QED BY <1>1, <1>2, <1>3, <1>4, <1>5, <1>6, <1>7, <1>8

-----------------------------------------------------------------------------
(* A run that holds its job *)

\* Whoever passes the check of the store holds the newest token of this epoch.
LEMMA Holder ==
    ASSUME RInv, NEW r \in Runner, Live(r), NEW d \in Lags, StillHeld(r, d)
    PROVE  LET e == run[r].ev IN
           /\ e \in Event /\ jobs[e] \in Row /\ RowOK(jobs[e])
           /\ Owns(e, WorkerOf[r]) /\ jobs[e].token = run[r].token /\ run[r].token \in 1..issued[e]
           /\ run[r].era = epoch[e] /\ run[r].token \in Nat
           /\ \A t \in Nat : Started(e, t) => t = run[r].token /\ jobs[e].started
<1> DEFINE e == run[r].ev
<1>1. e \in Event /\ run[r].token \in 1..issued[e] BY DEF RInv, HeldOK
<1>2. Owns(e, WorkerOf[r]) BY DEF StillHeld, Holds
<1>3. jobs[e].token = run[r].token /\ run[r].era = epoch[e]
  BY <1>1, <1>2 DEF Owns, RInv, HeldOK
<1>4. jobs[e] \in Row /\ RowOK(jobs[e]) BY <1>1 DEF RInv, IInv, RowsOK
<1>5. run[r].token \in Nat BY DEF RInv, TypesOK, Run
<1>6. \A t \in Nat : Started(e, t) => t = run[r].token /\ jobs[e].started
  BY <1>1, <1>2, <1>3 DEF Owns, RInv, SealOK
<1>7. QED BY <1>1, <1>2, <1>3, <1>4, <1>5, <1>6

\* The store lets a run renew its lease and change no more.
LEMMA HeartbeatKeeps ==
    ASSUME RInv, NEW r \in Runner, NEW d \in Lags, Heartbeat(r, d)
    PROVE  RInv'
<1> DEFINE e == run[r].ev
<1>1. Live(r) BY DEF Heartbeat, Handling, Live
<1>2. StillHeld(r, d) BY DEF Heartbeat, StillHeld, RenewFenced, Renew
<1>3. e \in Event /\ jobs[e] \in Row /\ Owns(e, WorkerOf[r]) BY <1>1, <1>2, Holder
<1>4. Update(e, [jobs[e] EXCEPT !.lease = LeaseSeconds - d]) /\ UNCHANGED <<issued, epoch>>
  BY DEF Heartbeat, RenewFenced, Renew
<1> DEFINE row == [jobs[e] EXCEPT !.lease = LeaseSeconds - d]
<1>5. LeaseSeconds - d \in Int BY StoreAssumption DEF Lags
<1>6. /\ row \in Row /\ row.status = "running" /\ row.seq = jobs[e].seq /\ row.attempt = jobs[e].attempt
      /\ KeptRow(jobs[e], row) /\ row.inflight = jobs[e].inflight /\ row.uncertain = jobs[e].uncertain
  BY <1>3, <1>5 DEF Row, Owns, KeptRow
<1> HIDE DEF row, e
<1>7. Update(e, row) BY <1>4 DEF row
<1>8. IInv' BY <1>3, <1>4, <1>6, <1>7, TouchOK DEF RInv, Owns
<1>9. ASSUME NEW f \in Event PROVE Elapses(jobs[f], jobs'[f])
  <2>1. CASE f = e
    <3>1. jobs'[f] = row BY <1>7, <2>1 DEF Update, RInv, IInv, RowsOK
    <3>2. QED BY <1>6, <2>1, <3>1 DEF Elapses, Drifts
  <2>2. CASE f # e BY <1>7, <2>2 DEF Update, RInv, IInv, RowsOK, Elapses, Drifts, KeptRow
  <2>3. QED BY <2>1, <2>2
<1>10. UNCHANGED <<run, effects, unsure>> BY DEF Heartbeat, runnerVars
<1>11. TypesOK' /\ \A s \in Runner : Quiet(s) BY <1>10 DEF RInv, TypesOK, Quiet, Live
<1>12. QED BY <1>4, <1>8, <1>9, <1>10, <1>11, PassKeeps

\* A run marks its event, or calls out behind the mark it sets.
LEMMA MarkKeeps ==
    ASSUME RInv, IInv', TypesOK', NEW r \in Runner, Live(r), NEW d \in Lags, StillHeld(r, d),
           UNCHANGED <<issued, epoch>>,
           NEW row \in Row, row.status = "running", row.token = jobs[run[r].ev].token,
           row.worker = jobs[run[r].ev].worker, row.started, Update(run[r].ev, row),
           \A s \in Runner \ {r} : run'[s] = run[s],
           run'[r].pc # "idle", run'[r].ev = run[r].ev, run'[r].token = run[r].token,
           run'[r].era = run[r].era, run'[r].marked,
           effects' = effects \/ effects' = Logged(effects, r),
           run'[r].pc \in Calling => effects' = Logged(effects, r)
    PROVE  HeldOK' /\ SealOK' /\ CallsOK' /\ OpenOK'
<1> DEFINE e == run[r].ev
           t0 == run[r].token
<1>1. /\ e \in Event /\ Owns(e, WorkerOf[r]) /\ jobs[e].token = t0 /\ t0 \in 1..issued[e]
      /\ run[r].era = epoch[e] /\ t0 \in Nat
      /\ \A t \in Nat : Started(e, t) => t = t0
  BY Holder
<1>2. jobs'[e] = row /\ \A f \in Event \ {e} : jobs'[f] = jobs[f]
  BY <1>1 DEF Update, RInv, IInv, RowsOK
<1>3. Logged(effects, r) = [effects EXCEPT ![e] = @ \cup {t0}] BY <1>1 DEF Logged
<1>4. /\ \A f \in Event \ {e} : effects'[f] = effects[f]
      /\ effects'[e] = effects[e] \/ effects'[e] = effects[e] \cup {t0}
      /\ run'[r].pc \in Calling => t0 \in effects'[e]
  BY <1>1, <1>3 DEF RInv, TypesOK
<1> HIDE DEF e, t0
<1>5. run'[r].ev = e /\ run'[r].token = t0 /\ run[r].ev = e /\ run[r].token = t0 BY DEF e, t0
<1>6. HeldOK'
  <2>1. ASSUME NEW s \in Runner, run'[s].pc # "idle"
        PROVE  LET new == jobs'[run'[s].ev] IN
          /\ run'[s].ev \in Event
          /\ run'[s].token \in 1..issued'[run'[s].ev]
          /\ run'[s].era <= epoch'[run'[s].ev]
          /\ new.status = "running" /\ (new.worker = WorkerOf[s] \/ new.token = run'[s].token) =>
                /\ new.worker = WorkerOf[s] /\ new.token = run'[s].token
                /\ run'[s].era = epoch'[run'[s].ev]
    <3>1. /\ Live(s) /\ run'[s].ev = run[s].ev /\ run'[s].token = run[s].token
          /\ run'[s].era = run[s].era
      BY <2>1 DEF Live
    <3>2. run[s].ev \in Event BY <3>1 DEF RInv, HeldOK
    <3>3. CASE run[s].ev = e BY <1>1, <1>2, <1>5, <3>1, <3>3 DEF RInv, HeldOK, Owns
    <3>4. CASE run[s].ev # e BY <1>2, <3>1, <3>2, <3>4 DEF RInv, HeldOK
    <3>5. QED BY <3>3, <3>4
  <2>2. \A s, u \in Runner :
           run'[s].pc # "idle" /\ run'[u].pc # "idle"
              /\ run'[s].ev = run'[u].ev /\ run'[s].token = run'[u].token => s = u
    BY DEF RInv, HeldOK, Live
  <2>3. QED BY <2>1, <2>2 DEF HeldOK, Live
<1>7. ASSUME NEW f \in Event, NEW t \in Nat, Started(f, t)'
      PROVE  Started(f, t) \/ (f = e /\ t = t0)
  <2>1. CASE t \in effects'[f] BY <1>4, <2>1 DEF Started
  <2>2. CASE \E s \in Runner : Marks(s, f)' /\ run'[s].token = t
    BY <1>5, <2>2 DEF Started, Marks, Live
  <2>3. QED BY <1>7, <2>1, <2>2 DEF Started
<1>8. SealOK'
  <2>1. ASSUME NEW f \in Event, NEW t \in Nat, Started(f, t)'
        PROVE  /\ jobs'[f].status \notin Waiting \cup {"failed"}
               /\ jobs'[f].status = "running" => jobs'[f].token = t /\ jobs'[f].started
    <3>1. CASE f = e
      <4>1. t = t0 BY <1>1, <1>7, <2>1, <3>1
      <4>2. jobs'[f] = row BY <1>1, <1>2, <3>1
      <4>3. row.token = t0 BY <1>1, <1>5
      <4>4. QED BY <4>1, <4>2, <4>3 DEF Waiting
    <3>2. CASE f # e BY <1>2, <1>7, <2>1, <3>2 DEF RInv, SealOK
    <3>3. QED BY <3>1, <3>2
  <2>2. ASSUME NEW f \in Event, NEW t \in Nat, NEW u \in Nat, Started(f, t)', Started(f, u)'
        PROVE  t = u
    <3>1. CASE f = e BY <1>1, <1>7, <2>2, <3>1
    <3>2. CASE f # e BY <1>7, <2>2, <3>2 DEF RInv, SealOK
    <3>3. QED BY <3>1, <3>2
  <2>3. QED BY <2>1, <2>2 DEF SealOK
<1>9. CallsOK'
  <2>1. ASSUME NEW s \in Runner \ {r}, run'[s].pc \in Calling
        PROVE  /\ run'[s].marked
               /\ run'[s].era = epoch'[run'[s].ev] => run'[s].token \in effects'[run'[s].ev]
    <3>1. run'[s] = run[s] /\ Live(s) BY <2>1 DEF Live, Calling
    <3>2. run[s].ev \in Event BY <3>1 DEF RInv, HeldOK
    <3>3. effects[run[s].ev] \subseteq effects'[run[s].ev] BY <1>4, <3>2
    <3>4. QED BY <2>1, <3>1, <3>3 DEF RInv, CallsOK
  <2>2. QED BY <1>4, <1>5, <2>1 DEF CallsOK
<1>10. OpenOK'
  <2>1. ASSUME ~UnknownExpires, NEW s \in Runner, Live(s)', Marks(s, run[s].ev)'
        PROVE  jobs'[run'[s].ev].status \in {"running", "unknown"}
    <3>1. run'[s].ev = run[s].ev BY <2>1 DEF Marks
    <3>2. CASE run[s].ev = e BY <1>1, <1>2, <3>1, <3>2
    <3>3. CASE run[s].ev # e
      <4>1. s # r /\ run'[s] = run[s] BY <1>5, <3>3
      <4>2. Live(s) /\ Marks(s, run[s].ev) /\ run[s].ev \in Event
        BY <2>1, <4>1 DEF Live, Marks, RInv, HeldOK
      <4>3. QED BY <1>2, <2>1, <3>1, <3>3, <4>1, <4>2 DEF RInv, OpenOK
    <3>4. QED BY <3>2, <3>3
  <2>2. QED BY <2>1 DEF OpenOK
<1>11. QED BY <1>6, <1>8, <1>9, <1>10

\* The doubt of a run that holds its job is about its own calls.
LEMMA OwnDoubt ==
    ASSUME RInv, NEW r \in Runner, Live(r), NEW d \in Lags, StillHeld(r, d)
    PROVE  unsure[run[r].ev] \subseteq {run[r].token}
<1>1. run[r].ev \in Event /\ \A t \in Nat : Started(run[r].ev, t) => t = run[r].token BY Holder
<1>2. unsure[run[r].ev] \subseteq effects[run[r].ev] /\ effects[run[r].ev] \subseteq Nat
  BY <1>1 DEF RInv, DoubtOK, TypesOK
<1>3. QED BY <1>1, <1>2 DEF Started

LEMMA MarkStepKeeps ==
    ASSUME RInv, NEW r \in Runner, NEW d \in Lags, Mark(r, d)
    PROVE  RInv'
<1> DEFINE e == run[r].ev
<1>t. TypesOK BY DEF RInv
<1>1. Live(r) BY DEF Mark, Working, Live
<1>2. CASE ~StillHeld(r, d) /\ Raises(r) /\ UNCHANGED storeVars
  BY <1>t, <1>1, <1>2, RaisesQuiet, AsideKeeps DEF Mark
<1>3. CASE /\ IF IsFenced(e) THEN MarkFencedStarted(e, WorkerOf[r], run[r].token, d)
                             ELSE MarkSideEffectStarted(e, WorkerOf[r])
           /\ run' = [run EXCEPT ![r].marked = TRUE]
  <2>1. StillHeld(r, d) BY <1>3 DEF StillHeld, MarkFencedStarted, MarkSideEffectStarted
  <2>2. e \in Event /\ jobs[e] \in Row /\ Owns(e, WorkerOf[r]) BY <1>1, <2>1, Holder
  <2> DEFINE row == [jobs[e] EXCEPT !.started = TRUE]
  <2>3. Update(e, row) /\ UNCHANGED <<issued, epoch>>
    BY <1>3 DEF MarkFencedStarted, MarkSideEffectStarted
  <2>4. /\ row \in Row /\ row.status = "running" /\ row.token = jobs[e].token
        /\ row.worker = jobs[e].worker /\ row.started /\ row.seq = jobs[e].seq
        /\ row.attempt = jobs[e].attempt /\ row.inflight = jobs[e].inflight
        /\ row.uncertain = jobs[e].uncertain
    BY <2>2 DEF Row, Owns
  <2> HIDE DEF row
  <2>5. IInv' BY <2>2, <2>3, <2>4, TouchOK DEF RInv, Owns
  <2>6. UNCHANGED <<effects, unsure>> BY DEF Mark
  <2>7. /\ run' \in [Runner -> Run] /\ \A s \in Runner \ {r} : run'[s] = run[s]
        /\ run'[r].pc = "active" /\ run'[r].ev = e /\ run'[r].token = run[r].token
        /\ run'[r].era = run[r].era /\ run'[r].marked = TRUE
    BY <1>t, <1>3 DEF TypesOK, Run, Mark, Working
  <2>8. TypesOK' BY <1>t, <2>6, <2>7 DEF TypesOK
  <2>9. HeldOK' /\ SealOK' /\ CallsOK' /\ OpenOK'
    BY <1>1, <2>1, <2>3, <2>4, <2>5, <2>6, <2>7, <2>8, MarkKeeps DEF Calling
  <2>10. DoubtOK'
    <3>1. jobs'[e] = row /\ \A f \in Event \ {e} : jobs'[f] = jobs[f]
      BY <2>2, <2>3 DEF Update, RInv, IInv, RowsOK
    <3>2. jobs[e].status = "running" BY <2>2 DEF Owns
    <3>3. QED BY <2>2, <2>4, <2>6, <3>1, <3>2 DEF RInv, DoubtOK, IsFenced
  <2>11. QED BY <2>5, <2>8, <2>9, <2>10 DEF RInv
<1>4. QED BY <1>2, <1>3 DEF Mark

LEMMA CallBareKeeps ==
    ASSUME RInv, NEW r \in Runner, CallBare(r)
    PROVE  RInv'
<1> DEFINE e == run[r].ev
<1>t. TypesOK BY DEF RInv
<1>1. Live(r) /\ run[r].marked BY DEF CallBare, Working, Live
<1>2. /\ IInv' /\ UNCHANGED <<issued, epoch, unsure>>
      /\ \A f \in Event : Elapses(jobs[f], jobs'[f]) /\ jobs'[f] = jobs[f]
  BY StoreStays DEF CallBare, RInv, storeVars
<1>3. e \in Event /\ run[r].token \in Nat BY <1>t, <1>1 DEF RInv, HeldOK, TypesOK, Run
<1>4. /\ run' \in [Runner -> Run] /\ \A s \in Runner \ {r} : run'[s] = run[s]
      /\ run'[r].pc = "bare" /\ run'[r].ev = e /\ run'[r].token = run[r].token
      /\ run'[r].era = run[r].era /\ run'[r].marked
  <2>1. run[r].calls + 1 \in 0..MaxCalls /\ "bare" \in Pc
    BY <1>t, RunnerAssumption DEF CallBare, TypesOK, Run, Pc, Handling
  <2> DEFINE new == [run[r] EXCEPT !.pc = "bare", !.calls = @ + 1]
  <2>2. new \in Run BY <1>t, <2>1 DEF TypesOK, Run
  <2>3. run' = [run EXCEPT ![r] = new] BY <1>t DEF CallBare, TypesOK, Run
  <2>4. QED BY <1>t, <1>1, <2>2, <2>3 DEF TypesOK, Run
<1>5. /\ effects' \in [Event -> SUBSET Nat]
      /\ \A f \in Event : effects[f] \subseteq effects'[f]
      /\ \A f \in Event : effects'[f] = effects[f]
            \/ (f = e /\ run[r].era = epoch[e] /\ effects'[f] = effects[f] \cup {run[r].token})
      /\ run[r].era = epoch[e] => run[r].token \in effects'[e]
  BY <1>t, <1>3 DEF CallBare, Logged, TypesOK
<1>6. TypesOK' BY <1>t, <1>2, <1>4, <1>5 DEF TypesOK
<1> HIDE DEF e
<1>7. ASSUME NEW f \in Event, NEW t \in Nat, Started(f, t)'
      PROVE  Started(f, t)
  <2>1. CASE t \in effects'[f]
    <3>1. CASE t \in effects[f] BY <3>1 DEF Started
    <3>2. CASE f = e /\ run[r].era = epoch[e] /\ t = run[r].token
      BY <1>1, <3>2 DEF Started, Marks, e
    <3>3. QED BY <1>5, <2>1, <3>1, <3>2
  <2>2. CASE \E s \in Runner : Marks(s, f)' /\ run'[s].token = t
    BY <1>1, <1>2, <1>4, <2>2 DEF Started, Marks, Live, e
  <2>3. QED BY <1>7, <2>1, <2>2 DEF Started
<1>8. SealOK' BY <1>2, <1>7 DEF RInv, SealOK
<1>9. HeldOK'
  <2>1. \A s \in Runner : /\ run'[s].pc # "idle" <=> Live(s)
                          /\ run'[s].ev = run[s].ev /\ run'[s].token = run[s].token
                          /\ run'[s].era = run[s].era
    BY <1>1, <1>4 DEF Live, e
  <2>2. \A s \in Runner : Live(s) => run[s].ev \in Event BY DEF RInv, HeldOK
  <2>3. QED BY <1>2, <2>1, <2>2 DEF RInv, HeldOK, Live
<1>10. CallsOK'
  <2>1. \A s \in Runner \ {r} : run'[s].pc \in Calling =>
            run'[s] = run[s] /\ effects[run[s].ev] \subseteq effects'[run[s].ev]
    BY <1>4, <1>5 DEF RInv, HeldOK, Live, Calling
  <2>2. QED BY <1>2, <1>4, <1>5, <2>1, SMTT(30) DEF RInv, CallsOK
<1>11. OpenOK'
  <2>1. \A s \in Runner : Live(s)' /\ Marks(s, run[s].ev)' => Live(s) /\ Marks(s, run[s].ev)
                            /\ run'[s].ev = run[s].ev /\ run[s].ev \in Event
    BY <1>1, <1>2, <1>4 DEF Live, Marks, RInv, HeldOK, e
  <2>2. \A s \in Runner : run'[s].ev = run[s].ev BY <1>4 DEF e
  <2>3. QED BY <1>2, <2>1, <2>2 DEF RInv, OpenOK
<1>12. DoubtOK' BY <1>2, <1>5 DEF RInv, DoubtOK, IsFenced
<1>13. QED BY <1>2, <1>6, <1>8, <1>9, <1>10, <1>11, <1>12 DEF RInv

\* A bracketed call begins: the row counts it before anything is in doubt.
LEMMA CallBracketedKeeps ==
    ASSUME RInv, NEW r \in Runner, NEW d \in Lags, CallBracketed(r, d)
    PROVE  RInv'
<1> DEFINE e == run[r].ev
<1>t. TypesOK BY DEF RInv
<1>1. Live(r) /\ IsFenced(e) BY DEF CallBracketed, Working, Live
<1>2. CASE /\ ~StillHeld(r, d)
           /\ Raises(r)
           /\ UNCHANGED <<storeVars, effects, unsure>>
  BY <1>t, <1>1, <1>2, RaisesQuiet, AsideKeeps
<1>3. CASE /\ BeginEffect(e, WorkerOf[r], run[r].token, d)
           /\ run' = [run EXCEPT ![r].pc = "bracket", ![r].calls = @ + 1, ![r].marked = TRUE]
           /\ effects' = Logged(effects, r)
           /\ unsure' = Logged(unsure, r)
  <2>1. StillHeld(r, d) BY <1>1, <1>3 DEF StillHeld, BeginEffect
  <2>2. /\ e \in Event /\ jobs[e] \in Row /\ Owns(e, WorkerOf[r])
        /\ run[r].era = epoch[e] /\ run[r].token \in Nat
    BY <1>1, <2>1, Holder
  <2> DEFINE row == [jobs[e] EXCEPT !.inflight = @ + 1, !.started = TRUE]
  <2>3. Update(e, row) /\ UNCHANGED <<issued, epoch>> BY <1>3 DEF BeginEffect
  <2>4. /\ row \in Row /\ row.status = "running" /\ row.token = jobs[e].token
        /\ row.worker = jobs[e].worker /\ row.started /\ row.seq = jobs[e].seq
        /\ row.attempt = jobs[e].attempt /\ row.inflight > 0
    <3> DEFINE more == jobs[e].inflight + 1
    <3>1. more \in Nat /\ more > 0 BY <2>2 DEF Row
    <3> HIDE DEF more
    <3>2. row = [jobs[e] EXCEPT !.inflight = more, !.started = TRUE] BY <2>2 DEF Row, more
    <3>3. QED BY <2>2, <3>1, <3>2 DEF Row, Owns
  <2> HIDE DEF row
  <2>5. IInv' BY <2>2, <2>3, <2>4, TouchOK DEF RInv, Owns
  <2>6. /\ run' \in [Runner -> Run] /\ \A s \in Runner \ {r} : run'[s] = run[s]
        /\ run'[r].pc = "bracket" /\ run'[r].ev = e /\ run'[r].token = run[r].token
        /\ run'[r].era = run[r].era /\ run'[r].marked = TRUE
    <3>1. run[r].calls + 1 \in 0..MaxCalls /\ "bracket" \in Pc
      BY <1>t, RunnerAssumption DEF CallBracketed, TypesOK, Run, Pc, Handling
    <3> DEFINE new == [run[r] EXCEPT !.pc = "bracket", !.calls = @ + 1, !.marked = TRUE]
    <3>2. new \in Run BY <1>t, <3>1 DEF TypesOK, Run
    <3>3. run' = [run EXCEPT ![r] = new] BY <1>t, <1>3 DEF TypesOK, Run
    <3>4. QED BY <1>t, <3>2, <3>3 DEF TypesOK, Run
  <2>7. /\ effects' = [effects EXCEPT ![e] = @ \cup {run[r].token}]
        /\ unsure' = [unsure EXCEPT ![e] = @ \cup {run[r].token}]
    BY <1>3, <2>2 DEF Logged
  <2>8. TypesOK' BY <1>t, <2>2, <2>6, <2>7 DEF TypesOK
  <2>9. HeldOK' /\ SealOK' /\ CallsOK' /\ OpenOK'
    BY <1>1, <1>3, <2>1, <2>3, <2>4, <2>5, <2>6, <2>8, MarkKeeps
  <2>10. DoubtOK'
    <3>1. jobs'[e] = row /\ \A f \in Event \ {e} : jobs'[f] = jobs[f]
      BY <2>2, <2>3 DEF Update, RInv, IInv, RowsOK
    <3>2. /\ unsure'[e] \subseteq effects'[e]
          /\ \A f \in Event \ {e} : unsure'[f] = unsure[f] /\ effects'[f] = effects[f]
      BY <1>t, <2>2, <2>7 DEF TypesOK, RInv, DoubtOK
    <3>3. QED BY <2>4, <3>1, <3>2 DEF RInv, DoubtOK, IsFenced
  <2>11. QED BY <2>5, <2>8, <2>9, <2>10 DEF RInv
<1>4. QED BY <1>2, <1>3 DEF CallBracketed

\* A bracketed call ends: either nothing of the run is in doubt, or the row says so.
LEMMA EffectEnds ==
    ASSUME RInv, NEW r \in Runner, Live(r), NEW d \in Lags, NEW u \in BOOLEAN,
           EndEffect(run[r].ev, WorkerOf[r], run[r].token, u, d),
           run' \in [Runner -> Run], \A s \in Runner : Quiet(s), UNCHANGED effects,
           \/ u /\ UNCHANGED unsure
           \/ unsure' = [unsure EXCEPT ![run[r].ev] = @ \ {run[r].token}]
    PROVE  RInv'
<1> DEFINE e == run[r].ev
<1>1. StillHeld(r, d) BY DEF StillHeld, EndEffect, Holds
<1>2. e \in Event /\ jobs[e] \in Row /\ Owns(e, WorkerOf[r]) /\ run[r].token \in Nat
  BY <1>1, Holder
<1> DEFINE row == [jobs[e] EXCEPT !.inflight = @ - 1, !.uncertain = @ \/ u]
<1>3. Update(e, row) /\ UNCHANGED <<issued, epoch>> /\ jobs[e].inflight > 0 BY DEF EndEffect
<1>4. row \in Row
  <2>1. jobs[e].inflight - 1 \in Nat BY <1>2, <1>3 DEF Row
  <2>2. (jobs[e].uncertain \/ u) \in BOOLEAN OBVIOUS
  <2> DEFINE left == jobs[e].inflight - 1
             doubt == jobs[e].uncertain \/ u
  <2> HIDE DEF left, doubt
  <2>3. [jobs[e] EXCEPT !.inflight = left, !.uncertain = doubt] \in Row
    BY <1>2, <2>1, <2>2 DEF Row, left, doubt
  <2>4. QED BY <2>3 DEF left, doubt
<1>5. /\ row.status = "running" /\ row.seq = jobs[e].seq /\ row.attempt = jobs[e].attempt
      /\ KeptRow(jobs[e], row)
  BY <1>2 DEF Row, Owns, KeptRow
<1>6. u => row.uncertain BY <1>2 DEF Row
<1> HIDE DEF row
<1>7. IInv' BY <1>2, <1>3, <1>4, <1>5, TouchOK DEF RInv, Owns
<1>8. jobs'[e] = row /\ \A f \in Event \ {e} : jobs'[f] = jobs[f]
  BY <1>2, <1>3 DEF Update, RInv, IInv, RowsOK
<1>9. \A f \in Event : Drifts(jobs[f], jobs'[f])
  BY <1>5, <1>8 DEF Drifts, KeptRow
<1>10. HeldOK' /\ SealOK' /\ CallsOK' BY <1>3, <1>9, QuietKeeps
<1>11. \A f \in Event : jobs'[f].status = jobs[f].status BY <1>5, <1>8 DEF KeptRow
<1>12. OpenOK' BY <1>3, <1>9, <1>11, OpenKeeps
<1>13. /\ \A f \in Event \ {e} : unsure'[f] = unsure[f]
       /\ unsure'[e] \subseteq unsure[e]
       /\ u \/ unsure'[e] = {}
  BY <1>1, <1>2, OwnDoubt DEF RInv, TypesOK
<1>14. TypesOK'
  <2>1. unsure' \in [Event -> SUBSET Nat] BY <1>2 DEF RInv, TypesOK
  <2>2. QED BY <2>1 DEF RInv, TypesOK
<1> HIDE DEF e
<1>15. DoubtOK'
  <2>1. \A f \in Event : unsure'[f] \subseteq effects'[f] BY <1>13 DEF RInv, DoubtOK
  <2>2. ASSUME NEW f \in Event, IsFenced(f), unsure'[f] # {}
        PROVE  /\ jobs'[f].status # "completed"
               /\ jobs'[f].status = "running" => jobs'[f].inflight > 0 \/ jobs'[f].uncertain
    <3>1. CASE f = e BY <1>5, <1>6, <1>8, <1>13, <2>2, <3>1
    <3>2. CASE f # e BY <1>8, <1>13, <2>2, <3>2 DEF RInv, DoubtOK
    <3>3. QED BY <3>1, <3>2
  <2>3. QED BY <2>1, <2>2 DEF DoubtOK, IsFenced
<1>16. QED BY <1>7, <1>10, <1>12, <1>14, <1>15 DEF RInv

LEMMA BracketEndsKeep ==
    ASSUME RInv, NEW r \in Runner, NEW d \in Lags, BracketReturns(r, d) \/ BracketRaises(r, d)
    PROVE  RInv'
<1>t. TypesOK BY DEF RInv
<1>1. Live(r) BY DEF BracketReturns, BracketRaises, Live
<1>2. run[r].ev \in Event BY <1>1 DEF RInv, HeldOK
<1>3. CASE UNCHANGED <<storeVars, effects, unsure>> /\ Raises(r)
  BY <1>t, <1>1, <1>3, RaisesQuiet, AsideKeeps
<1>4. CASE /\ EndEffect(run[r].ev, WorkerOf[r], run[r].token, FALSE, d) /\ Goto(r, "active")
           /\ unsure' = IF run[r].era = epoch[run[r].ev]
                        THEN [unsure EXCEPT ![run[r].ev] = @ \ {run[r].token}] ELSE unsure
           /\ UNCHANGED effects
  <2>1. run[r].era = epoch[run[r].ev]
    BY <1>1, <1>4, Holder DEF StillHeld, EndEffect, Holds
  <2>2. run' \in [Runner -> Run] /\ \A s \in Runner : Quiet(s)
    BY <1>t, <1>1, <1>4, GotoQuiet DEF Pc, Handling, Calling
  <2>3. QED BY <1>1, <1>4, <2>1, <2>2, EffectEnds
<1>5. CASE /\ EndEffect(run[r].ev, WorkerOf[r], run[r].token, TRUE, d) /\ Raises(r)
           /\ UNCHANGED <<effects, unsure>>
  BY <1>t, <1>1, <1>5, RaisesQuiet, EffectEnds
<1>6. QED BY <1>3, <1>4, <1>5 DEF BracketReturns, BracketRaises

\* A run gives its job up with the status it settles for.
LEMMA ReleaseKeeps ==
    ASSUME RInv, NEW r \in Runner, Live(r), NEW d \in Lags, StillHeld(r, d),
           NEW st \in Status, NEW avail \in Int,
           \/ st \in {"completed", "unknown"}
           \/ st = RetryOrFail(jobs[run[r].ev]) /\ ~jobs[run[r].ev].started,
           st = "completed" /\ IsFenced(run[r].ev) =>
               jobs[run[r].ev].inflight = 0 /\ ~jobs[run[r].ev].uncertain,
           Update(run[r].ev, Released(jobs[run[r].ev], st, avail, d)),
           GiveUp(r), UNCHANGED <<issued, epoch, effects, unsure>>
    PROVE  RInv'
<1> DEFINE e == run[r].ev
<1>1. /\ e \in Event /\ jobs[e] \in Row /\ jobs[e].status = "running"
      /\ jobs[e].token = run[r].token
  BY Holder DEF Owns
<1>2. d \in Nat BY StoreAssumption DEF Lags
<1>3. IInv' BY <1>1, <1>2, ReleaseOK DEF RInv
<1>4. jobs'[e].status = st /\ \A f \in Event \ {e} : jobs'[f] = jobs[f]
  BY <1>1, <1>2, ReleaseLeaves DEF Update, RInv, IInv, RowsOK
<1>5. st # "running" BY DEF RetryOrFail
<1>6. \A f \in Event : Drifts(jobs[f], jobs'[f])
  BY <1>1, <1>4 DEF Drifts, KeptRow, Left, RetryOrFail
<1>7. run' \in [Runner -> Run] /\ run'[r].pc = "idle" /\ \A s \in Runner : Quiet(s)
  BY GiveUpQuiet, IdleRun DEF RInv
<1>8. TypesOK' BY <1>7 DEF RInv, TypesOK
<1>9. HeldOK' /\ SealOK' /\ CallsOK' BY <1>6, <1>7, QuietKeeps
<1>10. OpenOK'
  <2>1. ASSUME NEW f \in Event, jobs[f].status = "running", jobs'[f].status = "completed",
               NEW s \in Runner, run'[s].pc # "idle", run[s].ev = f
        PROVE  run[s].token # jobs[f].token
    <3>1. f = e BY <1>4, <2>1
    <3>2. s # r /\ Live(s) BY <1>7, <2>1 DEF Quiet
    <3>3. QED BY <1>1, <2>1, <3>1, <3>2 DEF RInv, HeldOK
  <2>2. QED BY <1>6, <1>7, <2>1, OpenKeeps
<1>11. DoubtOK'
  <2>1. \A f \in Event : jobs'[f].status = "running" =>
            jobs'[f].inflight = jobs[f].inflight /\ jobs'[f].uncertain = jobs[f].uncertain
    BY <1>4, <1>5
  <2>2. \A f \in Event : jobs[f].status = "running" /\ jobs'[f].status = "completed" /\ IsFenced(f) =>
            jobs[f].inflight = 0 /\ ~jobs[f].uncertain
    BY <1>4
  <2>3. QED BY <1>6, <2>1, <2>2, DoubtKeeps
<1>12. QED BY <1>3, <1>8, <1>9, <1>10, <1>11 DEF RInv

LEMMA DelayType == ASSUME NEW e PROVE Delay(e) \in Int
BY StoreAssumption DEF Delay

LEMMA SettleKeeps ==
    ASSUME RInv, NEW r \in Runner, NEW d \in Lags, Settle(r, d)
    PROVE  RInv'
<1> DEFINE e == run[r].ev
           row == jobs[e]
<1>t. TypesOK BY DEF RInv
<1>d. d \in Int /\ Delay(e) - d \in Int BY DelayType, StoreAssumption DEF Lags
<1>1. Live(r) /\ GiveUp(r) /\ UNCHANGED <<effects, unsure>>
  BY DEF Settle, SettleReturned, SettleSuperseded, SettleFailure, SettleRefused, Live
<1>2. CASE SettleRefused(r, d)
  BY <1>t, <1>1, <1>2, GiveUpQuiet, AsideKeeps DEF SettleRefused
<1>3. ASSUME NEW st \in Status, NEW avail \in Int, StillHeld(r, d),
             \/ st \in {"completed", "unknown"}
             \/ st = RetryOrFail(row) /\ ~row.started,
             st = "completed" /\ IsFenced(e) => row.inflight = 0 /\ ~row.uncertain,
             Update(e, Released(row, st, avail, d)), UNCHANGED <<issued, epoch>>
      PROVE  RInv'
  BY <1>1, <1>3, ReleaseKeeps
<1>4. {"completed", "unknown"} \subseteq Status BY DEF Status
<1>5. StillHeld(r, d) => e \in Event /\ row \in Row BY <1>1, Holder
<1>6. CASE FinishFenced(e, WorkerOf[r], run[r].token, d)
  <2>1. StillHeld(r, d) BY <1>6 DEF FinishFenced, StillHeld, Holds
  <2>2. row.inflight \in Nat BY <1>5, <2>1 DEF Row
  <2>3. CASE row.inflight > 0 \/ row.uncertain
    <3>1. Update(e, Released(row, "unknown", 0, d)) BY <1>6, <2>3 DEF FinishFenced
    <3>2. QED BY <1>3, <1>4, <1>6, <2>1, <3>1 DEF FinishFenced
  <2>4. CASE ~(row.inflight > 0 \/ row.uncertain)
    <3>1. Update(e, Released(row, "completed", 0, d)) BY <1>6, <2>4 DEF FinishFenced
    <3>2. QED BY <1>3, <1>4, <1>6, <2>1, <2>2, <2>4, <3>1 DEF FinishFenced
  <2>5. QED BY <2>3, <2>4
<1>7. CASE ~IsFenced(e) /\ Complete(e, WorkerOf[r], d)
  <2>1. StillHeld(r, d) BY <1>7 DEF Complete, StillHeld
  <2>2. QED BY <1>3, <1>4, <1>7, <2>1 DEF Complete
<1>8. CASE ~IsFenced(e) /\ MarkUnknown(e, WorkerOf[r], d)
  <2>1. StillHeld(r, d) BY <1>8 DEF MarkUnknown, StillHeld
  <2>2. QED BY <1>3, <1>4, <1>8, <2>1 DEF MarkUnknown
<1>9. CASE ~IsFenced(e) /\ Retry(e, WorkerOf[r], Delay(e), d)
  <2>1. StillHeld(r, d) BY <1>9 DEF Retry, StillHeld
  <2>2. RetryOrFail(row) \in Status /\ RetryOrFail(row) # "completed"
    BY DEF RetryOrFail, Status, Waiting
  <2>3. QED BY <1>d, <1>3, <1>9, <2>1, <2>2 DEF Retry
<1>10. CASE FailFenced(e, WorkerOf[r], run[r].token, Delay(e), d)
  <2>1. StillHeld(r, d) BY <1>10 DEF FailFenced, StillHeld, Holds
  <2>2. CASE row.started \/ row.inflight > 0 \/ row.uncertain
    <3>1. Update(e, Released(row, "unknown", Delay(e) - d, d)) BY <1>10, <2>2 DEF FailFenced
    <3>2. QED BY <1>d, <1>3, <1>4, <1>10, <2>1, <3>1 DEF FailFenced
  <2>3. CASE ~(row.started \/ row.inflight > 0 \/ row.uncertain)
    <3>1. Update(e, Released(row, RetryOrFail(row), Delay(e) - d, d))
      BY <1>10, <2>3 DEF FailFenced
    <3>2. RetryOrFail(row) \in Status /\ RetryOrFail(row) # "completed"
      BY DEF RetryOrFail, Status, Waiting
    <3>3. QED BY <1>d, <1>3, <1>10, <2>1, <2>3, <3>1, <3>2 DEF FailFenced
  <2>4. QED BY <2>2, <2>3
<1>11. QED
  BY <1>2, <1>6, <1>7, <1>8, <1>9, <1>10
  DEF Settle, SettleReturned, SettleSuperseded, SettleFailure

-----------------------------------------------------------------------------
(* A run takes a job *)

LEMMA StartNothingKeeps ==
    ASSUME RInv, NEW r \in Runner, NEW d \in Lags, StartNothing(r, d)
    PROVE  RInv'
<1>1. d \in Nat /\ ClaimNone(d, 0) BY StoreAssumption DEF Lags, StartNothing
<1>2. IInv' BY <1>1, ClaimNoneOK DEF RInv
<1>3. \A e \in Event : Elapses(jobs[e], jobs'[e])
  BY <1>1, SweepElapses DEF ClaimNone, RInv, IInv
<1>4. UNCHANGED <<run, effects, unsure, issued, epoch>>
  BY <1>1 DEF StartNothing, runnerVars, ClaimNone
<1>5. TypesOK' /\ \A s \in Runner : Quiet(s) BY <1>4 DEF RInv, TypesOK, Quiet, Live
<1>6. QED BY <1>2, <1>3, <1>4, <1>5, PassKeeps

\* What is claimed was not started in this epoch, and its token is a new one.
LEMMA StartJobKeeps ==
    ASSUME RInv, NEW r \in Runner, NEW e \in Event, NEW d \in Lags, StartJob(r, e, d)
    PROVE  RInv'
<1> DEFINE js == Swept(d)
           row == Leased(js[e], WorkerOf[r], issued[e] + 1, d)
<1>t. TypesOK /\ IInv /\ RowsOK /\ CountersOK BY DEF RInv, IInv
<1>1. /\ d \in Nat /\ run[r].pc = "idle" /\ ClaimJob(WorkerOf[r], e, d, 0)
      /\ WorkerOf[r] \in Worker
  BY StoreAssumption, RunnerAssumption DEF Lags, StartJob
<1>2. IInv' BY <1>t, <1>1, ClaimJobOK
<1>3. /\ js \in [Event -> Row] /\ RowOK(js[e])
      /\ \A f \in Event : Elapses(jobs[f], js[f])
  BY <1>t, <1>1, SweptOK, SweepElapses
<1>4. /\ js[e].status \in Waiting
      /\ jobs' = [js EXCEPT ![e] = row] /\ issued' = [issued EXCEPT ![e] = @ + 1]
      /\ UNCHANGED epoch
  BY <1>1 DEF ClaimJob, Claimable
<1>5. ~js[e].started BY <1>3, <1>4 DEF RowOK
<1>6. \A t \in Nat : ~Started(e, t)
  <2>1. \/ jobs[e].status \in Waiting
        \/ jobs[e].status = "running" /\ ~jobs[e].started
    BY <1>3, <1>4 DEF Elapses, Drifts, KeptRow, Left, Dropped, Waiting
  <2>2. QED BY <2>1 DEF RInv, SealOK
<1>7. row.status = "running" /\ row.worker = WorkerOf[r] /\ row.token = issued[e] + 1
      /\ row.started = FALSE
  BY <1>3, <1>5 DEF Leased, Row
<1>8. /\ jobs'[e] = row /\ \A f \in Event \ {e} : Elapses(jobs[f], jobs'[f])
      /\ issued[e] \in Nat /\ issued'[e] = issued[e] + 1
      /\ \A f \in Event \ {e} : issued'[f] = issued[f]
  BY <1>t, <1>3, <1>4 DEF CountersOK
<1> HIDE DEF row, js
<1>9. /\ run' \in [Runner -> Run] /\ \A s \in Runner \ {r} : run'[s] = run[s]
      /\ run'[r].pc \in {"precheck", "active"} /\ run'[r].ev = e
      /\ run'[r].token = issued[e] + 1 /\ run'[r].era = epoch[e] /\ run'[r].marked = FALSE
  <2> DEFINE pc == IF e \in Private THEN "precheck" ELSE "active"
             era == epoch[e]
             token == issued'[e]
             marked == jobs'[e].started
             new == [Idle EXCEPT !.pc = pc, !.ev = e, !.token = token, !.era = era,
                                 !.marked = marked]
  <2>1. run' = [run EXCEPT ![r] = new] BY DEF StartJob
  <2>2. /\ pc \in Pc /\ pc \in {"precheck", "active"} /\ token \in Nat /\ era \in Nat
        /\ marked = FALSE
    BY <1>t, <1>7, <1>8 DEF Pc, Handling, CountersOK
  <2> HIDE DEF pc, era, token, marked
  <2>3. new \in Run BY <2>2, IdleRun DEF Run
  <2>4. new.pc = pc /\ new.ev = e /\ new.token = token /\ new.era = era /\ new.marked = marked
    BY IdleRun DEF Run
  <2> HIDE DEF new
  <2>5. QED BY <1>t, <1>8, <2>1, <2>2, <2>3, <2>4 DEF TypesOK, era, token
<1>10. UNCHANGED <<effects, unsure>> BY DEF StartJob
<1>11. TypesOK' BY <1>t, <1>9, <1>10 DEF TypesOK
<1>12. \A s \in Runner \ {r} : Live(s)' =>
          /\ Live(s) /\ run[s].ev \in Event /\ run[s].token \in 1..issued[run[s].ev]
          /\ run[s].token \in Nat
  BY <1>t, <1>9 DEF Live, RInv, HeldOK, TypesOK, Run
<1>13. HeldOK'
  <2>1. ASSUME NEW s \in Runner, Live(s)'
        PROVE  LET new == jobs'[run'[s].ev] IN
          /\ run'[s].ev \in Event
          /\ run'[s].token \in 1..issued'[run'[s].ev]
          /\ run'[s].era <= epoch'[run'[s].ev]
          /\ new.status = "running" /\ (new.worker = WorkerOf[s] \/ new.token = run'[s].token) =>
                /\ new.worker = WorkerOf[s] /\ new.token = run'[s].token
                /\ run'[s].era = epoch'[run'[s].ev]
    <3>1. CASE s = r BY <1>t, <1>4, <1>7, <1>8, <1>9, <3>1 DEF CountersOK
    <3>2. CASE s # r /\ run[s].ev = e
      <4>1. run[s].token < issued[e] + 1 /\ run[s].token \in 1..issued'[e]
        BY <1>8, <1>12, <2>1, <3>2
      <4>2. WorkerOf[s] # WorkerOf[r] BY <3>2, RunnerAssumption
      <4>3. run[s].token # row.token /\ row.worker # WorkerOf[s] BY <1>7, <1>8, <1>12, <2>1, <3>2, <4>1, <4>2
      <4>4. QED BY <1>4, <1>8, <1>9, <1>12, <2>1, <3>2, <4>1, <4>3 DEF RInv, HeldOK
    <3>3. CASE s # r /\ run[s].ev # e
      <4>1. run'[s] = run[s] /\ Drifts(jobs[run[s].ev], jobs'[run[s].ev])
        BY <1>8, <1>9, <1>12, <2>1, <3>3 DEF Elapses
      <4>2. QED
        BY <1>4, <1>8, <1>12, <2>1, <3>3, <4>1 DEF RInv, HeldOK, Drifts, KeptRow, Left, Dropped
    <3>4. QED BY <3>1, <3>2, <3>3
  <2>2. ASSUME NEW s \in Runner, NEW u \in Runner, Live(s)', Live(u)',
               run'[s].ev = run'[u].ev, run'[s].token = run'[u].token
        PROVE  s = u
    <3>1. \A v \in Runner \ {r} : Live(v)' /\ run'[v].ev = e => run'[v].token # issued[e] + 1
      BY <1>8, <1>9, <1>12
    <3>2. CASE s = r \/ u = r BY <1>9, <2>2, <3>1, <3>2
    <3>3. CASE s # r /\ u # r BY <1>9, <1>12, <2>2, <3>3 DEF RInv, HeldOK
    <3>4. QED BY <3>2, <3>3
  <2>3. QED BY <2>1, <2>2 DEF HeldOK
<1>14. ASSUME NEW f \in Event, NEW t \in Nat, Started(f, t)'
       PROVE  Started(f, t) /\ f # e
  <2>1. Started(f, t)
    <3>1. CASE t \in effects'[f] BY <1>10, <3>1 DEF Started
    <3>2. CASE \E s \in Runner : Marks(s, f)' /\ run'[s].token = t
      BY <1>4, <1>9, <3>2 DEF Started, Marks, Live
    <3>3. QED BY <1>14, <3>1, <3>2 DEF Started
  <2>2. QED BY <1>6, <2>1
<1>15. SealOK'
  <2>1. ASSUME NEW f \in Event, NEW t \in Nat, Started(f, t)'
        PROVE  /\ jobs'[f].status \notin Waiting \cup {"failed"}
               /\ jobs'[f].status = "running" => jobs'[f].token = t /\ jobs'[f].started
    <3>1. /\ jobs[f].status \notin Waiting \cup {"failed"}
          /\ jobs[f].status = "running" => jobs[f].token = t /\ jobs[f].started
      BY <1>14, <2>1 DEF RInv, SealOK
    <3>2. Drifts(jobs[f], jobs'[f]) BY <1>8, <1>14, <2>1 DEF Elapses
    <3>3. QED BY <3>1, <3>2 DEF Drifts, KeptRow, Left, Dropped, Waiting
  <2>2. \A f \in Event, t, u \in Nat : Started(f, t)' /\ Started(f, u)' => t = u
    BY <1>14 DEF RInv, SealOK
  <2>3. QED BY <2>1, <2>2 DEF SealOK
<1>16. CallsOK' BY <1>4, <1>9, <1>10 DEF RInv, CallsOK, Calling
<1>17. OpenOK'
  <2>1. ASSUME ~UnknownExpires, NEW s \in Runner, Live(s)', Marks(s, run[s].ev)'
        PROVE  jobs'[run'[s].ev].status \in {"running", "unknown"}
    <3>1. s # r /\ run'[s] = run[s] BY <1>9, <2>1 DEF Marks
    <3>2. Live(s) /\ Marks(s, run[s].ev) /\ run[s].ev \in Event /\ run[s].token \in Nat
      BY <1>4, <1>12, <2>1, <3>1 DEF Marks, Live
    <3>3. Started(run[s].ev, run[s].token) BY <3>2 DEF Started
    <3>4. run[s].ev # e BY <1>6, <3>2, <3>3
    <3>5. /\ jobs[run[s].ev].status \in {"running", "unknown"}
          /\ jobs[run[s].ev].status = "running" => jobs[run[s].ev].started
      BY <2>1, <3>2, <3>3 DEF RInv, OpenOK, SealOK
    <3>6. Elapses(jobs[run[s].ev], jobs'[run[s].ev]) BY <1>8, <3>2, <3>4
    <3>7. QED BY <2>1, <3>1, <3>5, <3>6 DEF Elapses, Drifts, KeptRow, Left, Dropped
  <2>2. \A s \in Runner : Live(s)' /\ Marks(s, run[s].ev)' =>
            run'[s].ev = run[s].ev
    BY <1>9 DEF Marks
  <2>3. QED BY <2>1, <2>2 DEF OpenOK
<1>18. DoubtOK'
  <2>1. unsure[e] = {}
    <3>1. effects[e] = {} BY <1>t, <1>6 DEF Started, TypesOK
    <3>2. QED BY <3>1 DEF RInv, DoubtOK
  <2>2. ASSUME NEW f \in Event, IsFenced(f), unsure[f] # {}
        PROVE  /\ jobs'[f].status # "completed"
               /\ jobs'[f].status = "running" => jobs'[f].inflight > 0 \/ jobs'[f].uncertain
    <3>1. f # e BY <2>1, <2>2
    <3>2. Elapses(jobs[f], jobs'[f]) BY <1>8, <3>1
    <3>3. /\ jobs[f].status # "completed"
          /\ jobs[f].status = "running" => jobs[f].inflight > 0 \/ jobs[f].uncertain
      BY <2>2 DEF RInv, DoubtOK
    <3>4. QED BY <3>2, <3>3 DEF Elapses, Drifts, KeptRow, Left, Dropped
  <2>3. QED BY <1>10, <2>2 DEF RInv, DoubtOK, IsFenced
<1>19. QED BY <1>2, <1>11, <1>13, <1>15, <1>16, <1>17, <1>18 DEF RInv

-----------------------------------------------------------------------------
(* Deliveries, operators and time *)

\* A new epoch begins: nothing was started in it, and older runs are past it.
LEMMA NewEpochKeeps ==
    ASSUME RInv, IInv', NEW e \in Event,
           jobs'[e].status = "queued", \A f \in Event \ {e} : Elapses(jobs[f], jobs'[f]),
           epoch' = [epoch EXCEPT ![e] = @ + 1], UNCHANGED <<issued, run>>,
           effects' = [f \in Event |-> IF epoch'[f] = epoch[f] THEN effects[f] ELSE {}],
           unsure' = [f \in Event |-> IF epoch'[f] = epoch[f] THEN unsure[f] ELSE {}]
    PROVE  RInv'
<1>1. /\ epoch[e] \in Nat /\ epoch'[e] = epoch[e] + 1
      /\ \A f \in Event \ {e} : epoch'[f] = epoch[f]
  BY DEF RInv, IInv, CountersOK
<1>2. /\ effects'[e] = {} /\ unsure'[e] = {}
      /\ \A f \in Event \ {e} : effects'[f] = effects[f] /\ unsure'[f] = unsure[f]
  BY <1>1
<1>3. TypesOK' BY DEF RInv, TypesOK
<1>4. \A r \in Runner : run'[r] = run[r] /\ (Live(r)' <=> Live(r)) BY DEF Live
<1>5. \A r \in Runner : Live(r) =>
          run[r].ev \in Event /\ run[r].era \in Nat /\ run[r].era <= epoch[run[r].ev]
  BY DEF RInv, HeldOK, TypesOK, Run
<1>6. HeldOK'
  <2>1. ASSUME NEW r \in Runner, Live(r)
        PROVE  LET row == jobs'[run[r].ev] IN
          /\ run[r].ev \in Event
          /\ run[r].token \in 1..issued[run[r].ev]
          /\ run[r].era <= epoch'[run[r].ev]
          /\ row.status = "running" /\ (row.worker = WorkerOf[r] \/ row.token = run[r].token) =>
                /\ row.worker = WorkerOf[r] /\ row.token = run[r].token
                /\ run[r].era = epoch'[run[r].ev]
    <3>1. run[r].token \in 1..issued[run[r].ev] BY <2>1 DEF RInv, HeldOK
    <3>2. CASE run[r].ev = e BY <1>1, <1>5, <2>1, <3>1, <3>2
    <3>3. CASE run[r].ev # e
      <4>1. Drifts(jobs[run[r].ev], jobs'[run[r].ev]) BY <1>5, <2>1, <3>3 DEF Elapses
      <4>2. QED
        BY <1>1, <1>5, <2>1, <3>1, <3>3, <4>1 DEF RInv, HeldOK, Drifts, KeptRow, Left, Dropped
    <3>4. QED BY <3>2, <3>3
  <2>2. \A r, s \in Runner :
            Live(r) /\ Live(s) /\ run[r].ev = run[s].ev /\ run[r].token = run[s].token => r = s
    BY DEF RInv, HeldOK
  <2>3. QED BY <1>4, <2>1, <2>2 DEF HeldOK
<1>7. \A r \in Runner, f \in Event : Marks(r, f)' => Marks(r, f) /\ f # e
  BY <1>1, <1>4, <1>5 DEF Marks
<1>8. ASSUME NEW f \in Event, NEW t \in Nat, Started(f, t)'
      PROVE  Started(f, t) /\ f # e
  BY <1>2, <1>4, <1>7, <1>8 DEF Started
<1>9. SealOK'
  <2>1. ASSUME NEW f \in Event, NEW t \in Nat, Started(f, t)'
        PROVE  /\ jobs'[f].status \notin Waiting \cup {"failed"}
               /\ jobs'[f].status = "running" => jobs'[f].token = t /\ jobs'[f].started
    <3>1. /\ jobs[f].status \notin Waiting \cup {"failed"}
          /\ jobs[f].status = "running" => jobs[f].token = t /\ jobs[f].started
      BY <1>8, <2>1 DEF RInv, SealOK
    <3>2. Drifts(jobs[f], jobs'[f]) BY <1>8, <2>1 DEF Elapses
    <3>3. QED BY <3>1, <3>2 DEF Drifts, KeptRow, Left, Dropped, Waiting
  <2>2. \A f \in Event, t, u \in Nat : Started(f, t)' /\ Started(f, u)' => t = u
    BY <1>8 DEF RInv, SealOK
  <2>3. QED BY <2>1, <2>2 DEF SealOK
<1>10. CallsOK'
  <2>1. ASSUME NEW r \in Runner, run[r].pc \in Calling
        PROVE  /\ run[r].marked
               /\ run[r].era = epoch'[run[r].ev] => run[r].token \in effects'[run[r].ev]
    <3>1. Live(r) BY <2>1 DEF Live, Calling
    <3>2. QED BY <1>1, <1>2, <1>5, <2>1, <3>1 DEF RInv, CallsOK
  <2>2. QED BY <1>4, <2>1 DEF CallsOK
<1>11. OpenOK'
  <2>1. ASSUME ~UnknownExpires, NEW r \in Runner, Live(r), Marks(r, run[r].ev)'
        PROVE  jobs'[run[r].ev].status \in {"running", "unknown"}
    <3> DEFINE f == run[r].ev
    <3>1. f \in Event \ {e} /\ Marks(r, f) BY <1>5, <1>7, <2>1
    <3>2. run[r].token \in Nat BY DEF RInv, TypesOK, Run
    <3>3. Started(f, run[r].token) BY <3>1, <3>2 DEF Started
    <3>4. /\ jobs[f].status \in {"running", "unknown"}
          /\ jobs[f].status = "running" => jobs[f].started
      BY <2>1, <3>1, <3>2, <3>3 DEF RInv, OpenOK, SealOK
    <3>5. Elapses(jobs[f], jobs'[f]) BY <3>1
    <3>6. QED BY <2>1, <3>4, <3>5 DEF Elapses, Drifts, KeptRow, Left, Dropped
  <2>2. QED BY <1>4, <2>1 DEF OpenOK
<1>12. DoubtOK'
  <2>1. ASSUME NEW f \in Event, IsFenced(f), unsure'[f] # {}
        PROVE  /\ jobs'[f].status # "completed"
               /\ jobs'[f].status = "running" => jobs'[f].inflight > 0 \/ jobs'[f].uncertain
    <3>1. f # e /\ unsure[f] # {} BY <1>2, <2>1
    <3>2. Elapses(jobs[f], jobs'[f]) BY <3>1
    <3>3. /\ jobs[f].status # "completed"
          /\ jobs[f].status = "running" => jobs[f].inflight > 0 \/ jobs[f].uncertain
      BY <2>1, <3>1 DEF RInv, DoubtOK
    <3>4. QED BY <3>2, <3>3 DEF Elapses, Drifts, KeptRow, Left, Dropped
  <2>2. \A f \in Event : unsure'[f] \subseteq effects'[f] BY <1>2 DEF RInv, DoubtOK
  <2>3. QED BY <2>1, <2>2 DEF DoubtOK, IsFenced
<1>13. QED BY <1>3, <1>6, <1>9, <1>10, <1>11, <1>12 DEF RInv

LEMMA OutsideKeeps ==
    ASSUME RInv, NEW e \in Event, NEW d \in Lags, Outside(e, d)
    PROVE  RInv'
<1>t. /\ d \in Nat /\ IInv /\ RowsOK /\ TypesOK
      /\ \A f \in Event : jobs[f] \in Row /\ RowOK(jobs[f])
  BY StoreAssumption DEF Lags, RInv, IInv, RowsOK
<1> DEFINE js == [f \in Event |-> Purged(jobs[f], d)]
<1>p. \A f \in Event : Elapses(jobs[f], js[f]) BY <1>t, PurgeElapses
<1>1. CASE EnqueueDuplicate(e, d)
  <2>1. jobs' = js /\ UNCHANGED <<issued, epoch>> BY <1>1 DEF EnqueueDuplicate
  <2>2. IInv' BY <1>t, <1>1, EnqueueDuplicateOK
  <2>3. UNCHANGED <<run, effects, unsure>> BY <1>t, <2>1 DEF Outside, TypesOK
  <2>4. TypesOK' /\ \A s \in Runner : Quiet(s) BY <1>t, <2>3 DEF TypesOK, Quiet, Live
  <2>5. QED BY <1>p, <2>1, <2>2, <2>3, <2>4, PassKeeps
<1>2. CASE EnqueueNew(e, d)
  <2>1. IInv' BY <1>t, <1>2, EnqueueNewOK
  <2>2. PICK s \in 1..MaxSeq :
          jobs' = [js EXCEPT ![e] = [NoRow EXCEPT !.status = "queued", !.seq = s, !.avail = -d]]
    BY <1>2 DEF EnqueueNew
  <2>3. /\ jobs'[e].status = "queued"
        /\ \A f \in Event \ {e} : Elapses(jobs[f], jobs'[f])
    <3>1. jobs'[e] = [NoRow EXCEPT !.status = "queued", !.seq = s, !.avail = -d]
      BY <2>2
    <3>2. \A f \in Event \ {e} : jobs'[f] = js[f] BY <2>2
    <3>3. QED BY <1>p, <3>1, <3>2 DEF NoRow
  <2>4. epoch' = [epoch EXCEPT ![e] = @ + 1] /\ UNCHANGED <<issued, run>>
    BY <1>2 DEF EnqueueNew, Outside
  <2>5. QED BY <2>1, <2>3, <2>4, NewEpochKeeps DEF Outside
<1>3. CASE Operator(e, d)
  <2>1. IInv' BY <1>t, <1>3, OperatorOK
  <2> DEFINE back == Released(jobs[e], "queued", -d, d)
  <2>2. back \in Row
    <3>1. "queued" \in Status /\ -d \in Int BY <1>t DEF Status, Waiting
    <3>2. QED BY <1>t, <3>1, ReleasedType
  <2>3. back.status = "queued" BY <1>t DEF Released, Row
  <2> HIDE DEF back
  <2>4. /\ \/ Update(e, [[back EXCEPT !.attempt = 0] EXCEPT !.started = FALSE])
           \/ Update(e, [back EXCEPT !.attempt = 0])
        /\ epoch' = [epoch EXCEPT ![e] = @ + 1] /\ UNCHANGED issued
    BY <1>3 DEF Operator, RequeueUnknown, RequeueFailed, Requeued, back
  <2>5. /\ jobs'[e].status = "queued"
        /\ \A f \in Event \ {e} : jobs'[f] = jobs[f]
    <3> DEFINE again == [back EXCEPT !.attempt = 0]
               clean == [again EXCEPT !.started = FALSE]
    <3>1. again.status = "queued" BY <2>2, <2>3 DEF Row
    <3>2. clean.status = "queued" BY <2>2, <2>3 DEF Row
    <3>3. Update(e, clean) \/ Update(e, again) BY <2>4
    <3> HIDE DEF again, clean
    <3>4. PICK row \in {again, clean} : Update(e, row) BY <3>3
    <3>5. row.status = "queued" BY <3>1, <3>2
    <3>6. QED BY <1>t, <3>4, <3>5 DEF Update, RowsOK
  <2>6. \A f \in Event \ {e} : Elapses(jobs[f], jobs'[f])
    BY <2>5 DEF Elapses, Drifts, KeptRow
  <2>7. QED BY <2>1, <2>4, <2>5, <2>6, NewEpochKeeps DEF Outside
<1>4. QED BY <1>1, <1>2, <1>3 DEF Outside, Receive

LEMMA ClockKeeps == ASSUME RInv, Clock PROVE RInv'
<1>1. Tick /\ UNCHANGED <<run, effects, unsure, issued, epoch>>
  BY DEF Clock, runnerVars, Tick
<1>2. IInv' /\ \A e \in Event : Elapses(jobs[e], jobs'[e])
  BY <1>1, TickOK, TickElapses DEF RInv, IInv
<1>3. TypesOK' /\ \A s \in Runner : Quiet(s) BY <1>1 DEF RInv, TypesOK, Quiet, Live
<1>4. QED BY <1>1, <1>2, <1>3, PassKeeps

-----------------------------------------------------------------------------
(* The theorems *)

LEMMA RunnersInit == Init => RInv
<1> SUFFICES ASSUME Init PROVE RInv OBVIOUS
<1>1. IInv BY InitOK DEF Init
<1>2. TypesOK BY IdleRun DEF Init, TypesOK
<1>3. \A r \in Runner : run[r] = Idle /\ ~Live(r) /\ run[r].pc = "idle"
  BY IdleRun DEF Init, Live
<1>4. HeldOK /\ OpenOK BY <1>3 DEF HeldOK, OpenOK
<1>5. \A e \in Event, t \in Nat : ~Started(e, t) BY <1>3 DEF Init, Started, Marks
<1>6. SealOK BY <1>5 DEF SealOK
<1>7. CallsOK BY <1>3 DEF CallsOK, Calling
<1>8. DoubtOK BY DEF Init, DoubtOK
<1>9. QED BY <1>1, <1>2, <1>4, <1>6, <1>7, <1>8 DEF RInv

LEMMA RunnersNext == RInv /\ [Next]_vars => RInv'
<1> SUFFICES ASSUME RInv, [Next]_vars PROVE RInv' OBVIOUS
<1>1. CASE Clock BY <1>1, ClockKeeps
<1>2. ASSUME NEW d \in Lags, NEW e \in Event, Outside(e, d) PROVE RInv'
  BY <1>2, OutsideKeeps
<1>3. ASSUME NEW d \in Lags, NEW r \in Runner,
             Start(r, d) \/ Precheck(r, d) \/ Act(r, d) \/ CallEnds(r, d)
                \/ Beside(r, d) \/ Settle(r, d)
      PROVE  RInv'
  <2>1. CASE Start(r, d) BY <2>1, StartNothingKeeps, StartJobKeeps DEF Start
  <2>2. CASE Precheck(r, d) BY <2>2, RunsAside
  <2>3. CASE Act(r, d)
    BY <2>3, MarkStepKeeps, CallBareKeeps, CallBracketedKeeps, RunsAside DEF Act
  <2>4. CASE CallEnds(r, d) BY <2>4, BracketEndsKeep, RunsAside DEF CallEnds
  <2>5. CASE Beside(r, d)
    BY <2>5, HeartbeatKeeps, RunsAside DEF Beside, LeaseLost, Shutdown
  <2>6. CASE Settle(r, d) BY <2>6, SettleKeeps
  <2>7. QED BY <1>3, <2>1, <2>2, <2>3, <2>4, <2>5, <2>6
<1>4. ASSUME NEW r \in Runner, HandlerEnds(r) \/ Crash(r) PROVE RInv'
  <2>1. 0 \in Lags BY StoreAssumption DEF Lags
  <2>2. QED BY <1>4, <2>1, RunsAside DEF HandlerEnds
<1>5. CASE UNCHANGED vars
  <2>1. UNCHANGED <<storeVars, run, effects, unsure>> BY <1>5 DEF vars, runnerVars
  <2>2. run' \in [Runner -> Run] /\ \A r \in Runner : Quiet(r)
    BY <2>1 DEF RInv, TypesOK, Quiet, Live
  <2>3. QED BY <2>1, <2>2, AsideKeeps
<1>6. QED BY <1>1, <1>2, <1>3, <1>4, <1>5 DEF Next

\* In one epoch of an event the attempts that marked it or called out are one
\* attempt; the row of a running job shows its token, its mark and its doubts.
THEOREM RunnerInvariant == Spec => []RInv
BY RunnersInit, RunnersNext, PTL DEF Spec

\* No job is done twice: at most one attempt between two decisions of an
\* operator calls out, and none has when the job may still be claimed.
THEOREM OneEffectfulAttempt == Spec => []AtMostOneEffectfulAttempt
<1>1. RInv => AtMostOneEffectfulAttempt
  <2> SUFFICES ASSUME RInv, NEW e \in Event
               PROVE  /\ Cardinality(effects[e]) <= 1
                      /\ jobs[e].status \in Waiting \cup {"failed"} => effects[e] = {}
    BY DEF AtMostOneEffectfulAttempt
  <2>1. effects[e] \subseteq Nat /\ \A t \in effects[e] : Started(e, t)
    BY DEF RInv, TypesOK, Started
  <2>2. \A t, u \in effects[e] : t = u BY <2>1 DEF RInv, SealOK
  <2>3. Cardinality(effects[e]) <= 1
    <3>1. CASE effects[e] = {} BY <3>1, FS_EmptySet
    <3>2. CASE effects[e] # {}
      <4>1. PICK t \in effects[e] : effects[e] = {t} BY <2>2, <3>2
      <4>2. Cardinality({t}) = 1 BY FS_Singleton
      <4>3. QED BY <4>1, <4>2
    <3>3. QED BY <3>1, <3>2
  <2>4. jobs[e].status \in Waiting \cup {"failed"} => effects[e] = {}
    BY <2>1 DEF RInv, SealOK
  <2>5. QED BY <2>3, <2>4
<1>2. QED BY <1>1, RunnerInvariant, PTL

\* What is reported as done was done: a fenced job is completed only when each
\* of its bracketed calls is known to have succeeded.
THEOREM CompletionIsCertain == Spec => []CompletedIsCertain
<1>1. RInv => CompletedIsCertain BY DEF RInv, DoubtOK, CompletedIsCertain
<1>2. QED BY <1>1, RunnerInvariant, PTL

\* The external calls of a lane never overlap, unless UNKNOWN records expire.
THEOREM LaneCallsSerial == ~UnknownExpires => (Spec => []CallsSerialPerLane)
<1> SUFFICES ASSUME ~UnknownExpires PROVE Spec => []CallsSerialPerLane OBVIOUS
<1>1. RInv => CallsSerialPerLane
  <2> SUFFICES ASSUME RInv, NEW r \in Runner, NEW s \in Runner,
                      run[r].pc \in Calling, run[s].pc \in Calling,
                      run[r].era = epoch[run[r].ev], run[s].era = epoch[run[s].ev],
                      LaneOf[run[r].ev] = LaneOf[run[s].ev]
               PROVE  r = s
    BY DEF CallsSerialPerLane, Calling
  <2> DEFINE e == run[r].ev
             f == run[s].ev
  <2>1. /\ Live(r) /\ Live(s) /\ e \in Event /\ f \in Event
        /\ run[r].token \in Nat /\ run[s].token \in Nat
    BY DEF Live, Calling, RInv, HeldOK, TypesOK, Run
  <2>2. Marks(r, e) /\ Marks(s, f) BY <2>1 DEF Marks, RInv, CallsOK
  <2>3. jobs[e].status \in {"running", "unknown"} /\ jobs[f].status \in {"running", "unknown"}
    BY <2>1, <2>2 DEF RInv, OpenOK
  <2>4. RowOK(jobs[e]) /\ RowOK(jobs[f]) BY <2>1 DEF RInv, IInv, RowsOK
  <2>5. /\ Present(jobs, e) /\ Attempted(jobs, e) /\ Unresolved(jobs, e)
        /\ Present(jobs, f) /\ Attempted(jobs, f) /\ Unresolved(jobs, f)
    BY <2>3, <2>4 DEF RowOK, Row, Present, Attempted, Unresolved
  <2>6. jobs[e].seq <= jobs[f].seq /\ jobs[f].seq <= jobs[e].seq
    BY <2>1, <2>5 DEF RInv, IInv, Ordered, HeadOfLane
  <2>7. jobs[e].seq = jobs[f].seq BY <2>4, <2>6 DEF RowOK, Row
  <2>8. e = f BY <2>1, <2>5, <2>7 DEF RInv, IInv, Ordered
  <2>9. Started(e, run[r].token) /\ Started(e, run[s].token)
    BY <2>2, <2>8 DEF Started
  <2>10. run[r].token = run[s].token BY <2>1, <2>9 DEF RInv, SealOK
  <2>11. QED BY <2>1, <2>8, <2>10 DEF RInv, HeldOK
<1>2. QED BY <1>1, RunnerInvariant, PTL

-----------------------------------------------------------------------------
(* Nobody settles the attempt of another *)

Settled(e) ==
    jobs[e].status = "running" /\ jobs'[e].status # "running" =>
        \/ jobs[e].lease <= 0
        \/ \E r \in Runner : /\ run[r].ev = e /\ run[r].token = jobs[e].token
                            /\ run'[r] = Idle

LEMMA ElapsesSettled ==
    ASSUME NEW e \in Event, Elapses(jobs[e], jobs'[e]) PROVE Settled(e)
BY DEF Elapses, Settled

\* A step that goes through the check of the store, on the event of one run.
LEMMA UpdateSettled ==
    ASSUME RInv, NEW r \in Runner, Live(r), NEW d \in Lags, StillHeld(r, d),
           NEW row, Update(run[r].ev, row), row.status = "running" \/ run'[r] = Idle,
           NEW e \in Event
    PROVE  Settled(e)
<1>1. run[r].ev \in Event /\ jobs[run[r].ev].token = run[r].token BY Holder
<1>2. CASE e = run[r].ev
  <2>1. jobs'[e] = row BY <1>1, <1>2 DEF Update, RInv, IInv, RowsOK
  <2>2. QED BY <1>1, <1>2, <2>1 DEF Settled
<1>3. CASE e # run[r].ev
  <2>1. jobs'[e] = jobs[e] BY <1>1, <1>3 DEF Update, RInv, IInv, RowsOK
  <2>2. QED BY <2>1 DEF Settled
<1>4. QED BY <1>2, <1>3

\* The handler and what runs beside it rewrite rows that stay running.
LEMMA HandlerSettled ==
    ASSUME RInv, NEW r \in Runner, NEW d \in Lags, NEW e \in Event,
           \/ Heartbeat(r, d) \/ Mark(r, d) \/ CallBracketed(r, d)
           \/ BracketReturns(r, d) \/ BracketRaises(r, d),
           ~UNCHANGED storeVars
    PROVE  Settled(e)
<1> DEFINE f == run[r].ev
<1>1. Live(r)
  BY DEF Heartbeat, Mark, CallBracketed, BracketReturns, BracketRaises, Working, Handling, Live
<1>2. StillHeld(r, d)
  BY DEF Heartbeat, Mark, CallBracketed, BracketReturns, BracketRaises, StillHeld, Holds,
         RenewFenced, Renew, MarkFencedStarted, MarkSideEffectStarted, BeginEffect, EndEffect
<1>3. jobs[f] \in Row /\ jobs[f].status = "running" BY <1>1, <1>2, Holder DEF Owns
<1> HIDE DEF f
<1>4. \E row : Update(f, row) /\ row.status = "running"
  <2>1. CASE Heartbeat(r, d)
    <3>1. Update(f, [jobs[f] EXCEPT !.lease = LeaseSeconds - d])
      BY <2>1 DEF Heartbeat, RenewFenced, Renew, f
    <3>2. [jobs[f] EXCEPT !.lease = LeaseSeconds - d].status = "running" BY <1>3 DEF Row
    <3>3. QED BY <3>1, <3>2
  <2>2. CASE Mark(r, d)
    <3>1. Update(f, [jobs[f] EXCEPT !.started = TRUE])
      BY <2>2 DEF Mark, MarkFencedStarted, MarkSideEffectStarted, f
    <3>2. [jobs[f] EXCEPT !.started = TRUE].status = "running" BY <1>3 DEF Row
    <3>3. QED BY <3>1, <3>2
  <2>3. CASE CallBracketed(r, d)
    <3>1. Update(f, [jobs[f] EXCEPT !.inflight = @ + 1, !.started = TRUE])
      BY <2>3 DEF CallBracketed, BeginEffect, f
    <3>2. [jobs[f] EXCEPT !.inflight = @ + 1, !.started = TRUE].status = "running"
      BY <1>3 DEF Row
    <3>3. QED BY <3>1, <3>2
  <2>4. CASE BracketReturns(r, d) \/ BracketRaises(r, d)
    <3>1. PICK u \in BOOLEAN :
            Update(f, [jobs[f] EXCEPT !.inflight = @ - 1, !.uncertain = @ \/ u])
      BY <2>4 DEF BracketReturns, BracketRaises, EndEffect, f
    <3>2. [jobs[f] EXCEPT !.inflight = @ - 1, !.uncertain = @ \/ u].status = "running"
      BY <1>3 DEF Row
    <3>3. QED BY <3>1, <3>2
  <2>5. QED BY <2>1, <2>2, <2>3, <2>4
<1>5. QED BY <1>1, <1>2, <1>4, UpdateSettled DEF f

LEMMA SettleSettled ==
    ASSUME RInv, NEW r \in Runner, NEW d \in Lags, NEW e \in Event, Settle(r, d)
    PROVE  Settled(e)
<1>1. Live(r)
  BY DEF Settle, SettleReturned, SettleSuperseded, SettleFailure, SettleRefused, Live
<1>2. CASE SettleRefused(r, d) BY <1>2 DEF SettleRefused, storeVars, Settled
<1>3. CASE ~SettleRefused(r, d)
  <2>1. StillHeld(r, d) /\ \E row : Update(run[r].ev, row)
    BY <1>3 DEF Settle, SettleReturned, SettleSuperseded, SettleFailure, StillHeld, Holds,
                FinishFenced, FailFenced, Complete, MarkUnknown, Retry
  <2>2. run'[r] = Idle BY GiveUpQuiet DEF RInv, Settle
  <2>3. QED BY <1>1, <2>1, <2>2, UpdateSettled
<1>4. QED BY <1>2, <1>3

\* A job leaves "running" by the run that holds its newest token, or because
\* its lease ran out: no late worker settles the attempt of another.
THEOREM HolderSettles == Spec => SettledByHolder
<1>1. RInv /\ [Next]_vars => [\A e \in Event : Settled(e)]_vars
  <2> SUFFICES ASSUME RInv, Next, NEW e \in Event PROVE Settled(e) OBVIOUS
  <2>1. CASE UNCHANGED storeVars BY <2>1 DEF storeVars, Settled
  <2>2. CASE Clock BY <2>2, TickElapses, ElapsesSettled DEF Clock, RInv, IInv
  <2>3. ASSUME NEW d \in Lags, NEW f \in Event, Outside(f, d) PROVE Settled(e)
    <3>1. d \in Nat /\ RowOK(jobs[e]) /\ jobs \in [Event -> Row]
      BY StoreAssumption DEF Lags, RInv, IInv, RowsOK
    <3>2. CASE EnqueueNew(f, d) \/ EnqueueDuplicate(f, d)
      <4>1. jobs[e].status = "running" => jobs'[e].status = "running"
        <5>1. CASE EnqueueDuplicate(f, d)
          BY <3>1, <5>1 DEF EnqueueDuplicate, Purged
        <5>2. CASE EnqueueNew(f, d)
          <6>1. jobs[e].status = "running" => Purged(jobs[e], d) = jobs[e] BY DEF Purged
          <6>2. jobs[e].status = "running" => e # f
            BY <5>2, <6>1 DEF EnqueueNew, Present
          <6>3. QED BY <5>2, <6>1, <6>2 DEF EnqueueNew
        <5>3. QED BY <3>2, <5>1, <5>2
      <4>2. QED BY <4>1 DEF Settled
    <3>3. CASE Operator(f, d)
      <4>1. jobs[e].status = "running" => jobs'[e] = jobs[e]
        BY <3>1, <3>3 DEF Operator, RequeueUnknown, RequeueFailed, Update
      <4>2. QED BY <4>1 DEF Settled
    <3>4. QED BY <2>3, <3>2, <3>3 DEF Outside, Receive
  <2>4. ASSUME NEW d \in Lags, NEW r \in Runner, Start(r, d) PROVE Settled(e)
    <3>1. d \in Nat /\ RowsOK BY StoreAssumption DEF Lags, RInv, IInv
    <3>2. CASE StartNothing(r, d)
      BY <3>1, <3>2, SweepElapses, ElapsesSettled DEF StartNothing, ClaimNone
    <3>3. ASSUME NEW f \in Event, StartJob(r, f, d) PROVE Settled(e)
      <4>1. jobs' = [Swept(d) EXCEPT ![f] = Leased(@, WorkerOf[r], issued[f] + 1, d)]
        BY <3>3 DEF StartJob, ClaimJob
      <4>2. Swept(d) \in [Event -> Row] BY <3>1, SweptOK
      <4>3. CASE e = f
        <5>1. jobs'[e].status = "running" BY <4>1, <4>2, <4>3 DEF Leased, Row
        <5>2. QED BY <5>1 DEF Settled
      <4>4. CASE e # f
        <5>1. jobs'[e] = Swept(d)[e] BY <4>1, <4>2, <4>4
        <5>2. QED BY <3>1, <5>1, SweepElapses, ElapsesSettled
      <4>5. QED BY <4>3, <4>4
    <3>4. QED BY <2>4, <3>2, <3>3 DEF Start
  <2>5. ASSUME NEW d \in Lags, NEW r \in Runner,
               Precheck(r, d) \/ Act(r, d) \/ CallEnds(r, d) \/ Beside(r, d) \/ Settle(r, d),
               ~UNCHANGED storeVars
        PROVE  Settled(e)
    <3>1. \/ Heartbeat(r, d) \/ Mark(r, d) \/ CallBracketed(r, d)
          \/ BracketReturns(r, d) \/ BracketRaises(r, d) \/ Settle(r, d)
      BY <2>5 DEF Precheck, Act, CallBare, Checkpoint, CallEnds, BareReturns, Beside,
                  WatchInterrupt, LeaseLost, Shutdown, Doom
    <3>2. QED BY <2>5, <3>1, HandlerSettled, SettleSettled
  <2>6. ASSUME NEW r \in Runner, HandlerEnds(r) \/ Crash(r), ~UNCHANGED storeVars PROVE FALSE
    BY <2>6 DEF HandlerEnds, HandlerReturns, HandlerRaises, Crash
  <2>7. QED BY <2>1, <2>2, <2>3, <2>4, <2>5, <2>6 DEF Next
<1>2. QED BY <1>1, RunnerInvariant, PTL DEF Spec, SettledByHolder, Settled

-----------------------------------------------------------------------------
(* What the runners do to the store is a step of the inbox *)

\* A row that is running was running with its token, or has just been claimed.
TokenStays(e) ==
    jobs'[e].status = "running" =>
        \/ jobs[e].status = "running" /\ jobs'[e].token = jobs[e].token
        \/ jobs'[e].token = issued[e] + 1

InboxStep == Inbox!InboxNext /\ \A e \in Event : TokenStays(e)

LEMMA ElapsesToken ==
    ASSUME \A e \in Event : Elapses(jobs[e], jobs'[e])
    PROVE  \A e \in Event : TokenStays(e)
BY DEF Elapses, Drifts, KeptRow, Left, Dropped, TokenStays, Waiting

\* One row that stays as it is for this, or stops running.
LEMMA UpdateToken ==
    ASSUME IInv, NEW e \in Event, NEW row, Update(e, row),
           row.status = "running" => jobs[e].status = "running" /\ row.token = jobs[e].token
    PROVE  \A f \in Event : TokenStays(f)
<1>1. \A f \in Event : jobs'[f] = IF f = e THEN row ELSE jobs[f] BY DEF Update, IInv, RowsOK
<1>2. QED BY <1>1 DEF TokenStays

\* Deliveries and operators.
LEMMA OutsideStep ==
    ASSUME RInv, IInv', NEW e \in Event, NEW d \in Lags, Outside(e, d)
    PROVE  InboxStep
<1>1. d \in Nat /\ IInv /\ jobs \in [Event -> Row]
  BY StoreAssumption DEF Lags, RInv, IInv, RowsOK
<1>2. Inbox!InboxNext BY <1>1, ReceiveAdvances, OperatorAdvances DEF Outside
<1>3. ASSUME NEW f \in Event PROVE TokenStays(f)
  <2>1. Purged(jobs[f], d).status = "running" => Purged(jobs[f], d) = jobs[f]
    BY DEF Purged, NoRow
  <2>2. CASE EnqueueDuplicate(e, d) BY <2>1, <2>2 DEF EnqueueDuplicate, TokenStays
  <2>3. CASE EnqueueNew(e, d)
    <3>1. jobs'[f] = Purged(jobs[f], d) \/ jobs'[f].status = "queued"
      BY <2>3 DEF EnqueueNew, NoRow
    <3>2. QED BY <2>1, <3>1 DEF TokenStays
  <2>4. CASE Operator(e, d)
    <3>1. jobs'[f] = jobs[f] \/ jobs'[f].status = "queued"
      <4>1. jobs[e] \in Row BY <1>1
      <4>2. PICK row : /\ Update(e, row)
                       /\ row.status = "queued" /\ row.seq = jobs[e].seq
                       /\ jobs[e].status \in {"failed", "unknown"}
        BY <1>1, <2>4, <4>1 DEF Operator, RequeueUnknown, RequeueFailed, Requeued, Released, Row
      <4>3. QED BY <1>1, <4>2 DEF Update
    <3>2. QED BY <3>1 DEF TokenStays
  <2>5. QED BY <2>2, <2>3, <2>4 DEF Outside, Receive
<1>4. QED BY <1>2, <1>3 DEF InboxStep

\* A sweep, and the job it may lead to.
LEMMA StartStep ==
    ASSUME RInv, IInv', NEW r \in Runner, NEW d \in Lags, Start(r, d)
    PROVE  InboxStep
<1>1. /\ d \in Nat /\ IInv /\ RowsOK /\ 0 \in 0..Tolerance
      /\ WorkerOf[r] \in Worker /\ issued \in [Event -> Nat]
  BY StoreAssumption, RunnerAssumption DEF Lags, RInv, IInv, CountersOK
<1>2. Claim(WorkerOf[r], d) BY <1>1 DEF Start, StartNothing, StartJob, Claim
<1>3. Inbox!InboxNext BY <1>1, <1>2, ClaimAdvances
<1>4. \A e \in Event : TokenStays(e)
  <2>1. \A e \in Event : Elapses(jobs[e], Swept(d)[e]) BY <1>1, SweepElapses
  <2>2. CASE StartNothing(r, d)
    BY <2>1, <2>2, ElapsesToken DEF StartNothing, ClaimNone
  <2>3. ASSUME NEW f \in Event, StartJob(r, f, d), NEW e \in Event PROVE TokenStays(e)
    <3>1. jobs' = [Swept(d) EXCEPT ![f] = Leased(@, WorkerOf[r], issued[f] + 1, d)]
      BY <2>3 DEF StartJob, ClaimJob
    <3>2. Swept(d) \in [Event -> Row] BY <1>1, SweptOK
    <3>3. CASE e = f
      <4>1. jobs'[e].token = issued[e] + 1 BY <3>1, <3>2, <3>3 DEF Leased, Row
      <4>2. QED BY <4>1 DEF TokenStays
    <3>4. CASE e # f
      <4>1. jobs'[e] = Swept(d)[e] BY <3>1, <3>2, <3>4
      <4>2. Elapses(jobs[e], jobs'[e]) BY <2>1, <4>1
      <4>3. QED BY <4>2 DEF Elapses, Drifts, KeptRow, Left, Dropped, TokenStays, Waiting
    <3>5. QED BY <3>3, <3>4
  <2>4. QED BY <2>2, <2>3 DEF Start
<1>5. QED BY <1>3, <1>4 DEF InboxStep

\* A run that passes the check of the store rewrites the row it holds.
LEMMA HolderStep ==
    ASSUME RInv, IInv', NEW r \in Runner, NEW d \in Lags, ~UNCHANGED storeVars,
           \/ Heartbeat(r, d) \/ Mark(r, d) \/ CallBracketed(r, d)
           \/ BracketReturns(r, d) \/ BracketRaises(r, d) \/ Settle(r, d)
    PROVE  InboxStep
<1> DEFINE e == run[r].ev
           w == WorkerOf[r]
           t == run[r].token
<1>1. Live(r)
  BY DEF Heartbeat, Mark, CallBracketed, BracketReturns, BracketRaises, Working, Handling, Live,
         Settle, SettleReturned, SettleSuperseded, SettleFailure, SettleRefused
<1>2. /\ e \in Event /\ t \in 1..issued[e]
      /\ IInv /\ d \in Nat /\ w \in Worker /\ 0 \in Int
  BY <1>1, StoreAssumption, RunnerAssumption DEF Lags, RInv, HeldOK
<1>3. jobs[e] \in Row /\ RowOK(jobs[e]) /\ jobs \in [Event -> Row] BY <1>2 DEF IInv, RowsOK
<1>4. Delay(e) \in 0..BackoffMax BY StoreAssumption DEF Delay
<1>5. \/ Renew(e, w, d) \/ RenewFenced(e, w, t, d)
      \/ MarkSideEffectStarted(e, w) \/ MarkFencedStarted(e, w, t, d)
      \/ BeginEffect(e, w, t, d)
      \/ \E u \in BOOLEAN : EndEffect(e, w, t, u, d)
      \/ FinishFenced(e, w, t, d) \/ Complete(e, w, d)
      \/ FailFenced(e, w, t, Delay(e), d) \/ MarkUnknown(e, w, d) \/ Retry(e, w, Delay(e), d)
  BY DEF Heartbeat, Mark, CallBracketed, BracketReturns, BracketRaises, Settle, SettleReturned,
         SettleSuperseded, SettleFailure, SettleRefused, storeVars
<1> HIDE DEF e, w, t
<1>6. ASSUME NEW row, Update(e, row), row.status = "running", row.seq = jobs[e].seq,
             row.token = jobs[e].token, jobs[e].started => row.started,
             jobs[e].status = "running"
      PROVE  InboxStep
  <2>1. row \in Row BY <1>2, <1>3, <1>6 DEF Update, IInv, RowsOK
  <2>2. Inbox!InboxNext BY <1>2, <1>3, <1>6, <2>1, StaysAdvances, UpdateAdvances
  <2>3. QED BY <1>2, <1>6, <2>2, UpdateToken DEF InboxStep
<1>7. ASSUME NEW st, NEW avail, st # "running", Update(e, Released(jobs[e], st, avail, d)),
             Unfenced(e, w, d) \/ Fenced(e, w, d)
      PROVE  InboxStep
  <2>1. Released(jobs[e], st, avail, d).status = st BY <1>3 DEF Released, Row
  <2>2. \A f \in Event : TokenStays(f) BY <1>2, <1>7, <2>1, UpdateToken
  <2>3. QED BY <1>2, <1>7, <2>2, HolderAdvances DEF InboxStep
<1>8. CASE Renew(e, w, d) \/ RenewFenced(e, w, t, d)
  BY <1>3, <1>6, <1>8 DEF Renew, RenewFenced, Holds, Owns, Row
<1>9. CASE MarkSideEffectStarted(e, w) \/ MarkFencedStarted(e, w, t, d)
  BY <1>3, <1>6, <1>9 DEF MarkSideEffectStarted, MarkFencedStarted, Holds, Owns, Row
<1>10. CASE BeginEffect(e, w, t, d)
  BY <1>3, <1>6, <1>10 DEF BeginEffect, Holds, Owns, Row
<1>11. ASSUME NEW u \in BOOLEAN, EndEffect(e, w, t, u, d) PROVE InboxStep
  BY <1>3, <1>6, <1>11 DEF EndEffect, Holds, Owns, Row
<1>12. CASE FinishFenced(e, w, t, d)
  BY <1>2, <1>7, <1>12 DEF FinishFenced, Fenced
<1>13. CASE Complete(e, w, d) BY <1>7, <1>13 DEF Complete, Unfenced
<1>14. CASE FailFenced(e, w, t, Delay(e), d)
  BY <1>2, <1>4, <1>7, <1>14 DEF FailFenced, Fenced, RetryOrFail
<1>15. CASE MarkUnknown(e, w, d) BY <1>7, <1>15 DEF MarkUnknown, Unfenced
<1>16. CASE Retry(e, w, Delay(e), d)
  BY <1>4, <1>7, <1>16 DEF Retry, Unfenced, RetryOrFail
<1>17. QED
  BY <1>5, <1>8, <1>9, <1>10, <1>11, <1>12, <1>13, <1>14, <1>15, <1>16

LEMMA StepsOfStore ==
    ASSUME RInv, IInv', [Next]_vars
    PROVE  InboxStep \/ UNCHANGED storeVars
<1>1. CASE Clock
  <2>1. Inbox!InboxNext BY <1>1, TickAdvances DEF Clock, RInv
  <2>2. \A e \in Event : Elapses(jobs[e], jobs'[e]) BY <1>1, TickElapses DEF Clock, RInv, IInv
  <2>3. QED BY <2>1, <2>2, ElapsesToken DEF InboxStep
<1>2. ASSUME NEW d \in Lags, NEW e \in Event, Outside(e, d) PROVE InboxStep
  BY <1>2, OutsideStep
<1>3. ASSUME NEW d \in Lags, NEW r \in Runner,
             Start(r, d) \/ Precheck(r, d) \/ Act(r, d) \/ CallEnds(r, d)
                \/ Beside(r, d) \/ Settle(r, d),
             ~UNCHANGED storeVars
      PROVE  InboxStep
  <2>1. \/ Start(r, d) \/ Heartbeat(r, d) \/ Mark(r, d) \/ CallBracketed(r, d)
        \/ BracketReturns(r, d) \/ BracketRaises(r, d) \/ Settle(r, d)
    BY <1>3 DEF Precheck, Act, CallBare, Checkpoint, CallEnds, BareReturns, Beside,
                WatchInterrupt, LeaseLost, Shutdown, Doom
  <2>2. QED BY <1>3, <2>1, StartStep, HolderStep
<1>4. ASSUME NEW r \in Runner, HandlerEnds(r) \/ Crash(r) PROVE UNCHANGED storeVars
  BY <1>4 DEF HandlerEnds, HandlerReturns, HandlerRaises, Crash
<1>5. CASE UNCHANGED vars BY <1>5 DEF vars
<1>6. QED BY <1>1, <1>2, <1>3, <1>4, <1>5 DEF Next

\* The runners use the store as the inbox: with their crashes, lost leases and
\* interrupts they take every event through the steps of DurableInbox only.
THEOREM RunnersServeInbox == Spec => ImplementsInbox
<1>1. Init => Inbox!InboxInit
  <2> SUFFICES ASSUME Init PROVE Inbox!InboxInit OBVIOUS
  <2>1. \A e \in Event : jobs[e].status = "absent" BY DEF Init, StoreInit, NoRow
  <2>2. phaseBar = [e \in Event |-> "none"] BY <2>1 DEF phaseBar, PhaseOf, Waiting
  <2>3. aheadBar = [e \in Event |-> {}] BY <2>1 DEF aheadBar, Unresolved
  <2>4. QED BY <2>2, <2>3 DEF Inbox!InboxInit
<1>2. RInv /\ RInv' /\ [Next]_vars => [Inbox!InboxNext]_(Inbox!inboxVars)
  <2> SUFFICES ASSUME RInv, RInv', [Next]_vars
               PROVE  [Inbox!InboxNext]_(Inbox!inboxVars)
    OBVIOUS
  <2>1. InboxStep \/ UNCHANGED storeVars BY StepsOfStore DEF RInv
  <2>2. CASE UNCHANGED storeVars
    BY <2>2 DEF storeVars, Inbox!inboxVars, phaseBar, aheadBar, Unresolved
  <2>3. QED BY <2>1, <2>2 DEF InboxStep
<1>3. QED BY <1>1, <1>2, RunnerInvariant, PTL DEF Spec, ImplementsInbox, Inbox!InboxSpec

-----------------------------------------------------------------------------
(* An interrupt is never out of date *)

\* In terms of the inbox: the first event behind e is a message.
MessageIsNext(e) ==
    \E f \in Private : e \in aheadBar[f] /\ \A g \in aheadBar[f] : e \notin aheadBar[g]

LEMMA NextInInbox ==
    ASSUME IInv, NEW e \in Event, Unresolved(jobs, e)
    PROVE  SuccessorIsMessage(e) <=> MessageIsNext(e)
<1>1. \A f \in Event : jobs[f].seq \in Nat BY DEF IInv, RowsOK, Row
<1>2. \A f \in Event : f \in Later(e) <=> e \in aheadBar[f] BY DEF Later, aheadBar, Unresolved
<1>3. ASSUME NEW f \in Later(e)
      PROVE  (\A g \in Later(e) : jobs[f].seq <= jobs[g].seq)
                <=> \A g \in aheadBar[f] : e \notin aheadBar[g]
  <2>1. f \in Event /\ LaneOf[f] = LaneOf[e] /\ Unresolved(jobs, f) BY DEF Later
  <2>2. \A g \in Later(e) : g \in Event /\ (g \in aheadBar[f] <=> jobs[g].seq < jobs[f].seq)
    BY <2>1 DEF Later, aheadBar, Unresolved
  <2>3. \A g \in aheadBar[f] : g \in Event BY <2>1 DEF aheadBar
  <2>4. QED BY <1>1, <1>2, <2>1, <2>2, <2>3
<1>4. Private \subseteq Event BY StoreAssumption
<1>5. QED BY <1>2, <1>3, <1>4 DEF SuccessorIsMessage, MessageIsNext, Later

\* While a job runs, what is behind it waits, and what arrives is further behind.
LEMMA NextStays ==
    ASSUME IInv, IInv', Inbox!InboxNext, NEW e \in Event,
           jobs[e].status = "running", jobs'[e].status = "running", SuccessorIsMessage(e)
    PROVE  SuccessorIsMessage(e)'
<1>1. PICK forgotten \in SUBSET Event, arrived \in {{}} \cup {{x} : x \in Event} :
         Inbox!Step(forgotten, arrived)
  BY DEF Inbox!InboxNext
<1> DEFINE old == [x \in Event |-> IF x \in forgotten THEN "none" ELSE phaseBar[x]]
           lane(x) == {y \in Event : LaneOf[y] = LaneOf[x]}
<1>2. /\ \A x \in forgotten : phaseBar[x] \in {"stuck", "done"}
      /\ \A x \in Event : /\ phaseBar'[x] \in Moves[old[x]]
                          /\ (old[x] = "none" /\ phaseBar'[x] # "none") <=> x \in arrived
      /\ aheadBar' = [x \in Event |->
            IF phaseBar'[x] \notin Open THEN {}
            ELSE {y \in IF x \in arrived THEN lane(x) ELSE aheadBar[x] :
                     old[y] \in Open /\ phaseBar'[y] \in Open}]
  BY <1>1 DEF Inbox!Step, Moves, Open
<1>3. /\ \A x \in Event : jobs[x] \in Row /\ jobs'[x] \in Row
      /\ \A x \in Event : phaseBar[x] = PhaseOf(jobs[x]) /\ phaseBar'[x] = PhaseOf(jobs'[x])
  BY DEF IInv, RowsOK, phaseBar
<1>4. Unresolved(jobs, e) /\ Unresolved(jobs', e) BY DEF Unresolved
<1>5. PICK f \in Private : e \in aheadBar[f] /\ \A g \in aheadBar[f] : e \notin aheadBar[g]
  BY <1>4, NextInInbox DEF MessageIsNext
<1>6. f \in Event BY <1>5, StoreAssumption
<1>7. jobs[f].status \in Waiting
  <2>1. LaneOf[e] = LaneOf[f] /\ jobs[e].seq < jobs[f].seq /\ Unresolved(jobs, f)
    BY <1>5, <1>6 DEF aheadBar
  <2>2. jobs[e].seq \in Nat /\ jobs[f].seq \in Nat /\ RowOK(jobs[f]) BY <1>3, <1>6 DEF Row, IInv, RowsOK
  <2>3. ~HeadOfLane(jobs, f) BY <1>4, <2>1, <2>2 DEF HeadOfLane
  <2>4. ~Attempted(jobs, f) BY <1>6, <2>3 DEF IInv, Ordered
  <2>5. QED BY <2>1, <2>2, <2>4, <1>3, <1>6 DEF Attempted, Unresolved, RowOK, Row, Status
<1>8. phaseBar[f] = "waiting" /\ phaseBar[e] \in {"working", "effective"}
      /\ phaseBar'[e] \in {"working", "effective"}
  BY <1>3, <1>6, <1>7, PhaseFacts
<1>9. old[f] = "waiting" /\ old[e] \in Open /\ phaseBar'[e] \in Open
  BY <1>2, <1>6, <1>8 DEF Open, Inbox!Open
<1>10. phaseBar'[f] \in Open /\ f \notin arrived
  BY <1>2, <1>6, <1>9 DEF Moves, Inbox!Moves, Open, Inbox!Open
<1>11. "none" \notin Open BY DEF Open, Inbox!Open
<1> HIDE DEF old
<1>12. aheadBar'[f] = {y \in aheadBar[f] : old[y] \in Open /\ phaseBar'[y] \in Open}
  BY <1>2, <1>6, <1>10
<1>13. e \in aheadBar'[f] BY <1>5, <1>9, <1>12
<1>14. ASSUME NEW g \in aheadBar'[f] PROVE e \notin aheadBar'[g]
  <2>1. g \in aheadBar[f] /\ old[g] \in Open /\ phaseBar'[g] \in Open /\ g \in Event
    BY <1>6, <1>12 DEF aheadBar
  <2>2. g \notin arrived BY <1>2, <1>11, <2>1
  <2>3. aheadBar'[g] \subseteq aheadBar[g] BY <1>2, <2>1, <2>2
  <2>4. QED BY <1>5, <2>1, <2>3
<1>15. MessageIsNext(e)' BY <1>5, <1>13, <1>14 DEF MessageIsNext
<1>16. Unresolved(jobs, e)' BY <1>4 DEF Unresolved
<1>17. (SuccessorIsMessage(e) <=> MessageIsNext(e))'
  <2>1. IInv' /\ Unresolved(jobs, e)' BY <1>16
  <2>2. QED BY <2>1, NextInInbox, PTL
<1>18. QED BY <1>15, <1>17

\* A run that is told to stop was told before, or is told now what the store says.
LEMMA Told ==
    ASSUME RInv, [Next]_vars, NEW s \in Runner, run'[s].cancel
    PROVE  \/ /\ run[s].cancel /\ run'[s].ev = run[s].ev /\ run'[s].token = run[s].token
              /\ Live(s) => Live(s)'
           \/ /\ Live(s) /\ Live(s)' /\ run'[s].ev = run[s].ev /\ run'[s].token = run[s].token
              /\ UNCHANGED storeVars /\ SuccessorIsMessage(run[s].ev)
<1> DEFINE Stays == /\ run[s].cancel /\ run'[s].ev = run[s].ev /\ run'[s].token = run[s].token
                    /\ Live(s) => Live(s)'
           Learns == /\ Live(s) /\ Live(s)'
                     /\ run'[s].ev = run[s].ev /\ run'[s].token = run[s].token
                     /\ UNCHANGED storeVars /\ SuccessorIsMessage(run[s].ev)
<1> SUFFICES Stays \/ Learns OBVIOUS
<1>t. run \in [Runner -> Run] BY DEF RInv, TypesOK
<1>1. CASE UNCHANGED run BY <1>1 DEF Live
<1>2. ASSUME NEW r \in Runner, GiveUp(r) PROVE Stays
  BY <1>t, <1>2 DEF GiveUp, Idle, Live
<1>3. ASSUME NEW r \in Runner, NEW pc, pc # "idle", Goto(r, pc) PROVE Stays
  BY <1>t, <1>3 DEF Goto, Live, Run
<1>4. ASSUME NEW r \in Runner, Raises(r) PROVE Stays
  <2>1. PICK pc : pc # "idle" /\ Goto(r, pc) BY <1>4 DEF Raises
  <2>2. QED BY <1>3, <2>1
<1>5. ASSUME NEW r \in Runner, NEW d \in Lags, Precheck(r, d) PROVE Stays \/ Learns
  <2>1. CASE GiveUp(r) BY <1>2, <2>1
  <2>2. CASE run' = [run EXCEPT ![r].pc = "active", ![r].cancel = SuccessorIsMessage(run[r].ev)]
    <3> DEFINE told == SuccessorIsMessage(run[r].ev)
    <3> HIDE DEF told
    <3>1. CASE s = r
      <4>1. run'[s].cancel = told /\ run'[s].pc = "active"
            /\ run'[s].ev = run[s].ev /\ run'[s].token = run[s].token
        BY <1>t, <2>2, <3>1 DEF Run, told
      <4>2. QED BY <1>5, <3>1, <4>1 DEF Precheck, Live, told
    <3>2. CASE s # r BY <1>t, <2>2, <3>2 DEF Live
    <3>3. QED BY <3>1, <3>2
  <2>3. QED BY <1>5, <2>1, <2>2 DEF Precheck
<1>6. ASSUME NEW r \in Runner, NEW d \in Lags, WatchInterrupt(r, d) PROVE Stays \/ Learns
  <2>1. CASE s = r
    BY <1>t, <1>6, <2>1 DEF WatchInterrupt, Run, Live, Handling
  <2>2. CASE s # r BY <1>t, <1>6, <2>2 DEF WatchInterrupt, Live
  <2>3. QED BY <2>1, <2>2
<1>7. ASSUME NEW r \in Runner, Doom(r) PROVE Stays
  <2> DEFINE pc == IF run[r].pc = "done" THEN "failed" ELSE run[r].pc
             doomed == [run[r] EXCEPT !.doomed = TRUE, !.pc = pc]
  <2>1. run' = [run EXCEPT ![r] = doomed] BY <1>t, <1>7 DEF Run, Doom
  <2>2. doomed.cancel = run[r].cancel /\ doomed.ev = run[r].ev /\ doomed.token = run[r].token
        /\ doomed.pc = pc
    BY <1>t DEF Run
  <2>3. pc # "idle" BY <1>7 DEF Doom, Handling
  <2> HIDE DEF doomed, pc
  <2>4. QED BY <1>t, <2>1, <2>2, <2>3 DEF Live
<1>8. ASSUME NEW r \in Runner, Checkpoint(r) PROVE Stays
  BY <1>t, <1>8 DEF Checkpoint, Run, Live
<1>9. ASSUME NEW r \in Runner, NEW d \in Lags, Mark(r, d) PROVE Stays
  <2>1. CASE run' = [run EXCEPT ![r].marked = TRUE] BY <1>t, <2>1 DEF Run, Live
  <2>2. QED BY <1>4, <1>9, <2>1 DEF Mark
<1>10. ASSUME NEW r \in Runner, CallBare(r) PROVE Stays
  <2> DEFINE more == run[r].calls + 1
             new == [run[r] EXCEPT !.pc = "bare", !.calls = more]
  <2> HIDE DEF more
  <2>1. run' = [run EXCEPT ![r] = new] BY <1>t, <1>10 DEF CallBare, Run, more
  <2>2. new.cancel = run[r].cancel /\ new.ev = run[r].ev /\ new.token = run[r].token /\ new.pc = "bare"
    BY <1>t DEF Run
  <2> HIDE DEF new
  <2>3. QED BY <1>t, <2>1, <2>2 DEF Live
<1>11. ASSUME NEW r \in Runner, NEW d \in Lags, CallBracketed(r, d) PROVE Stays
  <2> DEFINE more == run[r].calls + 1
             new == [run[r] EXCEPT !.pc = "bracket", !.calls = more, !.marked = TRUE]
  <2> HIDE DEF more
  <2>1. CASE run' = [run EXCEPT ![r].pc = "bracket", ![r].calls = @ + 1, ![r].marked = TRUE]
    <3>1. run' = [run EXCEPT ![r] = new] BY <1>t, <2>1 DEF Run, more
    <3>2. new.cancel = run[r].cancel /\ new.ev = run[r].ev /\ new.token = run[r].token
          /\ new.pc = "bracket"
      BY <1>t DEF Run
    <3> HIDE DEF new
    <3>3. QED BY <1>t, <3>1, <3>2 DEF Live
  <2>2. QED BY <1>4, <1>11, <2>1 DEF CallBracketed
<1>12. ASSUME NEW r \in Runner, NEW d \in Lags, CallEnds(r, d) PROVE Stays
  BY <1>3, <1>4, <1>12 DEF CallEnds, BareReturns, BracketReturns, BracketRaises
<1>13. ASSUME NEW r \in Runner, HandlerEnds(r) PROVE Stays
  BY <1>3, <1>13 DEF HandlerEnds, HandlerReturns, HandlerRaises
<1>14. ASSUME NEW r \in Runner, NEW d \in Lags, NEW e \in Event, StartJob(r, e, d) PROVE Stays
  <2>1. CASE s = r
    <3> DEFINE pc == IF e \in Private THEN "precheck" ELSE "active"
               token == issued'[e]
               marked == jobs'[e].started
               new == [Idle EXCEPT !.pc = pc, !.ev = e, !.token = token, !.era = epoch[e],
                                   !.marked = marked]
    <3>1. run' = [run EXCEPT ![r] = new] BY <1>14 DEF StartJob
    <3>2. new.cancel = FALSE BY DEF Idle
    <3> HIDE DEF new
    <3>3. QED BY <1>t, <2>1, <3>1, <3>2
  <2>2. CASE s # r BY <1>t, <1>14, <2>2 DEF StartJob, Live
  <2>3. QED BY <2>1, <2>2
<1>15. ASSUME NEW r \in Runner, NEW d \in Lags,
              Start(r, d) \/ Precheck(r, d) \/ Act(r, d) \/ CallEnds(r, d)
                \/ Beside(r, d) \/ Settle(r, d)
       PROVE  Stays \/ Learns
  BY <1>1, <1>2, <1>5, <1>6, <1>7, <1>8, <1>9, <1>10, <1>11, <1>12, <1>14, <1>15
  DEF Start, StartNothing, Act, Beside, Heartbeat, LeaseLost, Shutdown, Settle, runnerVars
<1>16. CASE UNCHANGED vars \/ Clock \/ \E d \in Lags, e \in Event : Outside(e, d)
  BY <1>1, <1>16 DEF vars, runnerVars, Clock, Outside
<1>17. QED BY <1>2, <1>13, <1>15, <1>16 DEF Next, Crash

\* What a run was told holds as long as it has its job.
ToldOK ==
    /\ \A r \in Runner : run[r].cancel => Live(r)
    /\ \A r \in Runner, e \in Event :
          /\ run[r].cancel /\ run[r].ev = e
          /\ jobs[e].status = "running" /\ jobs[e].token = run[r].token
          => SuccessorIsMessage(e)

LEMMA ToldKept ==
    ASSUME RInv, IInv', ToldOK, [Next]_vars PROVE ToldOK'
<1>1. ASSUME NEW r \in Runner, run'[r].cancel
      PROVE  /\ Live(r) /\ Live(r)' /\ run'[r].ev = run[r].ev /\ run'[r].token = run[r].token
             /\ \/ run[r].cancel
                \/ UNCHANGED storeVars /\ SuccessorIsMessage(run[r].ev)
  BY <1>1, Told DEF ToldOK
<1>2. ASSUME NEW r \in Runner, NEW e \in Event, run'[r].cancel, run'[r].ev = e,
             jobs'[e].status = "running", jobs'[e].token = run'[r].token
      PROVE  SuccessorIsMessage(e)'
  <2>1. /\ Live(r) /\ run[r].ev = e /\ run'[r].token = run[r].token
        /\ run[r].cancel \/ (UNCHANGED storeVars /\ SuccessorIsMessage(e))
    BY <1>1, <1>2
  <2>2. run[r].token \in 1..issued[e] /\ issued[e] \in Nat
    BY <2>1 DEF RInv, HeldOK, IInv, CountersOK
  <2>3. CASE UNCHANGED storeVars
    <3>1. SuccessorIsMessage(e) BY <1>2, <2>1, <2>3 DEF storeVars, ToldOK
    <3>2. QED BY <2>3, <3>1 DEF storeVars, SuccessorIsMessage, Later, Unresolved
  <2>4. CASE InboxStep /\ run[r].cancel
    <3>1. jobs[e].status = "running" /\ jobs[e].token = run[r].token
      BY <1>2, <2>1, <2>2, <2>4 DEF InboxStep, TokenStays
    <3>2. SuccessorIsMessage(e) BY <2>1, <2>4, <3>1 DEF ToldOK
    <3>3. Inbox!InboxNext /\ IInv BY <2>4 DEF InboxStep, RInv
    <3>4. QED BY <1>2, <3>1, <3>2, <3>3, NextStays
  <2>5. QED BY <2>1, <2>3, <2>4, StepsOfStore
<1>3. QED BY <1>1, <1>2 DEF ToldOK

\* The verdict of should_interrupt, cached in the run, is never out of date while
\* the run has its job: what waits behind a running job stays there, in its order.
THEOREM InterruptsCurrent == Spec => []InterruptIsCurrent
<1>1. Init => ToldOK BY DEF Init, ToldOK, Idle
<1>2. RInv /\ RInv' /\ ToldOK /\ [Next]_vars => ToldOK' BY ToldKept DEF RInv
<1>3. RInv /\ ToldOK => InterruptIsCurrent
  BY DEF RInv, HeldOK, ToldOK, InterruptIsCurrent, Holds, Owns
<1>4. QED BY <1>1, <1>2, <1>3, RunnerInvariant, PTL DEF Spec

=============================================================================
