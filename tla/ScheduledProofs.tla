--------------------------- MODULE ScheduledProofs ---------------------------
(***************************************************************************)
(* Theorems about ScheduledRunner, for any number of tasks, workers and    *)
(* callbacks, and every value of the bounds and leases.                    *)
(*                                                                         *)
(* ExecutionOK says who may act for a run: a hand that works on a run, or  *)
(* a thread it left behind, keeps the run occupied, nobody else works on   *)
(* it, and a task has one occupied run.  NoticeOK says what is still to be *)
(* told: nothing is told of a run that is not over or whose notice is      *)
(* owed, and the hand that sends holds the last ticket.  LagOK and LossOK  *)
(* hold of the one worker the guide asks for.                              *)
(***************************************************************************)
EXTENDS ScheduledRunner, TLAPS

\* The deployment the guide asks for.
OneRunner == \A r, s \in Runner : r = s

Noticing == {"notify", "sending", "record"}

\* A run that is over does not run again; it may still be reconciled.
Over == Ended \cup {"unknown"}

Lapsed(row) == row.status = "unknown" /\ row.why = "lapsed"

Limit == [kinds : SUBSET {"once", "interval", "calendar"}, turns : [1..MaxRuns -> 1..MaxTurns],
          crashes : Nat, stops : BOOLEAN]

TypesOK ==
    /\ StoreTypeOK
    /\ hand \in [Hand -> HandState]
    /\ thread \subseteq RunId
    /\ limit \in Limit
    /\ told \in [RunId \X Text -> 0..2]

\* A hand that is at work has a run, and a callback does nothing else.
Placed(h, row) ==
    /\ row.pc \notin {"idle", "waits", "claim"} => row.run \in RunId
    /\ h \in Callback => row.pc \in Working \cup {"idle"}
    /\ row.pc = "asked" => row.token < MaxTurns

\* A run that waits can be given another lease.
PlacesOK ==
    /\ \A h \in Hand : Placed(h, hand[h])
    /\ \A q \in RunId : run[q].status = "awaiting" => run[q].token < MaxTurns

\* Who acts for a run occupies it, alone.
ExecutionOK ==
    /\ \A h \in Hand : hand[h].pc \in Working =>
          /\ run[hand[h].run].status \in {"running", "unknown"}
          /\ run[hand[h].run].status = "running" => run[hand[h].run].token = hand[h].token
    /\ \A g, h \in Hand :
          hand[g].pc \in Working /\ hand[h].pc \in Working /\ hand[g].run = hand[h].run => g = h
    /\ \A q \in thread :
          /\ run[q].status \in {"running", "unknown"}
          /\ \A h \in Hand : hand[h].pc \in Working => hand[h].run # q
    /\ \A t \in Task : \A m, n \in 1..MaxRuns :
          run[t, m].status \in Occupying /\ run[t, n].status \in Occupying => m = n

\* What is owed is owed once after the end of a run, and was not told before.
NoticeOK ==
    \A q \in RunId :
        /\ run[q].status \notin Over => run[q].ticket <= 1 /\ (run[q].ticket = 1 => run[q].notice # "pending")
        /\ run[q].notice = "pending" => run[q].ticket <= 1
        /\ run[q].status \notin Over \/ run[q].notice = "pending" =>
              \A x \in Text \ {"nothing"} : told[q, x] = 0

\* Who sends a text does so for a run that is over, with its last ticket and nobody else.
SenderOK ==
    /\ \A h \in Hand : hand[h].pc \in Noticing =>
          /\ run[hand[h].run].status # "none"
          /\ hand[h].tell # "nothing" => run[hand[h].run].status \in Over
    /\ \A h \in Hand : hand[h].pc \in {"sending", "record"} => hand[h].ticket <= run[hand[h].run].ticket
    /\ \A g, h \in Hand :
          /\ hand[g].pc \in {"sending", "record"} /\ hand[h].pc \in {"sending", "record"}
          /\ hand[g].run = hand[h].run /\ hand[g].ticket = hand[h].ticket
          => g = h
    /\ \A h \in Hand : hand[h].pc = "sending" /\ hand[h].tell # "nothing" =>
          /\ hand[h].ticket = run[hand[h].run].ticket /\ run[hand[h].run].notice # "pending"
          /\ \A x \in Text \ {"nothing"} : told[hand[h].run, x] = 0
    /\ \A h \in Hand : hand[h].pc = "record" /\ hand[h].tell # "nothing" /\ hand[h].sent =>
          told[hand[h].run, hand[h].tell] > 0
    /\ \A q \in RunId, x \in Text \ {"nothing"} : told[q, x] <= 1

\* A task with a trigger has a row for its run; one that runs once has none before.
TasksOK ==
    \A t \in Task :
        /\ task[t].state = "draft" => UsedSlots(t) = {} /\ task[t].last = Floor - 1
        /\ task[t].kind # "once" /\ Full(t) => task[t].due = Never
        /\ task[t].kind = "once" /\ task[t].due # Never => UsedSlots(t) = {} /\ task[t].last = Floor - 1
        /\ task[t].kind # "once" => task[t].last <= 0

\* The worker has not run what its reading of the clock does not know to be due.
LagOK ==
    /\ \A r \in Runner : hand[r].pc \in Reading =>
          \A t \in Task : task[t].kind # "once" => task[t].last <= -hand[r].age
    /\ TriggersAdvance

\* Nobody but the worker, and not while it delivers, freezes a run whose lease lapsed.
LossOK ==
    /\ LossIsTold
    /\ \A r \in Runner : hand[r].pc \in Noticing /\ Lapsed(run[hand[r].run]) => hand[r].tell = "unknown"

IInv ==
    /\ TypesOK
    /\ PlacesOK
    /\ ExecutionOK
    /\ NoticeOK
    /\ SenderOK
    /\ TasksOK
    /\ OneRunner => LagOK /\ LossOK

-----------------------------------------------------------------------------
(* The constants and the rows *)

LEMMA Constants ==
    /\ MaxRuns \in Nat /\ MaxRuns > 0 /\ MaxTurns \in Nat /\ MaxTurns > 0
    /\ Horizon \in Nat /\ Horizon > 0 /\ Lease \in Nat /\ Lease > 0
    /\ AskTTL \in Nat /\ AskTTL > 0 /\ NoticeLease \in Nat /\ NoticeLease > 0
    /\ Grace \in Nat /\ MaxLag \in Nat /\ MaxLag < Lease
    /\ Never \in Int /\ Never = Horizon + 1 /\ Floor \in Int /\ Floor = -(Grace + MaxLag + 1)
BY ScheduledAssumption DEF Never, Floor

LEMMA Ranges ==
    /\ 0 \in 0..MaxTurns /\ 1 \in 0..MaxTurns /\ 0 \in 0..Lease /\ Lease \in 0..Lease
    /\ 0 \in 0..AskTTL /\ AskTTL \in 0..AskTTL /\ 0 \in 0..NoticeLease /\ NoticeLease \in 0..NoticeLease
BY Constants

LEMMA RunIds ==
    /\ \A t \in Task, n \in 1..MaxRuns : <<t, n>> \in RunId
    /\ \A q \in RunId : q[1] \in Task /\ q[2] \in 1..MaxRuns /\ q = <<q[1], q[2]>>
BY DEF RunId

LEMMA Statuses ==
    /\ Over = {"succeeded", "failed", "missed", "skipped_overlap", "unknown"}
    /\ Occupying = {"running", "awaiting", "unknown"}
    /\ Turning = {"turn", "acting", "acted", "asked", "raised"}
    /\ Working = {"turn", "acting", "acted", "asked", "raised", "decide", "claimed", "writing"}
    /\ Noticing = {"notify", "sending", "record"}
    /\ Reading = {"waits", "expire", "claim"}
BY DEF Over, Ended, Occupying, Turning, Working, Noticing, Reading

\* What the invariant knows of a row.
Same(q) ==
    /\ run'[q].status = run[q].status /\ run'[q].token = run[q].token /\ run'[q].notice = run[q].notice
    /\ run'[q].ticket = run[q].ticket /\ run'[q].why = run[q].why

Rows == run \in [RunId -> RunRow]

LEMMA NoRowTyped == NoRow \in RunRow
BY Ranges DEF NoRow, RunRow

\* One row is written.
LEMMA RowPut ==
    ASSUME Rows, NEW q \in RunId, NEW row \in RunRow, run' = [run EXCEPT ![q] = row]
    PROVE  Rows' /\ run'[q] = row /\ \A p \in RunId \ {q} : Same(p) /\ run'[p] = run[p]
BY DEF Rows, Same

LEMMA AskSet ==
    ASSUME Rows, NEW q \in RunId, NEW state \in {"none", "awaiting", "executing", "unknown", "expired"},
           SetAsk(q, state)
    PROVE  Rows' /\ \A p \in RunId : Same(p)
BY DEF Rows, SetAsk, RunRow, Same

LEMMA Renewed ==
    ASSUME Rows, NEW q \in RunId, NEW token, Renew(q, token)
    PROVE  Rows' /\ \A p \in RunId : Same(p)
BY Ranges DEF Rows, Renew, RunRow, Same

LEMMA WaitRecorded ==
    ASSUME Rows, NEW q \in RunId, NEW token \in 0..MaxTurns, RecordWait(q, token)
    PROVE  Rows' /\ \A p \in RunId : Same(p)
<1> DEFINE row == [run[q] EXCEPT !.ask = "awaiting", !.askOf = token, !.wait = AskTTL]
<1>1. run[q] \in RunRow BY DEF Rows
<1>2. row \in RunRow BY <1>1, Ranges DEF RunRow
<1>3. run' = [run EXCEPT ![q] = row] BY <1>1 DEF Rows, RecordWait
<1>4. Rows' /\ run'[q] = row /\ \A p \in RunId \ {q} : Same(p) BY <1>2, <1>3, RowPut
<1>5. row.token = run[q].token /\ row.notice = run[q].notice /\ row.ticket = run[q].ticket
      /\ row.status = run[q].status /\ row.why = run[q].why
  BY <1>1 DEF RunRow
<1> HIDE DEF row
<1>6. QED BY <1>4, <1>5 DEF Same

LEMMA Finished ==
    ASSUME Rows, NEW q \in RunId, NEW status \in Occupying \cup Ended, Finish(q, status)
    PROVE  /\ Rows' /\ \A p \in RunId \ {q} : Same(p)
           /\ run'[q].status = status /\ run'[q].why = "none" /\ run'[q].token = run[q].token
           /\ run'[q].notice = run[q].notice /\ run'[q].ticket = run[q].ticket
<1> DEFINE row == [run[q] EXCEPT !.status = status, !.left = 0, !.why = "none"]
<1>1. run[q] \in RunRow BY DEF Rows
<1>2. row \in RunRow BY <1>1, Ranges DEF RunRow
<1>3. run' = [run EXCEPT ![q] = row] BY <1>1 DEF Rows, Finish
<1>4. Rows' /\ run'[q] = row /\ \A p \in RunId \ {q} : Same(p) BY <1>2, <1>3, RowPut
<1>5. row.status = status /\ row.why = "none" /\ row.token = run[q].token /\ row.notice = run[q].notice /\ row.ticket = run[q].ticket
  BY <1>1 DEF RunRow
<1> HIDE DEF row
<1>6. QED BY <1>4, <1>5 DEF Same

LEMMA WaitFinished ==
    ASSUME Rows, NEW q \in RunId, NEW status \in Ended \cup {"unknown"}, FinishWait(q, status)
    PROVE  /\ Rows' /\ \A p \in RunId \ {q} : Same(p)
           /\ run'[q].status = status /\ run'[q].why # "lapsed" /\ run'[q].token = run[q].token
           /\ run'[q].why = (IF status = "failed" THEN "expired" ELSE "none")
           /\ run'[q].notice = "pending" /\ run'[q].ticket = run[q].ticket
<1> DEFINE row == [Renotify(run[q]) EXCEPT !.status = status, !.left = 0,
                                             !.why = IF status = "failed" THEN "expired" ELSE "none"]
<1>1. run[q] \in RunRow BY DEF Rows
<1>2. row \in RunRow BY <1>1, Ranges DEF RunRow, Renotify, Occupying
<1>3. run' = [run EXCEPT ![q] = row] BY <1>1 DEF Rows, FinishWait, Renotify
<1>4. Rows' /\ run'[q] = row /\ \A p \in RunId \ {q} : Same(p) BY <1>2, <1>3, RowPut
<1>5. row.status = status /\ row.notice = "pending" /\ row.why = (IF status = "failed" THEN "expired" ELSE "none")
      /\ row.token = run[q].token /\ row.ticket = run[q].ticket
  BY <1>1 DEF RunRow, Renotify
<1> HIDE DEF row
<1>6. QED BY <1>4, <1>5 DEF Same

LEMMA ResumeClaimed ==
    ASSUME Rows, NEW q \in RunId, run[q].token < MaxTurns, ClaimResume(q)
    PROVE  /\ Rows' /\ \A p \in RunId \ {q} : Same(p)
           /\ run[q].status = "awaiting" /\ run'[q].status = "running"
           /\ run'[q].token = run[q].token + 1 /\ run'[q].token \in 0..MaxTurns
           /\ run'[q].notice = run[q].notice /\ run'[q].ticket = run[q].ticket /\ run'[q].why = run[q].why
BY Ranges DEF Rows, ClaimResume, RunRow, Same, Occupying

LEMMA Reconciled ==
    ASSUME Rows, NEW q \in RunId, Reconcile(q)
    PROVE  /\ Rows' /\ \A p \in RunId \ {q} : Same(p)
           /\ run[q].status = "unknown" /\ run'[q].status \in Ended
           /\ run'[q].notice = run[q].notice /\ run'[q].ticket = run[q].ticket /\ run'[q].why = run[q].why
<1>1. PICK status \in {"succeeded", "failed"} :
         run' = [run EXCEPT ![q].status = status, ![q].token = 0, ![q].left = 0, ![q].wait = 0]
  BY DEF Reconcile
<1> DEFINE row == [run[q] EXCEPT !.status = status, !.token = 0, !.left = 0, !.wait = 0]
<1>2. run[q] \in RunRow BY DEF Rows
<1>3. row \in RunRow BY <1>2, Ranges DEF RunRow, Ended
<1>4. run' = [run EXCEPT ![q] = row] BY <1>1, <1>2 DEF Rows
<1>5. Rows' /\ run'[q] = row /\ \A p \in RunId \ {q} : Same(p) BY <1>3, <1>4, RowPut
<1>6. QED BY <1>2, <1>5 DEF RunRow, Reconcile, Same, Ended

LEMMA DeliveryClaimed ==
    ASSUME Rows, NEW q \in RunId, run[q].ticket <= 1, ClaimDelivery(q)
    PROVE  /\ Rows' /\ \A p \in RunId \ {q} : Same(p)
           /\ run[q].notice = "pending" /\ run[q].status \notin {"none", "running"}
           /\ run'[q].status = run[q].status /\ run'[q].token = run[q].token /\ run'[q].why = run[q].why
           /\ run'[q].notice = "sending" /\ run'[q].ticket = run[q].ticket + 1 /\ run'[q].ticket \in 0..2
BY Ranges DEF Rows, ClaimDelivery, Pending, RunRow, Same

LEMMA DeliveryRecorded ==
    ASSUME Rows, NEW q \in RunId, NEW ticket, NEW outcome \in {"delivered", "unknown"},
           RecordDelivery(q, ticket, outcome)
    PROVE  /\ Rows' /\ \A p \in RunId \ {q} : Same(p)
           /\ run[q].notice = "sending" /\ run[q].ticket = ticket
           /\ run'[q].status = run[q].status /\ run'[q].token = run[q].token /\ run'[q].why = run[q].why
           /\ run'[q].notice = outcome /\ run'[q].ticket = run[q].ticket
<1> DEFINE row == [run[q] EXCEPT !.notice = outcome, !.nleft = 0]
<1>1. run[q] \in RunRow BY DEF Rows
<1>2. row \in RunRow BY <1>1, Ranges DEF RunRow
<1>3. run' = [run EXCEPT ![q] = row] BY <1>1 DEF Rows, RecordDelivery, Recordable
<1>4. Rows' /\ run'[q] = row /\ \A p \in RunId \ {q} : Same(p) BY <1>2, <1>3, RowPut
<1>5. row.notice = outcome /\ row.token = run[q].token /\ row.ticket = run[q].ticket
      /\ row.status = run[q].status /\ row.why = run[q].why
  BY <1>1 DEF RunRow
<1> HIDE DEF row
<1>6. QED BY <1>4, <1>5 DEF RecordDelivery, Recordable

\* What the expiry of leases and deliveries makes of the rows.
Expired(q) ==
    /\ run'[q].token = run[q].token /\ run'[q].ticket = run[q].ticket
    /\ \/ /\ run'[q].status = run[q].status /\ run'[q].why = run[q].why
          /\ run'[q].notice = run[q].notice \/ (run[q].notice = "sending" /\ run'[q].notice = "unknown")
          /\ ~(run[q].status = "running" /\ run[q].left = 0)
       \/ /\ run[q].status = "running" /\ run[q].left = 0
          /\ run'[q].status = "unknown" /\ run'[q].why = "lapsed" /\ run'[q].notice = "pending"

LEMMA RunsExpired ==
    ASSUME Rows, \/ ExpireRuns
                 \/ run' = [q \in RunId |-> LapsedNotice(LapsedRun(run[q]))]
    PROVE  Rows' /\ \A q \in RunId : Expired(q)
<1>1. ASSUME NEW q \in RunId
      PROVE  /\ LapsedRun(run[q]) \in RunRow /\ LapsedNotice(LapsedRun(run[q])) \in RunRow
             /\ run'[q] \in {LapsedRun(run[q]), LapsedNotice(LapsedRun(run[q]))} => Expired(q)
  <2>1. run[q] \in RunRow BY DEF Rows
  <2>2. CASE run[q].status = "running" /\ run[q].left = 0
    <3> DEFINE row == [[run[q] EXCEPT !.notice = "pending", !.nleft = 0] EXCEPT !.status = "unknown", !.why = "lapsed"]
    <3>1. LapsedRun(run[q]) = row BY <2>2 DEF LapsedRun, Renotify
    <3>2. row \in RunRow BY <2>1, Ranges DEF RunRow, Occupying
    <3>3. /\ row.status = "unknown" /\ row.why = "lapsed" /\ row.notice = "pending"
          /\ row.token = run[q].token /\ row.ticket = run[q].ticket
      BY <2>1 DEF RunRow
    <3>4. LapsedNotice(row) = row BY <3>3 DEF LapsedNotice
    <3> HIDE DEF row
    <3>5. QED BY <2>2, <3>1, <3>2, <3>3, <3>4 DEF Expired
  <2>3. CASE ~(run[q].status = "running" /\ run[q].left = 0)
    BY <2>1, <2>3, Constants, ZenonT(40) DEF LapsedRun, LapsedNotice, RunRow, Expired
  <2>4. QED BY <2>2, <2>3
<1>2. QED BY <1>1 DEF Rows, ExpireRuns

-----------------------------------------------------------------------------
(* Steps that start nothing and tell nothing *)

Busy(q) == q \in thread \/ \E h \in Hand : hand[h].pc \in Working /\ hand[h].run = q

\* Who works on a row goes on under the same lease or finds it frozen.
RowRuns(q) ==
    /\ run'[q].status \in Occupying => run[q].status \in Occupying
    /\ Busy(q)' => run'[q].status = "unknown" \/ (run'[q].status = run[q].status /\ run'[q].token = run[q].token)

RowFresh(q) == run[q].status = "none" /\ run'[q].status # "none" /\ run'[q].ticket = 0

\* A row is new, or keeps its ticket; its notice is owed anew only where it ends.
RowTold(q) ==
    \/ RowFresh(q)
    \/ /\ run'[q].status = "none" <=> run[q].status = "none"
       /\ run[q].status \in Over => run'[q].status \in Over
       /\ run'[q].ticket = run[q].ticket
       /\ \/ run'[q].notice = "pending" <=> run[q].notice = "pending"
          \/ run[q].status \notin Over /\ run'[q].status \in Over

RowCalm(q) == RowRuns(q) /\ RowTold(q) /\ ~RowFresh(q)

\* A hand does not take up work.
HandWorks(h) ==
    hand'[h].pc \in Working =>
        hand[h].pc \in Working /\ hand'[h].run = hand[h].run /\ hand'[h].token = hand[h].token

\* What a hand delivers it delivered before.
HandTells(h) ==
    hand'[h].pc \in Noticing =>
        /\ hand'[h].pc = hand[h].pc /\ hand'[h].run = hand[h].run /\ hand'[h].tell = hand[h].tell
        /\ hand'[h].ticket = hand[h].ticket /\ hand'[h].sent = hand[h].sent

\* A hand has news of a run.
HandNews(h) ==
    /\ hand'[h].pc = "notify"
    /\ run'[hand'[h].run].status # "none"
    /\ hand'[h].tell # "nothing" => run'[hand'[h].run].status \in Over

HandCalm(h) == HandWorks(h) /\ (HandTells(h) \/ HandNews(h))

\* A thread goes on where a hand stopped.
ThreadCalm ==
    \A q \in thread' : q \in thread \/ \E h \in Hand : hand[h].pc \in Working /\ hand[h].run = q /\ hand'[h].pc \notin Working

Calm ==
    /\ TypesOK' /\ PlacesOK'
    /\ \A q \in RunId : RowCalm(q)
    /\ \A h \in Hand : HandCalm(h)
    /\ ThreadCalm
    /\ told' = told

LEMMA BusyBefore ==
    ASSUME \A h \in Hand : HandWorks(h), ThreadCalm, NEW q, Busy(q)' PROVE Busy(q)
BY DEF HandWorks, ThreadCalm, Busy

\* Who acts for a run occupies it.
LEMMA BusyOccupies ==
    ASSUME IInv, NEW q \in RunId, Busy(q) PROVE run[q].status \in {"running", "unknown"}
BY DEF IInv, ExecutionOK, Busy

LEMMA CalmExecution ==
    ASSUME IInv, TypesOK', PlacesOK', \A q \in RunId : RowRuns(q), \A h \in Hand : HandWorks(h), ThreadCalm
    PROVE  ExecutionOK'
<1>1. \A h \in Hand : hand'[h].pc \in Working =>
         hand[h].pc \in Working /\ hand'[h].run = hand[h].run /\ hand'[h].token = hand[h].token
  BY DEF HandWorks
<1>2. \A h \in Hand : hand'[h].pc \in Working => hand'[h].run \in RunId
  BY Statuses DEF PlacesOK, Placed
<1>3. thread' \subseteq RunId BY DEF TypesOK
<1>4. ASSUME NEW h \in Hand, hand'[h].pc \in Working
      PROVE  /\ run'[hand'[h].run].status \in {"running", "unknown"}
             /\ run'[hand'[h].run].status = "running" => run'[hand'[h].run].token = hand'[h].token
  <2>1. hand'[h].run \in RunId /\ hand'[h].run = hand[h].run /\ hand[h].pc \in Working /\ hand'[h].token = hand[h].token
    BY <1>1, <1>2, <1>4
  <2>2. PICK q \in RunId : q = hand'[h].run BY <2>1
  <2>3. Busy(q)' BY <1>4, <2>2 DEF Busy
  <2>4. run'[q].status = "unknown" \/ (run'[q].status = run[q].status /\ run'[q].token = run[q].token)
    BY <2>3 DEF RowRuns
  <2>5. run[q].status \in {"running", "unknown"} /\ (run[q].status = "running" => run[q].token = hand[h].token)
    BY <2>1, <2>2 DEF IInv, ExecutionOK
  <2>6. QED BY <2>1, <2>2, <2>4, <2>5
<1>5. \A g, h \in Hand :
         hand'[g].pc \in Working /\ hand'[h].pc \in Working /\ hand'[g].run = hand'[h].run => g = h
  BY <1>1 DEF IInv, ExecutionOK
<1>6. ASSUME NEW q \in thread'
      PROVE  /\ run'[q].status \in {"running", "unknown"}
             /\ \A h \in Hand : hand'[h].pc \in Working => hand'[h].run # q
  <2>1. q \in thread \/ \E h \in Hand : hand[h].pc \in Working /\ hand[h].run = q /\ hand'[h].pc \notin Working
    BY DEF ThreadCalm
  <2>2. run[q].status \in {"running", "unknown"} BY <2>1 DEF IInv, ExecutionOK
  <2>3. Busy(q)' /\ q \in RunId BY <1>3 DEF Busy
  <2>4. run'[q].status = "unknown" \/ run'[q].status = run[q].status BY <2>3 DEF RowRuns
  <2>5. ASSUME NEW h \in Hand, hand'[h].pc \in Working, hand'[h].run = q PROVE FALSE
    <3>1. hand[h].pc \in Working /\ hand[h].run = q BY <1>1, <2>5
    <3>2. q \notin thread BY <3>1 DEF IInv, ExecutionOK
    <3>3. PICK g \in Hand : hand[g].pc \in Working /\ hand[g].run = q /\ hand'[g].pc \notin Working
      BY <2>1, <3>2
    <3>4. g = h BY <3>1, <3>3 DEF IInv, ExecutionOK
    <3>5. QED BY <2>5, <3>3, <3>4
  <2>6. QED BY <2>2, <2>4, <2>5
<1>7. \A t \in Task : \A m, n \in 1..MaxRuns :
         run'[t, m].status \in Occupying /\ run'[t, n].status \in Occupying => m = n
  BY RunIds DEF IInv, ExecutionOK, RowRuns
<1>8. QED BY <1>4, <1>5, <1>6, <1>7 DEF ExecutionOK

LEMMA CalmNotice == ASSUME IInv, \A q \in RunId : RowTold(q), told' = told PROVE NoticeOK'
<1>1. ASSUME NEW q \in RunId
      PROVE  /\ run'[q].status \notin Over =>
                   run'[q].ticket <= 1 /\ (run'[q].ticket = 1 => run'[q].notice # "pending")
             /\ run'[q].notice = "pending" => run'[q].ticket <= 1
             /\ run'[q].status \notin Over \/ run'[q].notice = "pending" =>
                   \A x \in Text \ {"nothing"} : told[q, x] = 0
  <2>1. CASE RowFresh(q)
    <3>1. run[q].status \notin Over /\ run'[q].ticket = 0 BY <2>1, Statuses DEF RowFresh
    <3>2. \A x \in Text \ {"nothing"} : told[q, x] = 0 BY <3>1 DEF IInv, NoticeOK
    <3>3. run'[q].ticket <= 1 /\ run'[q].ticket # 1 BY <3>1
    <3>4. QED BY <3>2, <3>3, Zenon
  <2>2. CASE ~RowFresh(q) BY <2>2 DEF RowTold, IInv, NoticeOK
  <2>3. QED BY <2>1, <2>2
<1>2. QED BY <1>1 DEF NoticeOK

LEMMA CalmSender ==
    ASSUME IInv, PlacesOK', \A q \in RunId : RowTold(q), told' = told,
           \A h \in Hand : HandTells(h) \/ HandNews(h)
    PROVE  SenderOK'
<1>1. \A h \in Hand : hand'[h].pc \in Noticing => hand'[h].run \in RunId
  BY Statuses DEF PlacesOK, Placed
<1>2. \A h \in Hand : hand'[h].pc \in {"sending", "record"} =>
         /\ hand'[h].pc = hand[h].pc /\ hand'[h].run = hand[h].run /\ hand'[h].tell = hand[h].tell
         /\ hand'[h].ticket = hand[h].ticket /\ hand'[h].sent = hand[h].sent
  BY Statuses DEF HandTells, HandNews
<1>3. ASSUME NEW h \in Hand, hand'[h].pc \in Noticing
      PROVE  /\ run'[hand'[h].run].status # "none"
             /\ hand'[h].tell # "nothing" => run'[hand'[h].run].status \in Over
  <2>1. CASE HandTells(h)
    <3>1. hand[h].pc \in Noticing /\ hand[h].run = hand'[h].run /\ hand[h].tell = hand'[h].tell
      BY <1>3, <2>1 DEF HandTells
    <3>2. /\ run[hand[h].run].status # "none"
          /\ hand[h].tell # "nothing" => run[hand[h].run].status \in Over
      BY <3>1 DEF IInv, SenderOK
    <3>3. hand'[h].run \in RunId BY <1>1, <1>3
    <3>4. QED BY <3>1, <3>2, <3>3 DEF RowTold, RowFresh
  <2>2. CASE HandNews(h) BY <2>2 DEF HandNews
  <2>3. QED BY <2>1, <2>2
<1>4. \A h \in Hand : hand'[h].pc \in {"sending", "record"} =>
         /\ run'[hand'[h].run].ticket = run[hand[h].run].ticket
         /\ run'[hand'[h].run].notice = "pending" =>
               run[hand[h].run].notice = "pending" \/ run[hand[h].run].status \notin Over
  <2>1. \A h \in Hand : hand'[h].pc \in {"sending", "record"} =>
           hand'[h].run \in RunId /\ run[hand'[h].run].status # "none"
    BY <1>1, <1>2, Statuses, ZenonT(40) DEF IInv, SenderOK
  <2>2. QED BY <1>2, <2>1 DEF RowTold, RowFresh
<1>5. ASSUME NEW h \in Hand, hand'[h].pc = "sending", hand'[h].tell # "nothing"
      PROVE  /\ hand'[h].ticket = run'[hand'[h].run].ticket /\ run'[hand'[h].run].notice # "pending"
             /\ \A x \in Text \ {"nothing"} : told[hand'[h].run, x] = 0
  <2>1. /\ hand[h].pc = "sending" /\ hand[h].run = hand'[h].run /\ hand[h].tell = hand'[h].tell
        /\ hand[h].ticket = hand'[h].ticket /\ hand[h].pc \in Noticing /\ hand'[h].run \in RunId
    BY <1>1, <1>2, <1>5, Statuses
  <2>2. /\ hand[h].ticket = run[hand[h].run].ticket /\ run[hand[h].run].notice # "pending"
        /\ run[hand[h].run].status \in Over
        /\ \A x \in Text \ {"nothing"} : told[hand[h].run, x] = 0
    BY <1>5, <2>1 DEF IInv, SenderOK
  <2>3. QED BY <1>4, <1>5, <2>1, <2>2
<1>6. \A h \in Hand : hand'[h].pc = "record" /\ hand'[h].tell # "nothing" /\ hand'[h].sent =>
         told[hand'[h].run, hand'[h].tell] > 0
  BY <1>2 DEF IInv, SenderOK
<1>7. \A g, h \in Hand :
          /\ hand'[g].pc \in {"sending", "record"} /\ hand'[h].pc \in {"sending", "record"}
          /\ hand'[g].run = hand'[h].run /\ hand'[g].ticket = hand'[h].ticket
          => g = h
  BY <1>2 DEF IInv, SenderOK
<1>8. \A h \in Hand : hand'[h].pc \in {"sending", "record"} => hand'[h].ticket <= run'[hand'[h].run].ticket
  BY <1>2, <1>4 DEF IInv, SenderOK
<1>9. told' = told /\ \A q \in RunId, x \in Text \ {"nothing"} : told[q, x] <= 1
  BY DEF IInv, SenderOK
<1>10. QED BY <1>3, <1>5, <1>6, <1>7, <1>8, <1>9 DEF SenderOK

LEMMA CalmTasks == ASSUME IInv, task' = task, \A q \in RunId : run'[q].status = "none" <=> run[q].status = "none"
                   PROVE  TasksOK'
<1>1. \A t \in Task : UsedSlots(t)' = UsedSlots(t) BY RunIds DEF UsedSlots
<1>2. QED BY <1>1 DEF IInv, TasksOK, Full

\* A reading of the clock is new or the one before.
AgesCalm ==
    \A r \in Runner : hand'[r].pc \in Reading =>
        hand'[r].age = 0 \/ (hand[r].pc \in Reading /\ hand'[r].age = hand[r].age)

LEMMA CalmLag == ASSUME IInv, task' = task, AgesCalm PROVE (OneRunner => LagOK)'
<1> SUFFICES ASSUME OneRunner PROVE LagOK' BY DEF OneRunner
<1>1. LagOK BY DEF IInv
<1>2. ASSUME NEW r \in Runner, hand'[r].pc \in Reading, NEW t \in Task, task[t].kind # "once"
      PROVE  task[t].last <= -hand'[r].age
  <2>1. CASE hand'[r].age = 0 BY <1>2, <2>1 DEF IInv, TasksOK
  <2>2. CASE hand[r].pc \in Reading /\ hand'[r].age = hand[r].age BY <1>1, <1>2, <2>2 DEF LagOK
  <2>3. QED BY <1>2, <2>1, <2>2 DEF AgesCalm
<1>3. TriggersAdvance' BY <1>1 DEF LagOK, TriggersAdvance
<1>4. QED BY <1>2, <1>3 DEF LagOK

\* What a step may do to a run whose lease lapsed.
LossCalm ==
    /\ \A q \in RunId : Lapsed(run'[q]) /\ run'[q].notice = "delivered" =>
          Lapsed(run[q]) /\ (run[q].notice = "delivered" \/ told[q, "unknown"] > 0)
    /\ \A r \in Runner : hand'[r].pc \in Noticing /\ Lapsed(run'[hand'[r].run]) =>
          \/ hand'[r].tell = "unknown"
          \/ hand[r].pc \in Noticing /\ Lapsed(run[hand[r].run]) /\ hand'[r].tell = hand[r].tell

LEMMA CalmLoss == ASSUME IInv, told' = told, OneRunner => LossCalm PROVE (OneRunner => LossOK)'
<1> SUFFICES ASSUME OneRunner PROVE LossOK' BY DEF OneRunner
<1>1. LossOK /\ LossCalm BY DEF IInv
<1>2. LossIsTold'
  <2> SUFFICES ASSUME NEW q \in RunId, Lapsed(run'[q]), run'[q].notice = "delivered"
               PROVE  told[q, "unknown"] > 0
    BY DEF LossIsTold, Lapsed
  <2>1. Lapsed(run[q]) /\ (run[q].notice = "delivered" \/ told[q, "unknown"] > 0) BY <1>1 DEF LossCalm
  <2>2. QED BY <1>1, <2>1 DEF LossOK, LossIsTold, Lapsed
<1>3. \A r \in Runner : hand'[r].pc \in Noticing /\ Lapsed(run'[hand'[r].run]) => hand'[r].tell = "unknown"
  BY <1>1 DEF LossOK, LossCalm
<1>4. QED BY <1>2, <1>3 DEF LossOK, Lapsed

\* Where the tasks are taken care of.
LEMMA CalmBut ==
    ASSUME IInv, Calm, TasksOK', (OneRunner => LagOK)', OneRunner => LossCalm
    PROVE  IInv'
<1>1. ExecutionOK' /\ NoticeOK' /\ SenderOK' BY CalmExecution, CalmNotice, CalmSender DEF Calm, RowCalm, HandCalm
<1>2. (OneRunner => LossOK)' BY CalmLoss DEF Calm
<1>3. QED BY <1>1, <1>2 DEF IInv, Calm, OneRunner

LEMMA CalmKeeps ==
    ASSUME IInv, Calm, task' = task, AgesCalm, OneRunner => LossCalm
    PROVE  IInv'
<1>1. TasksOK' BY CalmTasks DEF Calm, RowCalm, RowTold
<1>2. (OneRunner => LagOK)' BY CalmLag
<1>3. QED BY <1>1, <1>2, CalmBut

-----------------------------------------------------------------------------
(* Steps of one hand *)

\* One hand changes, and takes up neither work nor news.
Still(h, new) ==
    /\ new.pc \in Working => hand[h].pc \in Working /\ new.run = hand[h].run /\ new.token = hand[h].token
    /\ new.pc \in Noticing =>
          /\ new.pc = hand[h].pc /\ new.run = hand[h].run /\ new.tell = hand[h].tell
          /\ new.ticket = hand[h].ticket /\ new.sent = hand[h].sent
    /\ new.pc \in Reading => new.age = 0 \/ (hand[h].pc \in Reading /\ new.age = hand[h].age)

Hands == hand \in [Hand -> HandState] /\ \A h \in Hand : Placed(h, hand[h])

LEMMA HandPut ==
    ASSUME Hands, NEW h \in Hand, NEW new \in HandState, Placed(h, new), hand' = [hand EXCEPT ![h] = new]
    PROVE  /\ Hands' /\ hand'[h] = new
           /\ \A g \in Hand \ {h} : hand'[g] = hand[g] /\ HandWorks(g) /\ HandTells(g)
<1>1. hand' \in [Hand -> HandState] /\ hand'[h] = new /\ \A g \in Hand \ {h} : hand'[g] = hand[g]
  BY DEF Hands
<1>2. \A g \in Hand : Placed(g, hand'[g]) BY <1>1 DEF Hands
<1>3. Hands' BY <1>1, <1>2 DEF Hands, Placed
<1>4. QED BY <1>1, <1>3 DEF HandWorks, HandTells

LEMMA HandStill ==
    ASSUME Hands, NEW h \in Hand, NEW new \in HandState, Placed(h, new), Still(h, new),
           hand' = [hand EXCEPT ![h] = new]
    PROVE  /\ Hands' /\ hand'[h] = new /\ \A g \in Hand \ {h} : hand'[g] = hand[g]
           /\ \A g \in Hand : HandWorks(g) /\ HandTells(g)
           /\ AgesCalm
<1>1. /\ Hands' /\ hand'[h] = new
      /\ \A g \in Hand \ {h} : hand'[g] = hand[g] /\ HandWorks(g) /\ HandTells(g)
  BY HandPut
<1>2. HandWorks(h) BY <1>1 DEF Still, HandWorks
<1>3. HandTells(h) BY <1>1 DEF Still, HandTells
<1>4. AgesCalm BY <1>1 DEF AgesCalm, Still, Hand
<1>5. QED BY <1>1, <1>2, <1>3, <1>4

LEMMA IdleTyped ==
    /\ Idle \in HandState
    /\ \A h \in Hand : Placed(h, Idle) /\ Still(h, Idle)
BY Ranges, Constants, Statuses DEF Idle, HandState, Text, Placed, Still

LEMMA HandDone ==
    ASSUME Hands, NEW h \in Hand, Done(h)
    PROVE  /\ Hands' /\ hand'[h] = Idle /\ \A g \in Hand \ {h} : hand'[g] = hand[g]
           /\ \A g \in Hand : HandWorks(g) /\ HandTells(g)
           /\ AgesCalm /\ hand'[h].pc = "idle" /\ hand'[h].pc \notin Working
<1>1. hand' = [hand EXCEPT ![h] = Idle] BY DEF Done
<1>2. Hands' /\ hand'[h] = Idle /\ (\A g \in Hand \ {h} : hand'[g] = hand[g])
      /\ (\A g \in Hand : HandWorks(g) /\ HandTells(g)) /\ AgesCalm
  BY <1>1, IdleTyped, HandStill
<1>3. Idle.pc = "idle" BY DEF Idle
<1>4. QED BY <1>2, <1>3, Statuses

\* A hand at work goes on with its work.
LEMMA HandGoes ==
    ASSUME Hands, NEW h \in Hand, hand[h].pc \in Working, NEW pc \in Working, Goto(h, pc),
           pc = "asked" => hand[h].token < MaxTurns
    PROVE  /\ Hands' /\ hand'[h].pc = pc /\ \A g \in Hand \ {h} : hand'[g] = hand[g]
           /\ \A g \in Hand : HandWorks(g) /\ HandTells(g)
           /\ AgesCalm
<1> DEFINE new == [hand[h] EXCEPT !.pc = pc]
<1>1. hand[h] \in HandState /\ Placed(h, hand[h]) BY DEF Hands
<1>2. new \in HandState BY <1>1 DEF HandState
<1>3. new.pc = pc /\ new.run = hand[h].run /\ new.token = hand[h].token BY <1>1 DEF HandState
<1>4. hand' = [hand EXCEPT ![h] = new] BY <1>1 DEF Hands, Goto
<1> HIDE DEF new
<1>5. Placed(h, new) /\ Still(h, new) BY <1>1, <1>3, Statuses DEF Placed, Still
<1>6. QED BY <1>2, <1>3, <1>4, <1>5, HandStill

\* Steps that leave what the invariant knows of the rows.
LEMMA QuietKeeps ==
    ASSUME IInv, TypesOK', Hands', task' = task, told' = told, \A q \in RunId : Same(q),
           \A h \in Hand : HandWorks(h) /\ HandTells(h), ThreadCalm, AgesCalm
    PROVE  IInv'
<1>1. \A q \in RunId : RowCalm(q) BY DEF RowCalm, RowRuns, RowTold, RowFresh, Same
<1>2. PlacesOK' BY DEF PlacesOK, Hands, Same, IInv
<1>3. Calm BY <1>1, <1>2 DEF Calm, HandCalm
<1>4. LossCalm
  <2>1. \A q \in RunId : Lapsed(run'[q]) /\ run'[q].notice = "delivered" =>
           Lapsed(run[q]) /\ run[q].notice = "delivered"
    BY DEF Same, Lapsed
  <2>2. ASSUME NEW r \in Runner, hand'[r].pc \in Noticing, Lapsed(run'[hand'[r].run])
        PROVE  hand[r].pc \in Noticing /\ Lapsed(run[hand[r].run]) /\ hand'[r].tell = hand[r].tell
    <3>1. r \in Hand BY DEF Hand
    <3>2. hand[r].pc \in Noticing /\ hand'[r].run = hand[r].run /\ hand'[r].tell = hand[r].tell
      BY <2>2, <3>1 DEF HandTells
    <3>3. hand'[r].run \in RunId BY <2>2, <3>1, Statuses DEF Hands, Placed
    <3>4. QED BY <2>2, <3>2, <3>3 DEF Same, Lapsed
  <2>3. QED BY <2>1, <2>2 DEF LossCalm
<1>5. QED BY <1>3, <1>4, CalmKeeps

LEMMA Based == ASSUME IInv PROVE TypesOK /\ PlacesOK /\ Rows /\ Hands
BY DEF IInv, TypesOK, StoreTypeOK, PlacesOK, Rows, Hands

LEMMA TypesKept ==
    ASSUME IInv, Rows', Hands', task' = task, limit' \in Limit, told' = told, thread' \subseteq RunId
    PROVE  TypesOK'
BY DEF IInv, TypesOK, StoreTypeOK, Rows, Hands

\* A tool thread may outlive the hand that stops.
LEMMA Abandoned ==
    ASSUME IInv, NEW h \in Hand, Abandon(h), hand'[h].pc \notin Working
    PROVE  ThreadCalm /\ thread' \subseteq RunId
<1>1. CASE thread' = thread BY <1>1 DEF ThreadCalm, IInv, TypesOK
<1>2. CASE hand[h].pc \in {"acting", "writing"} /\ thread' = thread \cup {hand[h].run}
  <2>1. hand[h].pc \in Working BY <1>2, Statuses
  <2>2. hand[h].run \in RunId BY <1>2 DEF IInv, PlacesOK, Placed
  <2>3. QED BY <1>2, <2>1, <2>2 DEF ThreadCalm, IInv, TypesOK
<1>3. QED BY <1>1, <1>2 DEF Abandon

LEMMA Unmoved ==
    ASSUME IInv
    PROVE  /\ hand' = hand => Hands' /\ AgesCalm /\ \A h \in Hand : HandWorks(h) /\ HandTells(h)
           /\ run' = run => Rows' /\ \A q \in RunId : Same(q)
           /\ thread' = thread => ThreadCalm /\ thread' \subseteq RunId
           /\ limit \in Limit
<1>1. Rows /\ Hands BY Based
<1>2. run' = run => Rows' /\ \A q \in RunId : Same(q) BY <1>1 DEF Rows, Same
<1>3. hand' = hand => Hands' BY <1>1 DEF Hands, Placed
<1>4. hand' = hand => AgesCalm /\ \A h \in Hand : HandWorks(h) /\ HandTells(h)
  BY DEF AgesCalm, HandWorks, HandTells
<1>5. thread' = thread => ThreadCalm /\ thread' \subseteq RunId BY DEF ThreadCalm, IInv, TypesOK
<1>6. QED BY <1>2, <1>3, <1>4, <1>5 DEF IInv, TypesOK

LEMMA ActKeeps == ASSUME IInv, NEW h \in Hand, Act(h) \/ Acted(h) PROVE IInv'
<1>1. PICK pc \in {"acting", "acted"} : hand[h].pc \in Working /\ Goto(h, pc)
  BY Statuses DEF Act, Acted
<1>2. pc \in Working /\ pc # "asked" BY Statuses
<1>3. Hands' /\ AgesCalm /\ \A g \in Hand : HandWorks(g) /\ HandTells(g) BY <1>1, <1>2, Based, HandGoes
<1>4. UNCHANGED <<task, run, thread, limit, told>> BY DEF Act, Acted
<1>5. QED BY <1>3, <1>4, Unmoved, TypesKept, QuietKeeps

LEMMA AskKeeps == ASSUME IInv, NEW h \in Hand, Ask(h) PROVE IInv'
<1> DEFINE q == hand[h].run
<1>1. hand[h].pc \in Working /\ hand[h].token < limit.turns[q[2]] /\ RecordWait(q, hand[h].token) /\ Goto(h, "asked")
      /\ UNCHANGED <<task, thread, limit, told>>
  BY Statuses DEF Ask
<1>2. q \in RunId BY <1>1, Statuses DEF IInv, PlacesOK, Placed
<1>3. hand[h].token \in 0..MaxTurns BY DEF IInv, TypesOK, HandState
<1>4. limit.turns[q[2]] \in 1..MaxTurns BY <1>2, RunIds DEF IInv, TypesOK, Limit
<1>5. hand[h].token < MaxTurns BY <1>1, <1>3, <1>4, Constants
<1> HIDE DEF q
<1>6. Hands' /\ AgesCalm /\ \A g \in Hand : HandWorks(g) /\ HandTells(g)
  BY <1>1, <1>5, Based, HandGoes, Statuses
<1>7. Rows' /\ \A p \in RunId : Same(p) BY <1>1, <1>2, <1>3, Based, WaitRecorded
<1>8. QED BY <1>1, <1>6, <1>7, Unmoved, TypesKept, QuietKeeps

LEMMA HeartbeatKeeps == ASSUME IInv, NEW h \in Hand, Heartbeat(h) PROVE IInv'
<1>1. hand[h].pc \in Working /\ Renew(hand[h].run, hand[h].token) /\ UNCHANGED <<task, hand, thread, limit, told>>
  BY DEF Heartbeat
<1>2. hand[h].run \in RunId BY <1>1, Statuses DEF IInv, PlacesOK, Placed
<1>3. Rows' /\ \A p \in RunId : Same(p) BY <1>1, <1>2, Based, Renewed
<1>4. QED BY <1>1, <1>3, Unmoved, TypesKept, QuietKeeps

LEMMA CrashKeeps == ASSUME IInv, NEW h \in Hand, Crash(h) PROVE IInv'
<1>1. Done(h) /\ UNCHANGED <<task, run, thread, told>> /\ limit.crashes > 0 /\ limit' = [limit EXCEPT !.crashes = @ - 1]
  BY DEF Crash
<1>2. limit' \in Limit BY <1>1 DEF IInv, TypesOK, Limit
<1>3. Hands' /\ AgesCalm /\ \A g \in Hand : HandWorks(g) /\ HandTells(g) BY <1>1, Based, HandDone
<1>4. QED BY <1>1, <1>2, <1>3, Unmoved, TypesKept, QuietKeeps

LEMMA ThreadEndsKeeps == ASSUME IInv, NEW q \in RunId, ThreadEnds(q) PROVE IInv'
<1>1. UNCHANGED <<task, run, hand, limit, told>> /\ thread' \subseteq thread BY DEF ThreadEnds
<1>2. ThreadCalm /\ thread' \subseteq RunId BY <1>1 DEF ThreadCalm, IInv, TypesOK
<1>3. QED BY <1>1, <1>2, Unmoved, TypesKept, QuietKeeps

LEMMA DispatchKeeps == ASSUME IInv, NEW c \in Hand, Dispatch(c) PROVE IInv'
<1>1. hand[c].pc = "claimed" /\ hand[c].pc \in Working /\ UNCHANGED <<task, thread, limit, told>>
  BY Statuses DEF Dispatch
<1>2. hand[c].run \in RunId BY <1>1 DEF IInv, PlacesOK, Placed
<1>3. CASE Goto(c, "writing") /\ UNCHANGED run
  <2>1. Hands' /\ AgesCalm /\ \A g \in Hand : HandWorks(g) /\ HandTells(g)
    BY <1>1, <1>3, Based, HandGoes, Statuses
  <2>2. QED BY <1>1, <1>3, <2>1, Unmoved, TypesKept, QuietKeeps
<1>4. CASE SetAsk(hand[c].run, "unknown") /\ Done(c)
  <2>1. Hands' /\ AgesCalm /\ \A g \in Hand : HandWorks(g) /\ HandTells(g) BY <1>4, Based, HandDone
  <2>2. Rows' /\ \A p \in RunId : Same(p) BY <1>2, <1>4, Based, AskSet
  <2>3. QED BY <1>1, <2>1, <2>2, Unmoved, TypesKept, QuietKeeps
<1>5. QED BY <1>3, <1>4 DEF Dispatch

LEMMA ExpireWaitKeeps == ASSUME IInv, NEW r \in Hand, ExpireWait(r) PROVE IInv'
<1>1. hand[r].pc = "waits" /\ hand[r] \in HandState /\ Placed(r, hand[r])
  BY DEF ExpireWait, IInv, TypesOK, PlacesOK
<1>2. PICK ask \in hand[r].todo :
        \/ hand' = [hand EXCEPT ![r] = [hand[r] EXCEPT !.todo = @ \ {ask}]] /\ UNCHANGED run
        \/ /\ SetAsk(ask[1], "expired") \/ UNCHANGED run
           /\ \E text \in {"expired", "unknown"} : hand' = [hand EXCEPT ![r] =
                [[hand[r] EXCEPT !.todo = @ \ {ask}] EXCEPT !.pc = "expire", !.run = ask[1], !.tell = text]]
  BY DEF ExpireWait
<1>3. ask[1] \in RunId BY <1>1 DEF HandState
<1>4. Rows' /\ \A p \in RunId : Same(p) BY <1>2, <1>3, Based, AskSet, Unmoved
<1>5. PICK new \in HandState : Placed(r, new) /\ Still(r, new) /\ hand' = [hand EXCEPT ![r] = new]
  <2>1. CASE hand' = [hand EXCEPT ![r] = [hand[r] EXCEPT !.todo = @ \ {ask}]]
    <3> DEFINE new == [hand[r] EXCEPT !.todo = @ \ {ask}]
    <3>1. new \in HandState /\ new.pc = "waits" /\ new.age = hand[r].age BY <1>1 DEF HandState
    <3>2. Placed(r, new) /\ Still(r, new) BY <1>1, <3>1, Statuses DEF Placed, Still
    <3>3. QED BY <2>1, <3>1, <3>2
  <2>2. ASSUME NEW text \in {"expired", "unknown"}, hand' = [hand EXCEPT ![r] =
                [[hand[r] EXCEPT !.todo = @ \ {ask}] EXCEPT !.pc = "expire", !.run = ask[1], !.tell = text]]
        PROVE  \E new \in HandState : Placed(r, new) /\ Still(r, new) /\ hand' = [hand EXCEPT ![r] = new]
    <3> DEFINE new == [[hand[r] EXCEPT !.todo = @ \ {ask}] EXCEPT !.pc = "expire", !.run = ask[1], !.tell = text]
    <3>1. new \in HandState BY <1>1, <1>3 DEF HandState, Text
    <3>2. new.pc = "expire" /\ new.run = ask[1] /\ new.age = hand[r].age BY <1>1 DEF HandState
    <3> HIDE DEF new
    <3>3. Placed(r, new) /\ Still(r, new) BY <1>1, <1>3, <3>2, Statuses DEF Placed, Still
    <3>4. QED BY <2>2, <3>1, <3>3 DEF new
  <2>3. QED BY <1>2, <2>1, <2>2
<1>6. Hands' /\ AgesCalm /\ \A g \in Hand : HandWorks(g) /\ HandTells(g) BY <1>5, Based, HandStill
<1>7. UNCHANGED <<task, thread, limit, told>> BY DEF ExpireWait
<1>8. QED BY <1>4, <1>6, <1>7, Unmoved, TypesKept, QuietKeeps

-----------------------------------------------------------------------------
(* Steps that end an execution *)

\* The hand that holds the lease of a run is alone with it.
LEMMA Holder ==
    ASSUME IInv, NEW h \in Hand, hand[h].pc \in Working
    PROVE  /\ hand[h].run \in RunId /\ hand[h].run \notin thread
           /\ \A g \in Hand \ {h} : hand[g].pc \in Working => hand[g].run # hand[h].run
           /\ Holds(h) => run[hand[h].run].status = "running" /\ run[hand[h].run].token = hand[h].token
<1>1. hand[h].run \in RunId BY Statuses DEF IInv, PlacesOK, Placed
<1>2. hand[h].run \notin thread /\ \A g \in Hand \ {h} : hand[g].pc \in Working => hand[g].run # hand[h].run
  BY DEF IInv, ExecutionOK
<1>3. QED BY <1>1, <1>2 DEF Holds, Fenced

\* What became of a run under its lease; it is over only when nobody is left to act.
EndedAs(q, status) ==
    /\ Rows' /\ \A p \in RunId \ {q} : Same(p)
    /\ run'[q].status = status /\ run'[q].why = "none" /\ run'[q].token = run[q].token
    /\ run'[q].notice = run[q].notice /\ run'[q].ticket = run[q].ticket

LEMMA EndKeeps ==
    ASSUME IInv, NEW h \in Hand, hand[h].pc \in Working, Holds(h),
           NEW status \in {"succeeded", "failed", "unknown", "awaiting"}, EndedAs(hand[h].run, status),
           status = "awaiting" => hand[h].token < MaxTurns,
           status # "unknown" => hand'[h].pc \notin Working /\ thread' = thread,
           ThreadCalm, thread' \subseteq RunId, UNCHANGED <<task, told>>, limit' \in Limit,
           Hands', AgesCalm, \A g \in Hand : HandWorks(g),
           \A g \in Hand : HandTells(g) \/ (HandNews(g) /\ hand'[g].run = hand[h].run)
    PROVE  IInv'
<1>1. PICK q \in RunId : q = hand[h].run BY Holder
<1>2. /\ run[q].status = "running" /\ run[q].token = hand[h].token /\ q \notin thread
      /\ \A g \in Hand \ {h} : hand[g].pc \in Working => hand[g].run # q
  BY <1>1, Holder
<1>3. EndedAs(q, status) BY <1>1
<1>4. TypesOK' BY <1>3, TypesKept DEF EndedAs
<1>5. \A p \in RunId \ {q} : RowCalm(p) BY <1>3 DEF EndedAs, RowCalm, RowRuns, RowTold, RowFresh, Same
<1>6. RowRuns(q)
  <2>1. run[q].status \in Occupying BY <1>2, Statuses
  <2>2. ASSUME Busy(q)' PROVE status = "unknown"
    <3>1. ASSUME status # "unknown" PROVE FALSE
      <4>1. PICK g \in Hand : hand'[g].pc \in Working /\ hand'[g].run = q BY <1>2, <2>2, <3>1 DEF Busy
      <4>2. g # h BY <3>1, <4>1
      <4>3. hand[g].pc \in Working /\ hand[g].run = q BY <4>1 DEF HandWorks
      <4>4. QED BY <1>2, <4>2, <4>3
    <3>2. QED BY <3>1
  <2>3. QED BY <1>3, <2>1, <2>2 DEF RowRuns, EndedAs
<1>7. RowTold(q) /\ ~RowFresh(q) BY <1>2, <1>3, Statuses DEF RowTold, RowFresh, EndedAs
<1>8. \A p \in RunId : RowCalm(p) BY <1>5, <1>6, <1>7 DEF RowCalm
<1>9. PlacesOK'
  <2>1. ASSUME NEW p \in RunId, run'[p].status = "awaiting" PROVE run'[p].token < MaxTurns
    <3>1. CASE p = q BY <1>2, <1>3, <2>1, <3>1 DEF EndedAs
    <3>2. CASE p # q BY <1>3, <2>1, <3>2 DEF EndedAs, Same, IInv, PlacesOK
    <3>3. QED BY <3>1, <3>2
  <2>2. QED BY <2>1 DEF PlacesOK, Hands
<1>10. Calm BY <1>4, <1>8, <1>9 DEF Calm, HandCalm
<1>11. LossCalm
  <2>1. ASSUME NEW p \in RunId, Lapsed(run'[p]) PROVE p # q /\ Lapsed(run[p]) /\ run'[p].notice = run[p].notice
    BY <1>3, <2>1 DEF EndedAs, Same, Lapsed
  <2>2. ASSUME NEW r \in Runner, hand'[r].pc \in Noticing, Lapsed(run'[hand'[r].run])
        PROVE  hand[r].pc \in Noticing /\ Lapsed(run[hand[r].run]) /\ hand'[r].tell = hand[r].tell
    <3>1. r \in Hand BY DEF Hand
    <3>2. hand'[r].run \in RunId BY <2>2, <3>1, Statuses DEF Hands, Placed
    <3>3. hand'[r].run # q /\ Lapsed(run[hand'[r].run]) BY <2>1, <2>2, <3>2
    <3>4. HandTells(r) BY <1>1, <3>1, <3>3
    <3>5. QED BY <2>2, <3>3, <3>4 DEF HandTells
  <2>3. QED BY <2>1, <2>2 DEF LossCalm
<1>12. QED BY <1>10, <1>11, CalmKeeps

\* What the expiry of leases and deliveries may find the worker at.
NewsTrue(r) == HandNews(r) /\ (Lapsed(run'[hand'[r].run]) => hand'[r].tell = "unknown")

LEMMA ExpireKeeps ==
    ASSUME IInv, Rows', \A q \in RunId : Expired(q), NEW r \in Runner,
           hand'[r].pc \notin Noticing \/ NewsTrue(r), \A h \in Hand \ {r} : HandTells(h),
           \A h \in Hand : HandWorks(h), Hands', AgesCalm, ThreadCalm, thread' \subseteq RunId,
           UNCHANGED <<task, told>>, limit' \in Limit
    PROVE  IInv'
<1>1. TypesOK' BY TypesKept
<1>2. ASSUME NEW q \in RunId PROVE RowCalm(q)
  <2>1. Expired(q) OBVIOUS
  <2>2. RowRuns(q) BY <2>1, Statuses DEF RowRuns, Expired
  <2>3. RowTold(q) /\ ~RowFresh(q) BY <2>1, Statuses DEF RowTold, RowFresh, Expired
  <2>4. QED BY <2>2, <2>3 DEF RowCalm
<1>3. PlacesOK'
  <2>1. \A q \in RunId : run'[q].status = "awaiting" => run'[q].token < MaxTurns
    BY DEF Expired, IInv, PlacesOK
  <2>2. QED BY <2>1 DEF PlacesOK, Hands
<1>4. \A h \in Hand : HandTells(h) \/ HandNews(h) BY DEF HandTells, NewsTrue
<1>5. Calm BY <1>1, <1>2, <1>3, <1>4 DEF Calm, HandCalm
<1>6. ASSUME OneRunner PROVE LossCalm
  <2>1. \A q \in RunId : Lapsed(run'[q]) /\ run'[q].notice = "delivered" =>
           Lapsed(run[q]) /\ run[q].notice = "delivered"
    BY DEF Expired, Lapsed
  <2>2. ASSUME NEW s \in Runner, hand'[s].pc \in Noticing, Lapsed(run'[hand'[s].run])
        PROVE  hand'[s].tell = "unknown"
    <3>1. s = r BY <1>6 DEF OneRunner
    <3>2. QED BY <2>2, <3>1 DEF NewsTrue
  <2>3. QED BY <2>1, <2>2 DEF LossCalm
<1>7. QED BY <1>5, <1>6, CalmKeeps

-----------------------------------------------------------------------------
(* Steps of the worker *)

LEMMA Texts ==
    /\ \A status, why : TextOf(status, why) \in Text
    /\ \A why : TextOf("unknown", why) = "unknown"
    /\ \A status \in Occupying \cup Ended \cup {"none"} : \A why : TextOf(status, why) # "nothing" => status \in Over
BY DEF TextOf, Text, Occupying, Ended, Over

\* The worker has news of a run.
News(q, text) == [Idle EXCEPT !.pc = "notify", !.run = q, !.tell = text]

LEMMA NewsTyped ==
    ASSUME NEW q \in RunId, NEW text \in Text
    PROVE  News(q, text) \in HandState /\ News(q, text).pc = "notify" /\ News(q, text).run = q /\ News(q, text).tell = text
BY IdleTyped DEF HandState, News

LEMMA HandTold ==
    ASSUME Hands, NEW r \in Runner, NEW q \in RunId, NEW text \in Text,
           hand' = [hand EXCEPT ![r] = News(q, text)]
    PROVE  /\ Hands' /\ AgesCalm /\ hand'[r].pc = "notify" /\ hand'[r].run = q /\ hand'[r].tell = text
           /\ \A h \in Hand : HandWorks(h)
           /\ \A h \in Hand \ {r} : HandTells(h)
           /\ \A h \in Hand \ {r} : hand'[h] = hand[h]
<1> DEFINE new == News(q, text)
<1>1. new \in HandState BY NewsTyped
<1>2. new.pc = "notify" /\ new.run = q /\ new.tell = text BY NewsTyped
<1>3. r \in Hand /\ r \notin Callback BY RunnerAssumption DEF Hand
<1> HIDE DEF new
<1>4. Placed(r, new) BY <1>2, <1>3 DEF Placed
<1>5. hand' = [hand EXCEPT ![r] = new] BY DEF new
<1>6. /\ Hands' /\ hand'[r] = new
      /\ \A g \in Hand \ {r} : hand'[g] = hand[g] /\ HandWorks(g) /\ HandTells(g)
  BY <1>1, <1>3, <1>4, <1>5, HandPut
<1>7. HandWorks(r) BY <1>2, <1>6, Statuses DEF HandWorks
<1>8. AgesCalm BY <1>2, <1>6, Statuses DEF AgesCalm, Hand
<1>9. QED BY <1>2, <1>6, <1>7, <1>8

LEMMA BeginKeeps == ASSUME IInv, NEW r \in Runner, Begin(r) PROVE IInv'
<1>1. UNCHANGED <<task, thread, limit, told>> BY DEF Begin
<1>2. Rows' /\ \A q \in RunId : Expired(q) BY Based, RunsExpired DEF Begin
<1>3. r \in Hand BY DEF Hand
<1>4. ASSUME NEW q \in RunId, Pending(run'[q]),
             hand' = [hand EXCEPT ![r] = News(q, TextOf(run'[q].status, run'[q].why))]
      PROVE  IInv'
  <2>1. PICK text \in Text : text = TextOf(run'[q].status, run'[q].why) BY Texts
  <2>2. /\ Hands' /\ AgesCalm /\ hand'[r].pc = "notify" /\ hand'[r].run = q
        /\ hand'[r].tell = text
        /\ \A h \in Hand : HandWorks(h)
        /\ \A h \in Hand \ {r} : HandTells(h)
    <3>1. hand' = [hand EXCEPT ![r] = News(q, text)] BY <1>4, <2>1
    <3>2. /\ Hands' /\ AgesCalm /\ \A h \in Hand : HandWorks(h)
          /\ \A h \in Hand \ {r} : HandTells(h)
      BY <3>1, Based, HandTold
    <3>3. hand'[r] = News(q, text) BY <1>3, <3>1, Based DEF Hands
    <3>4. QED BY <3>2, <3>3, NewsTyped
  <2>3. run'[q].status \in Occupying \cup Ended \cup {"none"} BY <1>2 DEF Rows, RunRow
  <2>4. NewsTrue(r) BY <1>4, <2>1, <2>2, <2>3, Texts DEF NewsTrue, HandNews, Pending, Lapsed
  <2>5. QED BY <1>1, <1>2, <2>2, <2>4, Unmoved, ExpireKeeps
<1>5. CASE hand' = [hand EXCEPT ![r] = [Idle EXCEPT !.pc = "waits",
                         !.todo = {<<q, run[q].askOf>> : q \in {w \in RunId : WaitExpired(w)}}]]
  <2> DEFINE todo == {<<q, run[q].askOf>> : q \in {w \in RunId : WaitExpired(w)}}
             new == [Idle EXCEPT !.pc = "waits", !.todo = todo]
  <2>1. todo \subseteq RunId \X (0..MaxTurns) BY Based DEF Rows, RunRow
  <2> HIDE DEF todo
  <2>2. new \in HandState BY <2>1, IdleTyped DEF HandState
  <2>3. new.pc = "waits" /\ new.age = 0 BY IdleTyped DEF HandState, Idle
  <2>4. hand' = [hand EXCEPT ![r] = new] BY <1>5 DEF todo
  <2>5. r \notin Callback BY RunnerAssumption
  <2> HIDE DEF new
  <2>6. Placed(r, new) /\ Still(r, new) BY <2>3, <2>5, Statuses DEF Placed, Still
  <2>7. Hands' /\ hand'[r] = new /\ AgesCalm /\ \A h \in Hand : HandWorks(h) /\ HandTells(h)
    BY <1>3, <2>2, <2>4, <2>6, Based, HandStill
  <2>8. hand'[r].pc \notin Noticing BY <2>3, <2>7, Statuses
  <2>9. QED BY <1>1, <1>2, <2>7, <2>8, Unmoved, ExpireKeeps
<1>6. QED BY <1>4, <1>5 DEF Begin, News

LEMMA SettleWaitKeeps == ASSUME IInv, NEW r \in Runner, SettleWait(r) PROVE IInv'
<1>1. hand[r].pc = "expire" /\ UNCHANGED <<task, thread, limit, told>> BY DEF SettleWait
<1>2. r \in Hand BY DEF Hand
<1>3. PICK q \in RunId : q = hand[r].run BY <1>1, <1>2 DEF IInv, PlacesOK, Placed
<1>4. hand[r] \in HandState BY <1>2 DEF IInv, TypesOK
<1>5. ASSUME NEW status \in {"failed", "unknown"}, run[q].status = "awaiting", FinishWait(q, status),
             hand' = [hand EXCEPT ![r] = News(q, hand[r].tell)]
      PROVE  IInv'
  <2>1. hand[r].tell \in Text BY <1>4 DEF HandState
  <2>2. /\ Hands' /\ AgesCalm /\ hand'[r].pc = "notify" /\ hand'[r].run = q
        /\ \A h \in Hand : HandWorks(h)
        /\ \A h \in Hand \ {r} : HandTells(h)
    BY <1>5, <2>1, Based, HandTold
  <2>3. /\ Rows' /\ \A p \in RunId \ {q} : Same(p)
        /\ run'[q].status = status /\ run'[q].why # "lapsed"
        /\ run'[q].notice = "pending" /\ run'[q].ticket = run[q].ticket
    BY <1>5, Based, WaitFinished, Statuses DEF Ended
  <2>4. \A p \in RunId \ {q} : RowCalm(p) BY <2>3 DEF RowCalm, RowRuns, RowTold, RowFresh, Same
  <2>5. ~Busy(q)'
    <3>1. ~Busy(q) BY <1>5, BusyOccupies
    <3>2. ThreadCalm BY <1>1, Unmoved
    <3>3. QED BY <2>2, <3>1, <3>2, BusyBefore
  <2>6. RowCalm(q) BY <1>5, <2>3, <2>5, Statuses DEF RowCalm, RowRuns, RowTold, RowFresh
  <2>7. \A p \in RunId : RowCalm(p) BY <2>4, <2>6
  <2>8. PlacesOK'
    <3>1. \A p \in RunId : run'[p].status = "awaiting" => run'[p].token < MaxTurns
      BY <2>3 DEF Same, IInv, PlacesOK
    <3>2. QED BY <2>2, <3>1 DEF PlacesOK, Hands
  <2>9. HandNews(r) BY <2>2, <2>3, Statuses DEF HandNews
  <2>10. Calm BY <1>1, <2>2, <2>3, <2>7, <2>8, <2>9, TypesKept, Unmoved DEF Calm, HandCalm
  <2>11. LossCalm
    <3>1. ASSUME NEW p \in RunId, Lapsed(run'[p]) PROVE p # q /\ Lapsed(run[p]) /\ run'[p].notice = run[p].notice
      BY <2>3, <3>1 DEF Same, Lapsed
    <3>2. ASSUME NEW s \in Runner, hand'[s].pc \in Noticing, Lapsed(run'[hand'[s].run])
          PROVE  hand[s].pc \in Noticing /\ Lapsed(run[hand[s].run]) /\ hand'[s].tell = hand[s].tell
      <4>1. s \in Hand BY DEF Hand
      <4>2. hand'[s].run \in RunId BY <2>2, <3>2, <4>1, Statuses DEF Hands, Placed
      <4>3. hand'[s].run # q /\ Lapsed(run[hand'[s].run]) BY <3>1, <3>2, <4>2
      <4>4. HandTells(s) BY <2>2, <4>1, <4>3
      <4>5. QED BY <3>2, <4>3, <4>4 DEF HandTells
    <3>3. QED BY <3>1, <3>2 DEF LossCalm
  <2>12. QED BY <1>1, <2>2, <2>10, <2>11, CalmKeeps
<1>6. CASE hand' = [hand EXCEPT ![r].pc = "waits", ![r].run = NoRun, ![r].tell = "nothing"] /\ UNCHANGED run
  <2> DEFINE new == [hand[r] EXCEPT !.pc = "waits", !.run = NoRun, !.tell = "nothing"]
  <2>1. new \in HandState /\ new.pc = "waits" /\ new.age = hand[r].age BY <1>4 DEF HandState, Text
  <2>2. hand' = [hand EXCEPT ![r] = new] BY <1>2, <1>4, <1>6, Based DEF Hands
  <2>3. r \notin Callback BY RunnerAssumption
  <2> HIDE DEF new
  <2>4. Placed(r, new) /\ Still(r, new) BY <1>1, <2>1, <2>3, Statuses DEF Placed, Still
  <2>5. Hands' /\ AgesCalm /\ \A h \in Hand : HandWorks(h) /\ HandTells(h)
    BY <1>2, <2>1, <2>2, <2>4, Based, HandStill
  <2>6. QED BY <1>1, <1>6, <2>5, Unmoved, TypesKept, QuietKeeps
<1>7. CASE /\ run[q].status = "awaiting"
           /\ FinishWait(q, IF hand[r].tell = "expired" THEN "failed" ELSE "unknown")
           /\ hand' = [hand EXCEPT ![r] = News(q, hand[r].tell)]
  <2>1. (IF hand[r].tell = "expired" THEN "failed" ELSE "unknown") \in {"failed", "unknown"} OBVIOUS
  <2>2. QED BY <1>5, <1>7, <2>1
<1>8. QED BY <1>3, <1>6, <1>7 DEF SettleWait, News

LEMMA RecordKeeps == ASSUME IInv, NEW r \in Runner, Record(r) PROVE IInv'
<1>1. hand[r].pc = "record" /\ Done(r) /\ UNCHANGED <<task, thread, limit, told>> BY DEF Record
<1>2. r \in Hand BY DEF Hand
<1>3. PICK q \in RunId : q = hand[r].run BY <1>1, <1>2 DEF IInv, PlacesOK, Placed
<1>4. /\ Hands' /\ AgesCalm /\ hand'[r].pc = "idle" /\ \A h \in Hand : HandWorks(h) /\ HandTells(h)
      /\ \A h \in Hand \ {r} : hand'[h] = hand[h]
  BY <1>1, <1>2, Based, HandDone
<1>5. CASE RecordDelivery(q, hand[r].ticket, IF hand[r].sent THEN "delivered" ELSE "unknown")
  <2>1. PICK outcome \in {"delivered", "unknown"} :
           RecordDelivery(q, hand[r].ticket, outcome) /\ (outcome = "delivered" => hand[r].sent)
    BY <1>5
  <2>2. /\ Rows' /\ \A p \in RunId \ {q} : Same(p)
        /\ run[q].notice = "sending"
        /\ run'[q].status = run[q].status /\ run'[q].token = run[q].token /\ run'[q].why = run[q].why
        /\ run'[q].notice = outcome /\ run'[q].ticket = run[q].ticket
    BY <2>1, Based, DeliveryRecorded
  <2>3. \A p \in RunId : RowCalm(p) BY <2>2 DEF RowCalm, RowRuns, RowTold, RowFresh, Same
  <2>4. \A p \in RunId : run'[p].status = run[p].status /\ run'[p].why = run[p].why /\ run'[p].token = run[p].token
    BY <2>2 DEF Same
  <2>5. PlacesOK' BY <1>4, <2>4 DEF PlacesOK, Hands, IInv
  <2>6. Calm BY <1>1, <1>4, <2>2, <2>3, <2>5, TypesKept, Unmoved DEF Calm, HandCalm
  <2>7. ASSUME OneRunner PROVE LossCalm
    <3>1. LossOK BY <2>7 DEF IInv
    <3>2. ASSUME Lapsed(run'[q]), run'[q].notice = "delivered" PROVE told[q, "unknown"] > 0
      <4>1. hand[r].sent /\ Lapsed(run[q]) BY <2>1, <2>2, <3>2 DEF Lapsed
      <4>2. hand[r].tell = "unknown" BY <1>1, <1>3, <3>1, <4>1, Statuses DEF LossOK
      <4>3. told[hand[r].run, hand[r].tell] > 0 BY <1>1, <1>2, <4>1, <4>2 DEF IInv, SenderOK
      <4>4. QED BY <1>3, <4>2, <4>3
    <3>3. \A p \in RunId : Lapsed(run'[p]) /\ run'[p].notice = "delivered" =>
             Lapsed(run[p]) /\ (run[p].notice = "delivered" \/ told[p, "unknown"] > 0)
      BY <2>2, <2>4, <3>2 DEF Lapsed, Same
    <3>4. ASSUME NEW s \in Runner, hand'[s].pc \in Noticing PROVE FALSE
      BY <1>4, <2>7, <3>4, Statuses DEF OneRunner
    <3>5. QED BY <3>3, <3>4 DEF LossCalm
  <2>8. QED BY <1>1, <1>4, <2>6, <2>7, CalmKeeps
<1>6. CASE UNCHANGED run BY <1>1, <1>4, <1>6, Unmoved, TypesKept, QuietKeeps
<1>7. QED BY <1>3, <1>5, <1>6 DEF Record

-----------------------------------------------------------------------------
(* Steps of a turn and of a callback *)

LEMMA FinishedAs ==
    ASSUME Rows, NEW q \in RunId, NEW status \in Occupying \cup Ended, Finish(q, status)
    PROVE  EndedAs(q, status)
BY Finished DEF EndedAs

LEMMA CardFailsKeeps == ASSUME IInv, NEW h \in Hand, CardFails(h) PROVE IInv'
<1>1. hand[h].pc = "asked" /\ hand[h].pc \in Working /\ Goto(h, "raised") /\ UNCHANGED <<task, thread, limit, told>>
  BY Statuses DEF CardFails
<1>2. Hands' /\ AgesCalm /\ \A g \in Hand : HandWorks(g) /\ HandTells(g)
  BY <1>1, Based, HandGoes, Statuses
<1>3. CASE Holds(h) /\ Finish(hand[h].run, "unknown")
  <2>1. EndedAs(hand[h].run, "unknown") BY <1>1, <1>3, Based, Holder, FinishedAs, Statuses
  <2>2. QED BY <1>1, <1>2, <1>3, <2>1, Unmoved, EndKeeps
<1>4. CASE UNCHANGED run BY <1>1, <1>2, <1>4, Unmoved, TypesKept, QuietKeeps
<1>5. QED BY <1>3, <1>4 DEF CardFails

LEMMA EndTurnKeeps == ASSUME IInv, NEW h \in Hand, End(h) PROVE IInv'
<1>1. hand[h].pc \in Working /\ UNCHANGED <<task, thread, limit, told>> BY Statuses DEF End
<1>2. PICK q \in RunId : q = hand[h].run BY <1>1, Holder
<1>3. ASSUME NEW status \in Outcomes(hand[h].pc), Holds(h), Finish(q, status),
             hand' = [hand EXCEPT ![h] = IF h \in Runner THEN News(q, TextOf(status, "none")) ELSE Idle]
      PROVE  IInv'
  <2>1. /\ status \in {"succeeded", "failed", "unknown", "awaiting"}
        /\ status = "awaiting" => hand[h].pc = "asked"
    BY <1>3 DEF Outcomes
  <2>2. status \in Occupying \cup Ended BY <2>1, Statuses DEF Ended
  <2>3. EndedAs(q, status) BY <1>3, <2>2, Based, FinishedAs
  <2>4. status = "awaiting" => hand[h].token < MaxTurns BY <2>1 DEF IInv, PlacesOK, Placed
  <2>5. /\ Hands' /\ AgesCalm /\ hand'[h].pc \notin Working /\ \A g \in Hand : HandWorks(g)
        /\ \A g \in Hand : HandTells(g) \/ (HandNews(g) /\ hand'[g].run = q)
    <3>1. CASE h \in Runner
      <4>1. PICK text \in Text : text = TextOf(status, "none") BY Texts
      <4>2. hand' = [hand EXCEPT ![h] = News(q, text)] BY <1>3, <3>1, <4>1
      <4>3. /\ Hands' /\ AgesCalm /\ \A g \in Hand : HandWorks(g)
            /\ \A g \in Hand \ {h} : HandTells(g)
        BY <3>1, <4>2, Based, HandTold
      <4>4. hand'[h] = News(q, text) BY <4>2, Based DEF Hands
      <4>5. hand'[h].pc = "notify" /\ hand'[h].run = q /\ hand'[h].tell = text BY <4>4, NewsTyped
      <4>6. status # "none" /\ (text # "nothing" => status \in Over) BY <2>1, <2>2, <4>1, Texts
      <4>7. HandNews(h) BY <2>3, <4>5, <4>6 DEF HandNews, EndedAs
      <4>8. hand'[h].pc \notin Working BY <4>5, Statuses
      <4>9. QED BY <4>3, <4>5, <4>7, <4>8
    <3>2. CASE h \notin Runner
      <4>1. Done(h) BY <1>3, <3>2 DEF Done
      <4>2. QED BY <4>1, Based, HandDone
    <3>3. QED BY <3>1, <3>2
  <2>6. QED BY <1>1, <1>2, <1>3, <2>1, <2>3, <2>4, <2>5, Unmoved, EndKeeps
<1>4. CASE Done(h) /\ (IF h \in Runner THEN ExpireRuns ELSE UNCHANGED run)
  <2>1. /\ Hands' /\ AgesCalm /\ hand'[h].pc = "idle" /\ \A g \in Hand : HandWorks(g) /\ HandTells(g)
    BY <1>4, Based, HandDone
  <2>2. CASE h \in Runner /\ ExpireRuns
    <3>1. Rows' /\ \A p \in RunId : Expired(p) BY <2>2, Based, RunsExpired
    <3>2. hand'[h].pc \notin Noticing BY <2>1, Statuses
    <3>3. QED BY <1>1, <2>1, <2>2, <3>1, <3>2, Unmoved, ExpireKeeps
  <2>3. CASE UNCHANGED run BY <1>1, <2>1, <2>3, Unmoved, TypesKept, QuietKeeps
  <2>4. QED BY <1>4, <2>2, <2>3
<1>5. QED BY <1>2, <1>3, <1>4 DEF End, News

LEMMA InterruptedKeeps == ASSUME IInv, NEW r \in Runner, Interrupted(r) PROVE IInv'
<1>1. hand[r].pc \in Working /\ Done(r) /\ Abandon(r) /\ UNCHANGED <<task, limit, told>> /\ r \in Hand
  BY Statuses DEF Interrupted, Hand
<1>2. /\ Hands' /\ AgesCalm /\ hand'[r].pc = "idle" /\ hand'[r].pc \notin Working
      /\ \A g \in Hand : HandWorks(g) /\ HandTells(g)
  BY <1>1, Based, HandDone
<1>3. ThreadCalm /\ thread' \subseteq RunId BY <1>1, <1>2, Abandoned
<1>4. CASE Holds(r) /\ Finish(hand[r].run, "unknown")
  <2>1. EndedAs(hand[r].run, "unknown") BY <1>1, <1>4, Based, Holder, FinishedAs, Statuses
  <2>2. QED BY <1>1, <1>2, <1>3, <1>4, <2>1, Unmoved, EndKeeps
<1>5. CASE ExpireRuns
  <2>1. Rows' /\ \A p \in RunId : Expired(p) BY <1>5, Based, RunsExpired
  <2>2. hand'[r].pc \notin Noticing BY <1>2, Statuses
  <2>3. QED BY <1>1, <1>2, <1>3, <2>1, <2>2, Unmoved, ExpireKeeps
<1>6. QED BY <1>4, <1>5 DEF Interrupted

\* A callback settles its ask, and its run where it holds the lease.
LEMMA SettledKeeps ==
    ASSUME IInv, NEW c \in Hand, hand[c].pc \in Working, NEW ask \in {"none", "unknown", "expired"},
           NEW status \in {"failed", "unknown"}, Settled(c, ask, status), UNCHANGED <<task, thread, limit, told>>
    PROVE  IInv'
<1>1. PICK q \in RunId : q = hand[c].run BY Holder
<1>2. /\ Hands' /\ AgesCalm /\ hand'[c].pc \notin Working /\ \A g \in Hand : HandWorks(g) /\ HandTells(g)
  BY Based, HandDone DEF Settled
<1>3. CASE Holds(c)
  <2> DEFINE row == [run[q] EXCEPT !.ask = ask, !.status = status, !.left = 0, !.why = "none"]
  <2>1. run[q] \in RunRow BY Based DEF Rows
  <2>2. row \in RunRow BY <2>1, Ranges DEF RunRow, Ended, Occupying
  <2>3. run' = [run EXCEPT ![q] = row] BY <1>1, <1>3, <2>1 DEF Settled, Rows
  <2>4. Rows' /\ run'[q] = row /\ \A p \in RunId \ {q} : Same(p) BY <2>2, <2>3, Based, RowPut
  <2>5. row.status = status /\ row.why = "none" /\ row.token = run[q].token /\ row.notice = run[q].notice
        /\ row.ticket = run[q].ticket
    BY <2>1 DEF RunRow
  <2> HIDE DEF row
  <2>6. EndedAs(q, status) BY <2>4, <2>5 DEF EndedAs
  <2>7. QED BY <1>1, <1>2, <1>3, <2>6, Unmoved, EndKeeps
<1>4. CASE ~Holds(c)
  <2>1. SetAsk(q, ask)
    <3>1. run' = [run EXCEPT ![q] = [run[q] EXCEPT !.ask = ask]] BY <1>1, <1>4 DEF Settled
    <3>2. QED BY <3>1 DEF SetAsk
  <2>2. Rows' /\ \A p \in RunId : Same(p) BY <2>1, Based, AskSet
  <2>3. QED BY <1>2, <2>2, Unmoved, TypesKept, QuietKeeps
<1>5. QED BY <1>3, <1>4

LEMMA DecideKeeps == ASSUME IInv, NEW c \in Hand, Decide(c) PROVE IInv'
<1>1. hand[c].pc \in Working /\ UNCHANGED <<task, thread, limit, told>> BY Statuses DEF Decide
<1>2. PICK q \in RunId : q = hand[c].run BY <1>1, Holder
<1>3. ASSUME NEW ask \in {"executing", "none"}, NEW pc \in {"claimed", "turn"}, SetAsk(q, ask), Goto(c, pc)
      PROVE  IInv'
  <2>1. Hands' /\ AgesCalm /\ \A g \in Hand : HandWorks(g) /\ HandTells(g)
    BY <1>1, <1>3, Based, HandGoes, Statuses
  <2>2. Rows' /\ \A p \in RunId : Same(p) BY <1>3, Based, AskSet
  <2>3. QED BY <1>1, <2>1, <2>2, Unmoved, TypesKept, QuietKeeps
<1>4. CASE Settled(c, "none", "failed") \/ Settled(c, "expired", "failed") BY <1>1, <1>4, SettledKeeps
<1>5. CASE Done(c) /\ UNCHANGED run
  <2>1. Hands' /\ AgesCalm /\ \A g \in Hand : HandWorks(g) /\ HandTells(g) BY <1>5, Based, HandDone
  <2>2. QED BY <1>1, <1>5, <2>1, Unmoved, TypesKept, QuietKeeps
<1>6. QED BY <1>2, <1>3, <1>4, <1>5 DEF Decide

LEMMA WrittenKeeps == ASSUME IInv, NEW c \in Hand, Written(c) PROVE IInv'
<1>1. hand[c].pc \in Working /\ UNCHANGED <<task, thread, limit, told>> BY Statuses DEF Written
<1>2. CASE SetAsk(hand[c].run, "none") /\ Goto(c, "turn")
  <2>1. Hands' /\ AgesCalm /\ \A g \in Hand : HandWorks(g) /\ HandTells(g)
    BY <1>1, <1>2, Based, HandGoes, Statuses
  <2>2. Rows' /\ \A p \in RunId : Same(p) BY <1>1, <1>2, Based, AskSet, Holder
  <2>3. QED BY <1>1, <2>1, <2>2, Unmoved, TypesKept, QuietKeeps
<1>3. CASE Settled(c, "unknown", "unknown") BY <1>1, <1>3, SettledKeeps
<1>4. QED BY <1>2, <1>3 DEF Written

LEMMA CancelledKeeps == ASSUME IInv, NEW c \in Hand, Cancelled(c) PROVE IInv'
<1>1. hand[c].pc \in Working /\ Done(c) /\ Abandon(c) /\ UNCHANGED <<task, limit, told>> BY DEF Cancelled
<1>2. PICK q \in RunId : q = hand[c].run BY <1>1, Holder
<1>3. /\ Hands' /\ AgesCalm /\ hand'[c].pc \notin Working /\ \A g \in Hand : HandWorks(g) /\ HandTells(g)
  BY <1>1, Based, HandDone
<1>4. ThreadCalm /\ thread' \subseteq RunId BY <1>1, <1>3, Abandoned
<1>5. ASSUME Rows', \A p \in RunId : Same(p) PROVE IInv'
  BY <1>1, <1>3, <1>4, <1>5, Unmoved, TypesKept, QuietKeeps
<1>6. CASE SetAsk(q, "awaiting") \/ SetAsk(q, "unknown") BY <1>5, <1>6, Based, AskSet
<1>7. CASE Holds(c) /\ Finish(q, "unknown")
  <2>1. EndedAs(q, "unknown") BY <1>7, Based, FinishedAs, Statuses
  <2>2. QED BY <1>1, <1>2, <1>3, <1>4, <1>7, <2>1, Unmoved, EndKeeps
<1>8. CASE UNCHANGED run BY <1>5, <1>8, Unmoved
<1>9. QED BY <1>2, <1>6, <1>7, <1>8 DEF Cancelled

LEMMA OperatorKeeps == ASSUME IInv, NEW q \in RunId, Operator(q) PROVE IInv'
<1>1. UNCHANGED <<task, hand, thread, limit, told>> /\ ~Busy(q) BY DEF Operator, Reconcile, Busy
<1>2. /\ Rows' /\ \A p \in RunId \ {q} : Same(p)
      /\ run[q].status = "unknown" /\ run'[q].status \in Ended
      /\ run'[q].notice = run[q].notice /\ run'[q].ticket = run[q].ticket /\ run'[q].why = run[q].why
  BY Based, Reconciled DEF Operator
<1>3. Hands' /\ AgesCalm /\ ThreadCalm /\ thread' \subseteq RunId /\ limit' \in Limit
      /\ \A h \in Hand : HandWorks(h) /\ HandTells(h)
  BY <1>1, Unmoved
<1>4. ~Busy(q)' BY <1>1, <1>3, BusyBefore
<1>5. run'[q].status \in Over /\ run'[q].status \notin {"none", "awaiting", "unknown"} /\ run'[q].status \notin Occupying
  BY <1>2 DEF Ended, Over, Occupying
<1>6. \A p \in RunId : RowCalm(p)
  BY <1>2, <1>4, <1>5 DEF RowCalm, RowRuns, RowTold, RowFresh, Same
<1>7. PlacesOK'
  <2>1. \A p \in RunId : run'[p].status = "awaiting" => run'[p].token < MaxTurns
    BY <1>2, <1>5 DEF Same, IInv, PlacesOK
  <2>2. QED BY <1>3, <2>1 DEF PlacesOK, Hands
<1>8. Calm BY <1>1, <1>2, <1>3, <1>6, <1>7, TypesKept DEF Calm, HandCalm
<1>9. LossCalm
  <2>1. \A p \in RunId : Lapsed(run'[p]) => Lapsed(run[p]) /\ run'[p].notice = run[p].notice
    BY <1>2, <1>5 DEF Lapsed, Same
  <2>2. \A r \in Runner : hand'[r].pc \in Noticing => hand[r].run \in RunId
    BY <1>1, Statuses DEF IInv, PlacesOK, Placed, Hand
  <2>3. QED BY <1>1, <2>1, <2>2 DEF LossCalm
<1>10. QED BY <1>1, <1>3, <1>8, <1>9, CalmKeeps

-----------------------------------------------------------------------------
(* Deliveries *)

\* Where the notice of one run is claimed or sent.
LEMMA DeliveryKeeps ==
    ASSUME IInv, TypesOK', PlacesOK', \A q \in RunId : RowRuns(q) /\ (run'[q].status = "none" <=> run[q].status = "none"),
           \A h \in Hand : HandWorks(h), AgesCalm, ThreadCalm, task' = task, NoticeOK', SenderOK', (OneRunner => LossOK)'
    PROVE  IInv'
<1>1. ExecutionOK' BY CalmExecution
<1>2. TasksOK' BY CalmTasks
<1>3. (OneRunner => LagOK)' BY CalmLag
<1>4. QED BY <1>1, <1>2, <1>3 DEF IInv, OneRunner

LEMMA NotifyKeeps == ASSUME IInv, NEW r \in Runner, Notify(r) PROVE IInv'
<1>1. hand[r].pc = "notify" /\ UNCHANGED <<task, thread, limit, told>> /\ r \in Hand BY DEF Notify, Hand
<1>2. PICK q \in RunId : q = hand[r].run BY <1>1 DEF IInv, PlacesOK, Placed
<1>3. hand[r] \in HandState /\ Placed(r, hand[r]) BY <1>1, Based DEF Hands
<1>4. CASE ClaimDelivery(q) /\ hand' = [hand EXCEPT ![r].pc = "sending", ![r].ticket = run'[q].ticket]
  <2>1. run[q].notice = "pending" /\ run[q].ticket <= 1 BY <1>4 DEF ClaimDelivery, Pending, IInv, NoticeOK
  <2>2. /\ Rows' /\ \A p \in RunId \ {q} : Same(p)
        /\ run[q].status \notin {"none", "running"}
        /\ run'[q].status = run[q].status /\ run'[q].token = run[q].token /\ run'[q].why = run[q].why
        /\ run'[q].notice = "sending" /\ run'[q].ticket = run[q].ticket + 1 /\ run'[q].ticket \in 0..2
    BY <1>4, <2>1, Based, DeliveryClaimed
  <2> DEFINE new == [hand[r] EXCEPT !.pc = "sending", !.ticket = run'[q].ticket]
  <2>3. new \in HandState BY <1>3, <2>2 DEF HandState
  <2>4. new.pc = "sending" /\ new.run = q /\ new.tell = hand[r].tell /\ new.ticket = run'[q].ticket
    BY <1>2, <1>3 DEF HandState
  <2>5. hand' = [hand EXCEPT ![r] = new] BY <1>1, <1>3, <1>4, Based DEF Hands
  <2>6. r \notin Callback BY RunnerAssumption
  <2> HIDE DEF new
  <2>7. Placed(r, new) BY <2>4, <2>6 DEF Placed
  <2>8. /\ Hands' /\ hand'[r] = new
        /\ \A g \in Hand \ {r} : hand'[g] = hand[g] /\ HandWorks(g) /\ HandTells(g)
    BY <1>1, <2>3, <2>5, <2>7, Based, HandPut
  <2>9. \A h \in Hand : HandWorks(h) BY <2>4, <2>8, Statuses DEF HandWorks
  <2>10. AgesCalm BY <2>4, <2>8, Statuses DEF AgesCalm, Hand
  <2>11. \A p \in RunId : run'[p].status = run[p].status /\ run'[p].token = run[p].token /\ run'[p].why = run[p].why
    BY <2>2 DEF Same
  <2>12. TypesOK' BY <1>1, <2>2, <2>8, TypesKept, Unmoved
  <2>13. PlacesOK' BY <2>8, <2>11 DEF PlacesOK, Hands, IInv
  <2>14. NoticeOK'
    <3>1. ASSUME NEW p \in RunId
          PROVE  /\ run'[p].status \notin Over =>
                       run'[p].ticket <= 1 /\ (run'[p].ticket = 1 => run'[p].notice # "pending")
                 /\ run'[p].notice = "pending" => run'[p].ticket <= 1
                 /\ run'[p].status \notin Over \/ run'[p].notice = "pending" =>
                       \A x \in Text \ {"nothing"} : told[p, x] = 0
      <4>1. CASE p = q
        <5>1. run[q].ticket \in 0..2 BY Based DEF Rows, RunRow
        <5>2. run[q].status \notin Over => run[q].ticket <= 1 /\ run[q].ticket # 1
          BY <2>1 DEF IInv, NoticeOK
        <5>3. run'[q].status \notin Over => run'[q].ticket <= 1 BY <2>2, <5>1, <5>2
        <5>4. run'[q].status \notin Over => \A x \in Text \ {"nothing"} : told[q, x] = 0
          BY <2>2 DEF IInv, NoticeOK
        <5>5. QED BY <2>2, <4>1, <5>3, <5>4
      <4>2. CASE p # q BY <2>2, <4>2 DEF IInv, NoticeOK, Same
      <4>3. QED BY <4>1, <4>2
    <3>2. QED BY <1>1, <3>1 DEF NoticeOK
  <2>15. SenderOK'
    <3>1. \A h \in Hand \ {r} : hand'[h].pc \in Noticing => hand[h].run \in RunId
      BY <2>8, Statuses DEF IInv, PlacesOK, Placed
    <3>2. ASSUME NEW h \in Hand, hand'[h].pc \in Noticing
          PROVE  /\ run'[hand'[h].run].status # "none"
                 /\ hand'[h].tell # "nothing" => run'[hand'[h].run].status \in Over
      <4>1. hand[h].pc \in Noticing /\ hand'[h].run = hand[h].run /\ hand'[h].tell = hand[h].tell
        BY <1>1, <1>2, <2>4, <2>8, <3>2, Statuses
      <4>2. hand[h].run \in RunId BY <1>2, <2>8, <3>1, <3>2
      <4>3. QED BY <2>11, <4>1, <4>2 DEF IInv, SenderOK
    <3>3. ASSUME NEW h \in Hand, hand'[h].pc \in {"sending", "record"}
          PROVE  /\ hand'[h].ticket <= run'[hand'[h].run].ticket
                 /\ h # r /\ hand'[h].run = q => hand'[h].ticket < run'[q].ticket
      <4>1. CASE h = r BY <2>2, <2>4, <2>8, <4>1
      <4>2. CASE h # r
        <5>1. hand'[h] = hand[h] BY <2>8, <4>2
        <5>2. hand[h].ticket <= run[hand[h].run].ticket /\ hand[h].run \in RunId
          BY <3>1, <3>3, <4>2, <5>1, Statuses DEF IInv, SenderOK
        <5>3. hand[h].ticket \in 0..2 /\ run[q].ticket \in 0..2 BY Based DEF Hands, HandState, Rows, RunRow
        <5>4. CASE hand[h].run = q BY <2>2, <5>1, <5>2, <5>3, <5>4
        <5>5. CASE hand[h].run # q BY <2>2, <5>1, <5>2, <5>5 DEF Same
        <5>6. QED BY <5>4, <5>5
      <4>3. QED BY <4>1, <4>2
    <3>4. ASSUME NEW g \in Hand, NEW h \in Hand, hand'[g].pc \in {"sending", "record"},
                 hand'[h].pc \in {"sending", "record"}, hand'[g].run = hand'[h].run, hand'[g].ticket = hand'[h].ticket
          PROVE  g = h
      <4>1. CASE g # r /\ h # r
        <5>1. hand'[g] = hand[g] /\ hand'[h] = hand[h] BY <2>8, <4>1
        <5>2. QED BY <3>4, <5>1 DEF IInv, SenderOK
      <4>2. ASSUME NEW x \in Hand, x # r, hand'[x].pc \in {"sending", "record"}, hand'[x].run = q,
                   hand'[x].ticket = run'[q].ticket
            PROVE  FALSE
        BY <2>2, <3>3, <4>2
      <4>3. QED BY <2>4, <2>8, <3>4, <4>1, <4>2
    <3>5. ASSUME NEW h \in Hand, hand'[h].pc = "sending", hand'[h].tell # "nothing"
          PROVE  /\ hand'[h].ticket = run'[hand'[h].run].ticket /\ run'[hand'[h].run].notice # "pending"
                 /\ \A x \in Text \ {"nothing"} : told[hand'[h].run, x] = 0
      <4>1. CASE h = r
        <5>1. \A x \in Text \ {"nothing"} : told[q, x] = 0 BY <2>1 DEF IInv, NoticeOK
        <5>2. QED BY <2>2, <2>4, <2>8, <4>1, <5>1
      <4>2. CASE h # r
        <5>1. hand'[h] = hand[h] /\ hand[h].run \in RunId BY <2>8, <3>1, <3>5, <4>2, Statuses
        <5>2. /\ hand[h].ticket = run[hand[h].run].ticket /\ run[hand[h].run].notice # "pending"
              /\ \A x \in Text \ {"nothing"} : told[hand[h].run, x] = 0
          BY <3>5, <5>1 DEF IInv, SenderOK
        <5>3. hand[h].run # q BY <2>1, <5>2
        <5>4. QED BY <2>2, <5>1, <5>2, <5>3, ZenonT(40) DEF Same
      <4>3. QED BY <4>1, <4>2
    <3>6. \A h \in Hand : hand'[h].pc = "record" /\ hand'[h].tell # "nothing" /\ hand'[h].sent =>
             told[hand'[h].run, hand'[h].tell] > 0
      <4>1. \A h \in Hand : hand'[h].pc = "record" => hand'[h] = hand[h] BY <2>4, <2>8
      <4>2. QED BY <4>1 DEF IInv, SenderOK
    <3>7. \A p \in RunId, x \in Text \ {"nothing"} : told[p, x] <= 1 BY DEF IInv, SenderOK
    <3>8. QED BY <1>1, <3>2, <3>3, <3>4, <3>5, <3>6, <3>7 DEF SenderOK
  <2>16. ASSUME OneRunner PROVE LossCalm
    <3>1. \A p \in RunId : run'[p].notice = "delivered" => p # q /\ run[p].notice = "delivered" BY <2>2 DEF Same
    <3>2. ASSUME NEW s \in Runner, Lapsed(run'[hand'[s].run])
          PROVE  hand[s].pc \in Noticing /\ Lapsed(run[hand[s].run]) /\ hand'[s].tell = hand[s].tell
      <4>1. s = r BY <2>16 DEF OneRunner
      <4>2. Lapsed(run[q]) BY <2>4, <2>8, <2>11, <3>2, <4>1 DEF Lapsed
      <4>3. QED BY <1>1, <1>2, <2>4, <2>8, <4>1, <4>2, Statuses
    <3>3. QED BY <2>11, <3>1, <3>2 DEF LossCalm, Lapsed
  <2>17. (OneRunner => LossOK)' BY <1>1, <2>16, CalmLoss
  <2>18. \A p \in RunId : RowRuns(p) BY <2>11 DEF RowRuns
  <2>19. ThreadCalm BY <1>1, Unmoved
  <2>20. QED BY <1>1, <2>9, <2>10, <2>11, <2>12, <2>13, <2>14, <2>15, <2>17, <2>18, <2>19, DeliveryKeeps
<1>5. CASE Done(r) /\ UNCHANGED run
  <2>1. Hands' /\ AgesCalm /\ \A g \in Hand : HandWorks(g) /\ HandTells(g) BY <1>1, <1>5, Based, HandDone
  <2>2. QED BY <1>1, <1>5, <2>1, Unmoved, TypesKept, QuietKeeps
<1>6. QED BY <1>2, <1>4, <1>5 DEF Notify

LEMMA SendKeeps == ASSUME IInv, NEW r \in Runner, Send(r) PROVE IInv'
<1>1. hand[r].pc = "sending" /\ UNCHANGED <<task, run, thread, limit>> /\ r \in Hand BY DEF Send, Hand
<1>2. PICK q \in RunId : q = hand[r].run BY <1>1 DEF IInv, PlacesOK, Placed
<1>3. hand[r] \in HandState BY <1>1, Based DEF Hands
<1>4. PICK text \in Text : text = hand[r].tell BY <1>3 DEF HandState
<1>5. text # "nothing" => \A x \in Text \ {"nothing"} : told[q, x] = 0 BY <1>1, <1>2, <1>4 DEF IInv, SenderOK
<1>6. told \in [RunId \X Text -> 0..2] BY DEF IInv, TypesOK
<1>7. PICK sent \in BOOLEAN :
        /\ hand' = [hand EXCEPT ![r] = [hand[r] EXCEPT !.pc = "record", !.sent = sent]]
        /\ \/ told' = told /\ (sent => text = "nothing")
           \/ text # "nothing" /\ told' = [told EXCEPT ![<<q, text>>] = 1]
  <2>1. CASE text = "nothing" /\ Goto(r, "record") /\ UNCHANGED told
    <3>1. hand' = [hand EXCEPT ![r].pc = "record"] BY <2>1 DEF Goto
    <3>2. hand[r].sent \in BOOLEAN BY <1>3 DEF HandState
    <3>3. [hand[r] EXCEPT !.pc = "record"] = [hand[r] EXCEPT !.pc = "record", !.sent = hand[r].sent]
      BY <1>3 DEF HandState
    <3>4. QED BY <1>1, <2>1, <3>1, <3>2, <3>3, Based DEF Hands
  <2>2. ASSUME text # "nothing", NEW reached \in BOOLEAN, NEW returned \in BOOLEAN, returned => reached,
               hand' = [hand EXCEPT ![r].pc = "record", ![r].sent = returned],
               told' = IF reached /\ told[q, text] < 2 THEN [told EXCEPT ![<<q, text>>] = @ + 1] ELSE told
        PROVE  /\ hand' = [hand EXCEPT ![r] = [hand[r] EXCEPT !.pc = "record", !.sent = returned]]
               /\ \/ told' = told /\ ~returned
                  \/ told' = [told EXCEPT ![<<q, text>>] = 1]
    <3>1. told[q, text] = 0 BY <1>5, <2>2
    <3>2. hand' = [hand EXCEPT ![r] = [hand[r] EXCEPT !.pc = "record", !.sent = returned]]
      BY <1>1, <1>3, <2>2, Based DEF Hands
    <3>3. told[<<q, text>>] = 0 BY <3>1
    <3>4. [told EXCEPT ![<<q, text>>] = @ + 1] = [told EXCEPT ![<<q, text>>] = 1] BY <3>3
    <3>5. told[q, text] < 2
      <4>1. 0 < 2 OBVIOUS
      <4>2. QED BY <3>1, <4>1, Zenon
    <3>6. (told' = told /\ ~returned) \/ told' = [told EXCEPT ![<<q, text>>] = 1]
      <4>1. CASE reached BY <2>2, <3>4, <3>5, <4>1
      <4>2. CASE ~reached BY <2>2, <4>2
      <4>3. QED BY <4>1, <4>2
    <3>7. QED BY <3>2, <3>6
  <2>3. QED BY <1>2, <1>4, <2>1, <2>2 DEF Send
<1> DEFINE new == [hand[r] EXCEPT !.pc = "record", !.sent = sent]
<1>8. new \in HandState BY <1>3 DEF HandState
<1>9. new.pc = "record" /\ new.run = q /\ new.tell = text /\ new.ticket = hand[r].ticket /\ new.sent = sent
  BY <1>2, <1>3, <1>4 DEF HandState
<1>10. hand' = [hand EXCEPT ![r] = new] BY <1>7
<1>11. r \notin Callback BY RunnerAssumption
<1> HIDE DEF new
<1>12. Placed(r, new) BY <1>9, <1>11 DEF Placed
<1>13. /\ Hands' /\ hand'[r] = new
       /\ \A g \in Hand \ {r} : hand'[g] = hand[g] /\ HandWorks(g) /\ HandTells(g)
  BY <1>1, <1>8, <1>10, <1>12, Based, HandPut
<1>14. \A h \in Hand : HandWorks(h) BY <1>9, <1>13, Statuses DEF HandWorks
<1>15. AgesCalm BY <1>9, <1>13, Statuses DEF AgesCalm, Hand
<1>16. Rows' /\ (\A p \in RunId : Same(p)) /\ ThreadCalm /\ thread' \subseteq RunId /\ limit' \in Limit BY <1>1, Unmoved
\* What is counted as told.
<1>17. /\ told' \in [RunId \X Text -> 0..2]
       /\ \A p \in RunId, x \in Text : p # q \/ text = "nothing" => told'[p, x] = told[p, x]
       /\ \A p \in RunId, x \in Text \ {"nothing"} : told'[p, x] <= 1
       /\ \A p \in RunId, x \in Text : told[p, x] > 0 => told'[p, x] > 0
       /\ text # "nothing" /\ sent => told'[q, text] > 0
  <2>1. \A p \in RunId, x \in Text \ {"nothing"} : told[p, x] <= 1 BY DEF IInv, SenderOK
  <2>2. CASE told' = told /\ (sent => text = "nothing") BY <1>6, <2>1, <2>2
  <2>3. CASE text # "nothing" /\ told' = [told EXCEPT ![<<q, text>>] = 1]
    <3>1. \A p \in RunId, x \in Text : told'[p, x] = IF p = q /\ x = text THEN 1 ELSE told[p, x] BY <1>6, <2>3
    <3>2. told' \in [RunId \X Text -> 0..2] BY <1>6, <2>3
    <3>3. text # "nothing" BY <2>3
    <3>4. \A p \in RunId, x \in Text : p # q \/ text = "nothing" => told'[p, x] = told[p, x] BY <3>1, <3>3
    <3>5. 1 <= 1 /\ 1 > 0 OBVIOUS
    <3>6. \A p \in RunId, x \in Text \ {"nothing"} : told'[p, x] <= 1 BY <2>1, <3>1, <3>5, Zenon
    <3>7. \A p \in RunId, x \in Text : told[p, x] > 0 => told'[p, x] > 0 BY <3>1, <3>5, Zenon
    <3>8. told'[q, text] > 0 BY <3>1, <3>5, Zenon
    <3>9. QED BY <3>2, <3>4, <3>6, <3>7, <3>8
  <2>4. QED BY <1>7, <2>2, <2>3
<1>18. TypesOK' BY <1>1, <1>13, <1>16, <1>17 DEF TypesOK, Hands, IInv, StoreTypeOK
<1>19. PlacesOK' BY <1>1, <1>13 DEF PlacesOK, Hands, IInv
<1>20. text # "nothing" => run[q].status \in Over /\ run[q].notice # "pending"
  BY <1>1, <1>2, <1>4, Statuses DEF IInv, SenderOK
<1>21. NoticeOK'
  <2>1. ASSUME NEW p \in RunId, run[p].status \notin Over \/ run[p].notice = "pending", NEW x \in Text \ {"nothing"}
        PROVE  told'[p, x] = 0
    <3>1. p # q \/ text = "nothing" BY <1>20, <2>1
    <3>2. QED BY <1>17, <2>1, <3>1 DEF IInv, NoticeOK
  <2>2. QED BY <1>1, <2>1 DEF IInv, NoticeOK
<1>22. SenderOK'
  <2>1. \A h \in Hand : hand'[h].pc \in Noticing =>
           /\ hand[h].pc \in Noticing /\ hand'[h].run = hand[h].run /\ hand'[h].tell = hand[h].tell
           /\ hand[h].run \in RunId /\ hand'[h].ticket = hand[h].ticket
    BY <1>1, <1>2, <1>4, <1>9, <1>13, Statuses DEF IInv, PlacesOK, Placed
  <2>2. \A h \in Hand : hand'[h].pc \in {"sending", "record"} =>
           hand[h].pc \in {"sending", "record"} /\ hand'[h].run = hand[h].run /\ hand'[h].ticket = hand[h].ticket
    BY <1>1, <1>2, <1>9, <1>13
  <2>3. ASSUME NEW h \in Hand, hand'[h].pc \in Noticing
        PROVE  /\ run'[hand'[h].run].status # "none"
               /\ hand'[h].tell # "nothing" => run'[hand'[h].run].status \in Over
    BY <1>1, <2>1, <2>3 DEF IInv, SenderOK
  <2>4. \A h \in Hand : hand'[h].pc \in {"sending", "record"} => hand'[h].ticket <= run'[hand'[h].run].ticket
    BY <1>1, <2>2 DEF IInv, SenderOK
  <2>5. \A g, h \in Hand :
          /\ hand'[g].pc \in {"sending", "record"} /\ hand'[h].pc \in {"sending", "record"}
          /\ hand'[g].run = hand'[h].run /\ hand'[g].ticket = hand'[h].ticket
          => g = h
    BY <2>2 DEF IInv, SenderOK
  <2>6. ASSUME NEW h \in Hand, hand'[h].pc = "sending", hand'[h].tell # "nothing"
        PROVE  /\ hand'[h].ticket = run'[hand'[h].run].ticket /\ run'[hand'[h].run].notice # "pending"
               /\ \A x \in Text \ {"nothing"} : told'[hand'[h].run, x] = 0
    <3>1. h # r /\ hand'[h] = hand[h] /\ hand[h].run \in RunId BY <1>9, <1>13, <2>1, <2>6, Statuses
    <3>2. /\ hand[h].ticket = run[hand[h].run].ticket /\ run[hand[h].run].notice # "pending"
          /\ \A x \in Text \ {"nothing"} : told[hand[h].run, x] = 0
      BY <2>6, <3>1 DEF IInv, SenderOK
    <3>3. hand[h].run # q \/ text = "nothing"
      <4>1. ASSUME hand[h].run = q, text # "nothing" PROVE FALSE
        <5>1. hand[r].ticket = run[q].ticket BY <1>1, <1>2, <1>4, <4>1 DEF IInv, SenderOK
        <5>2. h = r BY <1>1, <1>2, <2>6, <3>1, <3>2, <4>1, <5>1 DEF IInv, SenderOK
        <5>3. QED BY <3>1, <5>2
      <4>2. QED BY <4>1
    <3>4. QED BY <1>1, <1>17, <3>1, <3>2, <3>3
  <2>7. ASSUME NEW h \in Hand, hand'[h].pc = "record", hand'[h].tell # "nothing", hand'[h].sent
        PROVE  told'[hand'[h].run, hand'[h].tell] > 0
    <3>1. CASE h = r BY <1>9, <1>13, <1>17, <2>7, <3>1
    <3>2. CASE h # r
      <4>1. hand'[h] = hand[h] /\ hand[h].run \in RunId BY <1>13, <2>1, <2>7, <3>2, Statuses
      <4>2. hand[h].tell \in Text BY Based DEF Hands, HandState
      <4>3. told[hand[h].run, hand[h].tell] > 0 BY <2>7, <4>1 DEF IInv, SenderOK
      <4>4. QED BY <1>17, <4>1, <4>2, <4>3
    <3>3. QED BY <3>1, <3>2
  <2>8. QED BY <1>17, <2>3, <2>4, <2>5, <2>6, <2>7 DEF SenderOK
<1>23. (OneRunner => LossOK)'
  <2> SUFFICES ASSUME OneRunner PROVE LossOK' BY DEF OneRunner
  <2>1. LossOK BY DEF IInv
  <2>2. LossIsTold' BY <1>1, <1>17, <2>1 DEF LossOK, LossIsTold, Text
  <2>3. ASSUME NEW s \in Runner, Lapsed(run[hand'[s].run]) PROVE hand'[s].tell = "unknown"
    <3>1. s = r BY DEF OneRunner
    <3>2. QED BY <1>1, <1>2, <1>4, <1>9, <1>13, <2>1, <2>3, <3>1, Statuses DEF LossOK
  <2>4. QED BY <1>1, <2>2, <2>3 DEF LossOK
<1>24. \A p \in RunId : RowRuns(p) BY <1>1 DEF RowRuns
<1>25. QED BY <1>1, <1>14, <1>15, <1>16, <1>18, <1>19, <1>21, <1>22, <1>23, <1>24, DeliveryKeeps

-----------------------------------------------------------------------------
(* An execution starts *)

LEMMA StartExecution ==
    ASSUME IInv, NEW q \in RunId, NEW h \in Hand, ~Busy(q), \A p \in RunId \ {q} : Same(p),
           run'[q].status = "running",
           \A p \in RunId \ {q} : p[1] = q[1] => run[p].status \notin Occupying,
           hand'[h].pc \in Working, hand'[h].run = q, hand'[h].token = run'[q].token,
           \A g \in Hand \ {h} : hand'[g] = hand[g], thread' = thread
    PROVE  ExecutionOK'
<1>1. \A g \in Hand \ {h} : hand[g].pc \in Working => hand[g].run \in RunId \ {q}
  BY Statuses DEF Busy, IInv, PlacesOK, Placed
<1>2. ASSUME NEW g \in Hand, hand'[g].pc \in Working
      PROVE  /\ run'[hand'[g].run].status \in {"running", "unknown"}
             /\ run'[hand'[g].run].status = "running" => run'[hand'[g].run].token = hand'[g].token
  <2>1. CASE g = h BY <2>1
  <2>2. CASE g # h
    <3>1. hand'[g] = hand[g] /\ hand[g].run \in RunId \ {q} BY <1>1, <1>2, <2>2
    <3>2. run'[hand[g].run].status = run[hand[g].run].status /\ run'[hand[g].run].token = run[hand[g].run].token
      BY <3>1 DEF Same
    <3>3. /\ run[hand[g].run].status \in {"running", "unknown"}
          /\ run[hand[g].run].status = "running" => run[hand[g].run].token = hand[g].token
      BY <1>2, <3>1 DEF IInv, ExecutionOK
    <3>4. QED BY <3>1, <3>2, <3>3
  <2>3. QED BY <2>1, <2>2
<1>3. ASSUME NEW f \in Hand, NEW g \in Hand, hand'[f].pc \in Working, hand'[g].pc \in Working, hand'[f].run = hand'[g].run
      PROVE  f = g
  <2>1. CASE f # h /\ g # h
    <3>1. hand'[f] = hand[f] /\ hand'[g] = hand[g] BY <2>1
    <3>2. hand[f].pc \in Working /\ hand[g].pc \in Working /\ hand[f].run = hand[g].run BY <1>3, <3>1
    <3>3. QED BY <3>2 DEF IInv, ExecutionOK
  <2>2. CASE f = h \/ g = h BY <1>1, <1>3, <2>2
  <2>3. QED BY <2>1, <2>2
<1>4. ASSUME NEW p \in thread
      PROVE  /\ run'[p].status \in {"running", "unknown"}
             /\ \A g \in Hand : hand'[g].pc \in Working => hand'[g].run # p
  <2>1. p \in RunId \ {q} BY DEF Busy, IInv, TypesOK
  <2>2. run'[p].status = run[p].status BY <2>1 DEF Same
  <2>3. run[p].status \in {"running", "unknown"} /\ \A g \in Hand : hand[g].pc \in Working => hand[g].run # p
    BY DEF IInv, ExecutionOK
  <2>4. QED BY <2>1, <2>2, <2>3
<1>5. ASSUME NEW t \in Task, NEW m \in 1..MaxRuns, NEW n \in 1..MaxRuns,
             run'[t, m].status \in Occupying, run'[t, n].status \in Occupying
      PROVE  m = n
  <2>1. PICK u \in RunId, v \in RunId : u = <<t, m>> /\ v = <<t, n>> BY RunIds
  <2>2. run'[u].status \in Occupying /\ run'[v].status \in Occupying /\ u[1] = t /\ v[1] = t BY <1>5, <2>1
  <2>3. CASE u # q /\ v # q
    <3>1. run[u].status \in Occupying /\ run[v].status \in Occupying BY <2>2, <2>3 DEF Same
    <3>2. run[t, m].status \in Occupying /\ run[t, n].status \in Occupying BY <2>1, <3>1
    <3>3. QED BY <3>2 DEF IInv, ExecutionOK
  <2>4. CASE u = q \/ v = q
    <3>1. \A p \in RunId \ {q} : p[1] = t => run'[p].status \notin Occupying BY <2>2, <2>4 DEF Same
    <3>2. u = v BY <2>2, <2>4, <3>1
    <3>3. QED BY <2>1, <3>2
  <2>5. QED BY <2>3, <2>4
<1>6. QED BY <1>2, <1>3, <1>4, <1>5 DEF ExecutionOK

\* A callback takes a run over.
LEMMA ClickKeeps == ASSUME IInv, NEW c \in Callback, NEW q \in RunId, Click(c, q) PROVE IInv'
<1>1. /\ c \in Hand /\ UNCHANGED <<task, thread, limit, told>>
      /\ hand' = [hand EXCEPT ![c] = [Idle EXCEPT !.pc = "decide", !.run = q, !.token = run'[q].token]]
  BY DEF Click, Hand
<1>2. run[q].token < MaxTurns BY DEF Click, ClaimResume, IInv, PlacesOK
<1>3. /\ Rows' /\ \A p \in RunId \ {q} : Same(p)
      /\ run[q].status = "awaiting" /\ run'[q].status = "running" /\ run'[q].token \in 0..MaxTurns
      /\ run'[q].notice = run[q].notice /\ run'[q].ticket = run[q].ticket /\ run'[q].why = run[q].why
  BY <1>2, Based, ResumeClaimed DEF Click
<1> DEFINE new == [Idle EXCEPT !.pc = "decide", !.run = q, !.token = run'[q].token]
<1>4. new \in HandState BY <1>3, IdleTyped, Statuses DEF HandState
<1>5. new.pc = "decide" /\ new.run = q /\ new.token = run'[q].token BY IdleTyped DEF HandState
<1>6. hand' = [hand EXCEPT ![c] = new] BY <1>1
<1> HIDE DEF new
<1>7. Placed(c, new) BY <1>5, Statuses DEF Placed
<1>8. /\ Hands' /\ hand'[c] = new
      /\ \A g \in Hand \ {c} : hand'[g] = hand[g] /\ HandWorks(g) /\ HandTells(g)
  BY <1>1, <1>4, <1>6, <1>7, Based, HandPut
<1>9. AgesCalm BY <1>5, <1>8, Statuses DEF AgesCalm, Hand
<1>10. \A g \in Hand : HandTells(g) BY <1>5, <1>8, Statuses DEF HandTells
<1>11. TypesOK' BY <1>1, <1>3, <1>8, TypesKept, Unmoved
<1>12. PlacesOK'
  <2>1. \A p \in RunId : run'[p].status = "awaiting" => run'[p].token < MaxTurns
    BY <1>3 DEF Same, IInv, PlacesOK
  <2>2. QED BY <1>8, <2>1 DEF PlacesOK, Hands
<1>13. ExecutionOK'
  <2>1. ~Busy(q) BY <1>3, BusyOccupies
  <2>2. ASSUME NEW p \in RunId \ {q}, p[1] = q[1] PROVE run[p].status \notin Occupying
    <3>1. p = <<q[1], p[2]>> /\ q = <<q[1], q[2]>> /\ q[1] \in Task /\ p[2] \in 1..MaxRuns /\ q[2] \in 1..MaxRuns
      BY <2>2, RunIds
    <3>2. run[q[1], q[2]].status \in Occupying BY <1>3, <3>1, Statuses
    <3>3. ASSUME run[p].status \in Occupying PROVE FALSE
      <4>1. run[q[1], p[2]].status \in Occupying BY <3>1, <3>3
      <4>2. p[2] = q[2] BY <3>1, <3>2, <4>1 DEF IInv, ExecutionOK
      <4>3. QED BY <3>1, <4>2
    <3>4. QED BY <3>3
  <2>3. hand'[c].pc \in Working /\ hand'[c].run = q /\ hand'[c].token = run'[q].token BY <1>5, <1>8, Statuses
  <2>4. QED BY <1>1, <1>3, <1>8, <2>1, <2>2, <2>3, StartExecution
<1>14. \A p \in RunId : RowTold(p) /\ ~RowFresh(p) BY <1>3, Statuses DEF RowTold, RowFresh, Same
<1>15. NoticeOK' /\ SenderOK' BY <1>1, <1>10, <1>12, <1>14, CalmNotice, CalmSender
<1>16. TasksOK'
  <2>1. \A p \in RunId : run'[p].status = "none" <=> run[p].status = "none" BY <1>3 DEF Same
  <2>2. QED BY <1>1, <2>1, CalmTasks
<1>17. (OneRunner => LagOK)' BY <1>1, <1>9, CalmLag
<1>18. LossCalm
  <2>1. \A p \in RunId : Lapsed(run'[p]) => Lapsed(run[p]) /\ run'[p].notice = run[p].notice
    BY <1>3 DEF Lapsed, Same
  <2>2. \A r \in Runner : r \in Hand \ {c} BY RunnerAssumption DEF Hand
  <2>3. \A r \in Runner : hand'[r].pc \in Noticing => hand[r] = hand'[r] /\ hand[r].run \in RunId
    BY <1>8, <2>2, Statuses DEF IInv, PlacesOK, Placed
  <2>4. QED BY <2>1, <2>3 DEF LossCalm
<1>19. (OneRunner => LossOK)' BY <1>1, <1>18, CalmLoss
<1>20. QED BY <1>11, <1>12, <1>13, <1>15, <1>16, <1>17, <1>19 DEF IInv, OneRunner

-----------------------------------------------------------------------------
(* Tasks and the rows of their runs *)

LEMMA FreeSlot ==
    ASSUME NEW t \in Task, ~Full(t)
    PROVE  /\ Slot(t) \in 1..MaxRuns /\ <<t, Slot(t)>> \in RunId /\ Slot(t) \notin UsedSlots(t)
           /\ run[<<t, Slot(t)>>].status = "none"
<1>1. \E n \in 1..MaxRuns : run[t, n].status = "none" BY DEF Full, UsedSlots
<1>2. Slot(t) \in 1..MaxRuns /\ run[t, Slot(t)].status = "none" BY <1>1 DEF Slot
<1>3. QED BY <1>2, RunIds DEF UsedSlots

LEMMA OneRun == \A t \in Task : UsedSlots(t) = {} => ~Full(t)
BY Constants DEF Full

\* A trigger of a task is moved.
LEMMA TaskPut ==
    ASSUME task \in [Task -> TaskRow], NEW t \in Task, NEW row \in TaskRow, task' = [task EXCEPT ![t] = row]
    PROVE  task' \in [Task -> TaskRow] /\ task'[t] = row /\ \A s \in Task \ {t} : task'[s] = task[s]
OBVIOUS

\* Where only one task is written and no row of a run appears.
LEMMA TaskMoved ==
    ASSUME IInv, NEW t \in Task, UNCHANGED <<run, thread, limit, told>>,
           NEW state \in {"active", "paused", "deleted"}, NEW due \in Floor..Never,
           task' = [task EXCEPT ![t] = [task[t] EXCEPT !.state = state, !.due = due]],
           task[t].kind # "once" /\ Full(t) => due = Never,
           task[t].kind = "once" /\ due # Never => UsedSlots(t) = {} /\ task[t].last = Floor - 1,
           OneRunner /\ state = "active" => due > task[t].last,
           Hands', \A h \in Hand : HandWorks(h) /\ HandTells(h), AgesCalm
    PROVE  IInv'
<1> DEFINE row == [task[t] EXCEPT !.state = state, !.due = due]
<1>1. task \in [Task -> TaskRow] /\ task[t] \in TaskRow BY DEF IInv, TypesOK, StoreTypeOK
<1>2. row \in TaskRow /\ row.kind = task[t].kind /\ row.state = state /\ row.due = due /\ row.last = task[t].last
  BY <1>1 DEF TaskRow
<1>3. task' \in [Task -> TaskRow] /\ task'[t] = row /\ \A s \in Task \ {t} : task'[s] = task[s]
  <2>1. task' = [task EXCEPT ![t] = row] OBVIOUS
  <2> HIDE DEF row
  <2>2. QED BY <1>1, <1>2, <2>1, TaskPut
<1> HIDE DEF row
<1>4. /\ Rows' /\ (\A q \in RunId : Same(q)) /\ ThreadCalm /\ thread' \subseteq RunId /\ limit' \in Limit
  BY Unmoved
<1>5. TypesOK' BY <1>3, <1>4 DEF TypesOK, StoreTypeOK, Rows, Hands, IInv
<1>6. \A s \in Task : UsedSlots(s)' = UsedSlots(s) /\ Full(s)' = Full(s) BY DEF UsedSlots, Full
<1>7. TasksOK'
  <2>1. ASSUME NEW s \in Task
        PROVE  /\ task'[s].state = "draft" => UsedSlots(s) = {} /\ task'[s].last = Floor - 1
               /\ task'[s].kind # "once" /\ Full(s) => task'[s].due = Never
               /\ task'[s].kind = "once" /\ task'[s].due # Never => UsedSlots(s) = {} /\ task'[s].last = Floor - 1
               /\ task'[s].kind # "once" => task'[s].last <= 0
    <3>1. CASE s = t BY <1>2, <1>3, <3>1 DEF IInv, TasksOK
    <3>2. CASE s # t BY <1>3, <3>2 DEF IInv, TasksOK
    <3>3. QED BY <3>1, <3>2
  <2>2. QED BY <1>6, <2>1 DEF TasksOK
<1>8. (OneRunner => LagOK)'
  <2> SUFFICES ASSUME OneRunner PROVE LagOK' BY DEF OneRunner
  <2>1. LagOK BY DEF IInv
  <2>2. \A s \in Task : task'[s].kind = task[s].kind /\ task'[s].last = task[s].last BY <1>2, <1>3
  <2>3. ASSUME NEW r \in Runner, hand'[r].pc \in Reading, NEW s \in Task, task'[s].kind # "once"
        PROVE  task'[s].last <= -hand'[r].age
    <3>1. CASE hand'[r].age = 0 BY <2>2, <2>3, <3>1 DEF IInv, TasksOK
    <3>2. CASE hand[r].pc \in Reading /\ hand'[r].age = hand[r].age BY <2>1, <2>2, <2>3, <3>2 DEF LagOK
    <3>3. QED BY <2>3, <3>1, <3>2 DEF AgesCalm
  <2>4. TriggersAdvance' BY <1>2, <1>3, <2>1 DEF LagOK, TriggersAdvance
  <2>5. QED BY <2>3, <2>4 DEF LagOK
<1>9. \A q \in RunId : RowCalm(q) BY <1>4 DEF RowCalm, RowRuns, RowTold, RowFresh, Same
<1>10. PlacesOK' BY DEF PlacesOK, Hands, IInv
<1>11. Calm BY <1>4, <1>5, <1>9, <1>10 DEF Calm, HandCalm
<1>12. LossCalm
  <2>1. \A r \in Runner : hand'[r].pc \in Noticing =>
           hand[r].pc \in Noticing /\ hand'[r].run = hand[r].run /\ hand'[r].tell = hand[r].tell
    BY DEF HandTells, Hand
  <2>2. QED BY <2>1 DEF LossCalm
<1>13. QED BY <1>7, <1>8, <1>11, <1>12, CalmBut

LEMMA ConfirmKeeps == ASSUME IInv, NEW t \in Task, Confirm(t), UNCHANGED <<hand, thread, limit, told>> PROVE IInv'
<1>1. PICK due \in 1..Horizon : task' = [task EXCEPT ![t].state = "active", ![t].due = due] BY DEF Confirm
<1>2. task \in [Task -> TaskRow] BY DEF IInv, TypesOK, StoreTypeOK
<1>3. task' = [task EXCEPT ![t] = [task[t] EXCEPT !.state = "active", !.due = due]] BY <1>1, <1>2
<1>4. due \in Floor..Never BY Constants
<1>5. task[t].state = "draft" /\ UNCHANGED run BY DEF Confirm
<1>6. UsedSlots(t) = {} /\ task[t].last = Floor - 1 /\ ~Full(t) BY <1>5, OneRun DEF IInv, TasksOK
<1>7. due > task[t].last BY <1>6, Constants
<1>8. Hands' /\ AgesCalm /\ \A h \in Hand : HandWorks(h) /\ HandTells(h) BY Unmoved
<1>9. QED BY <1>3, <1>4, <1>5, <1>6, <1>7, <1>8, TaskMoved

LEMMA StopKeeps ==
    ASSUME IInv, NEW t \in Task, NEW state \in {"paused", "deleted"}, Stop(t, state), UNCHANGED <<hand, thread, limit, told>>
    PROVE  IInv'
<1>1. task \in [Task -> TaskRow] /\ task[t] \in TaskRow BY DEF IInv, TypesOK, StoreTypeOK
<1>2. task[t].due \in Floor..Never /\ task[t].last \in (Floor - 1)..Horizon BY <1>1 DEF TaskRow
<1>3. task' = [task EXCEPT ![t].state = state] /\ UNCHANGED run BY DEF Stop
<1>4. [task[t] EXCEPT !.state = state] = [task[t] EXCEPT !.state = state, !.due = task[t].due]
  BY <1>1 DEF TaskRow
<1>5. task' = [task EXCEPT ![t] = [task[t] EXCEPT !.state = state, !.due = task[t].due]]
  BY <1>1, <1>3, <1>4
<1>6. /\ task[t].kind # "once" /\ Full(t) => task[t].due = Never
      /\ task[t].kind = "once" /\ task[t].due # Never => UsedSlots(t) = {} /\ task[t].last = Floor - 1
  BY DEF IInv, TasksOK
<1>7. Hands' /\ AgesCalm /\ \A h \in Hand : HandWorks(h) /\ HandTells(h) BY Unmoved
<1>8. QED BY <1>2, <1>3, <1>5, <1>6, <1>7, TaskMoved

\* Where a zone moved a trigger, or none.
LEMMA ZonesKeeps == ASSUME IInv, NEW r \in Runner, Zones(r) PROVE IInv'
<1>1. hand[r].pc = "waits" /\ Goto(r, "claim") /\ UNCHANGED <<thread, limit, told>> /\ r \in Hand BY DEF Zones, Hand
<1>2. hand[r] \in HandState BY <1>1, Based DEF Hands
<1> DEFINE new == [hand[r] EXCEPT !.pc = "claim"]
<1>3. new \in HandState /\ new.pc = "claim" /\ new.age = hand[r].age BY <1>2 DEF HandState
<1>4. hand' = [hand EXCEPT ![r] = new] BY <1>1, <1>2, Based DEF Goto, Hands
<1>5. r \notin Callback BY RunnerAssumption
<1> HIDE DEF new
<1>6. Placed(r, new) /\ Still(r, new) BY <1>1, <1>3, <1>5, Statuses DEF Placed, Still
<1>7. Hands' /\ AgesCalm /\ \A h \in Hand : HandWorks(h) /\ HandTells(h)
  BY <1>1, <1>3, <1>4, <1>6, Based, HandStill
<1>8. CASE UNCHANGED storeVars
  <2>1. UNCHANGED <<task, run>> BY <1>8 DEF storeVars
  <2>2. QED BY <1>1, <1>7, <2>1, Unmoved, TypesKept, QuietKeeps
<1>9. ASSUME NEW t \in Task, Rezone(t, Now(r)) PROVE IInv'
  <2>1. task[t].kind = "calendar" /\ task[t].state = "active" /\ task[t].due # Never /\ UNCHANGED run BY <1>9 DEF Rezone
  <2>2. PICK due \in (Now(r) + 1)..(Now(r) + Horizon) : task' = [task EXCEPT ![t].due = due]
    BY <1>9, <2>1 DEF Rezone, NextAfter
  <2>3. hand[r].age \in 0..MaxLag /\ Now(r) = -hand[r].age BY <1>2 DEF HandState, Now
  <2>4. due \in Floor..Never /\ due > Now(r) BY <2>2, <2>3, Constants
  <2>5. task \in [Task -> TaskRow] /\ task[t] \in TaskRow BY DEF IInv, TypesOK, StoreTypeOK
  <2>6. [task[t] EXCEPT !.due = due] = [task[t] EXCEPT !.state = "active", !.due = due] BY <2>1, <2>5 DEF TaskRow
  <2>7. task' = [task EXCEPT ![t] = [task[t] EXCEPT !.state = "active", !.due = due]] BY <2>2, <2>5, <2>6
  <2>8. ~Full(t) BY <2>1 DEF IInv, TasksOK
  <2>9. OneRunner => due > task[t].last
    <3>1. OneRunner => task[t].last <= Now(r) BY <1>1, <2>1, <2>3, Statuses DEF IInv, LagOK
    <3>2. task[t].last \in Int BY <2>5, Constants DEF TaskRow
    <3>3. QED BY <2>2, <2>3, <3>1, <3>2, Constants
  <2>10. QED BY <1>1, <1>7, <2>1, <2>4, <2>7, <2>8, <2>9, TaskMoved
<1>10. QED BY <1>8, <1>9 DEF Zones

\* Where a row appears for the run of a task, and with it the task has no trigger or a later one.
LEMMA RunCreated ==
    ASSUME IInv, NEW t \in Task, NEW q \in RunId, q[1] = t, run[q].status = "none",
           NEW row \in RunRow, row.status \in {"running", "missed", "skipped_overlap"}, row.ticket = 0, row.why = "none",
           run' = [run EXCEPT ![q] = row],
           NEW state \in {"active", "completed"}, NEW due \in Floor..Never, task[t].due \in Floor..Horizon,
           task' = [task EXCEPT ![t] = [task[t] EXCEPT !.state = state, !.due = due, !.last = task[t].due]],
           state = "active" => due > task[t].due /\ task[t].kind # "once",
           task[t].kind = "once" => due = Never,
           task[t].kind # "once" => task[t].due <= 0 /\ (UsedSlots(t) \cup {q[2]} = 1..MaxRuns => due = Never),
           UNCHANGED <<thread, limit, told>>, Hands',
           \A h \in Hand : HandWorks(h) \/ (row.status = "running" /\ hand'[h].pc \in Working),
           row.status # "running" => \A h \in Hand : HandWorks(h),
           row.status = "running" => ExecutionOK',
           \A h \in Hand : HandTells(h) \/ (HandNews(h) /\ hand'[h].run = q),
           OneRunner => \A r \in Runner : hand'[r].pc \notin Reading \/ (task[t].kind = "once" /\ hand' = hand)
    PROVE  IInv'
<1> DEFINE new == [task[t] EXCEPT !.state = state, !.due = due, !.last = task[t].due]
<1>1. task \in [Task -> TaskRow] /\ task[t] \in TaskRow BY DEF IInv, TypesOK, StoreTypeOK
<1>2. /\ new \in TaskRow /\ new.kind = task[t].kind /\ new.state = state /\ new.due = due /\ new.last = task[t].due
  <2>1. task[t].due \in (Floor - 1)..Horizon BY Constants
  <2>2. QED BY <1>1, <2>1 DEF TaskRow
<1>3. task' = [task EXCEPT ![t] = new] OBVIOUS
<1> HIDE DEF new
<1>4. task' \in [Task -> TaskRow] /\ task'[t] = new /\ \A s \in Task \ {t} : task'[s] = task[s]
  BY <1>1, <1>2, <1>3, TaskPut
<1>5. Rows' /\ run'[q] = row /\ \A p \in RunId \ {q} : Same(p) BY Based, RowPut
<1>6. ThreadCalm /\ thread' \subseteq RunId /\ limit' \in Limit BY Unmoved
<1>7. TypesOK' BY <1>4, <1>5, <1>6 DEF TypesOK, StoreTypeOK, Rows, Hands, IInv
<1>8. PlacesOK'
  <2>1. \A p \in RunId : run'[p].status = "awaiting" => run'[p].token < MaxTurns
    BY <1>5 DEF Same, IInv, PlacesOK
  <2>2. QED BY <2>1 DEF PlacesOK, Hands
<1>9. ExecutionOK'
  <2>1. CASE row.status = "running" BY <2>1
  <2>2. CASE row.status # "running"
    <3>1. \A h \in Hand : HandWorks(h) BY <2>2
    <3>2. ~Busy(q) BY BusyOccupies
    <3>3. ~Busy(q)' BY <1>6, <3>1, <3>2, BusyBefore
    <3>4. RowRuns(q) BY <1>5, <2>2, <3>3, Statuses DEF RowRuns
    <3>5. \A p \in RunId \ {q} : RowRuns(p) BY <1>5 DEF RowRuns, Same
    <3>6. QED BY <1>6, <1>7, <1>8, <3>1, <3>4, <3>5, CalmExecution
  <2>3. QED BY <2>1, <2>2
<1>10. \A p \in RunId : RowTold(p) BY <1>5 DEF RowTold, RowFresh, Same
<1>11. NoticeOK' /\ SenderOK' BY <1>8, <1>10, CalmNotice, CalmSender
<1>12. \A s \in Task \ {t} : UsedSlots(s)' = UsedSlots(s)
  <2>1. ASSUME NEW s \in Task \ {t}, NEW n \in 1..MaxRuns PROVE run'[s, n].status = run[s, n].status
    <3>1. PICK p \in RunId : p = <<s, n>> BY RunIds
    <3>2. p # q BY <3>1
    <3>3. run'[p].status = run[p].status BY <1>5, <3>2 DEF Same
    <3>4. QED BY <3>1, <3>3
  <2>2. QED BY <2>1 DEF UsedSlots
<1>13. UsedSlots(t)' = UsedSlots(t) \cup {q[2]}
  <2>1. ASSUME NEW n \in 1..MaxRuns PROVE run'[t, n].status = "none" <=> run[t, n].status = "none" /\ n # q[2]
    <3>1. PICK p \in RunId : p = <<t, n>> BY RunIds
    <3>2. q = <<t, q[2]>> BY RunIds
    <3>3. p # q => run'[p].status = run[p].status BY <1>5 DEF Same
    <3>4. p = q => run'[p].status # "none" BY <1>5
    <3>5. p = q <=> n = q[2] BY <3>1, <3>2
    <3>6. QED BY <3>1, <3>3, <3>4, <3>5
  <2>2. q[2] \in 1..MaxRuns BY RunIds
  <2>3. QED BY <2>1, <2>2 DEF UsedSlots
<1>14. TasksOK'
  <2>1. ASSUME NEW s \in Task
        PROVE  /\ task'[s].state = "draft" => UsedSlots(s)' = {} /\ task'[s].last = Floor - 1
               /\ task'[s].kind # "once" /\ UsedSlots(s)' = 1..MaxRuns => task'[s].due = Never
               /\ task'[s].kind = "once" /\ task'[s].due # Never => UsedSlots(s)' = {} /\ task'[s].last = Floor - 1
               /\ task'[s].kind # "once" => task'[s].last <= 0
    <3>1. CASE s = t BY <1>2, <1>4, <1>13, <3>1, ZenonT(40)
    <3>2. CASE s # t BY <1>4, <1>12, <3>2 DEF IInv, TasksOK, Full
    <3>3. QED BY <3>1, <3>2
  <2>2. QED BY <2>1 DEF TasksOK, Full
<1>15. (OneRunner => LagOK)'
  <2> SUFFICES ASSUME OneRunner PROVE LagOK' BY DEF OneRunner
  <2>1. LagOK BY DEF IInv
  <2>2. ASSUME NEW r \in Runner, hand'[r].pc \in Reading, NEW s \in Task, task'[s].kind # "once"
        PROVE  task'[s].last <= -hand'[r].age
    <3>1. task[t].kind = "once" /\ hand' = hand BY <2>2
    <3>2. s # t BY <1>2, <1>4, <2>2, <3>1
    <3>3. QED BY <1>4, <2>1, <2>2, <3>1, <3>2 DEF LagOK
  <2>3. TriggersAdvance' BY <1>2, <1>4, <2>1 DEF LagOK, TriggersAdvance
  <2>4. QED BY <2>2, <2>3 DEF LagOK
<1>16. LossCalm
  <2>1. \A p \in RunId : Lapsed(run'[p]) => p # q /\ Lapsed(run[p]) /\ run'[p].notice = run[p].notice
    BY <1>5 DEF Lapsed, Same
  <2>2. ASSUME NEW r \in Runner, hand'[r].pc \in Noticing, Lapsed(run'[hand'[r].run])
        PROVE  hand[r].pc \in Noticing /\ Lapsed(run[hand[r].run]) /\ hand'[r].tell = hand[r].tell
    <3>1. r \in Hand BY DEF Hand
    <3>2. hand'[r].run \in RunId BY <2>2, <3>1, Statuses DEF Hands, Placed
    <3>3. hand'[r].run # q /\ Lapsed(run[hand'[r].run]) BY <2>1, <2>2, <3>2
    <3>4. HandTells(r) BY <3>1, <3>3
    <3>5. QED BY <2>2, <3>3, <3>4 DEF HandTells
  <2>3. QED BY <2>1, <2>2 DEF LossCalm
<1>17. (OneRunner => LossOK)' BY <1>16, CalmLoss
<1>18. QED BY <1>7, <1>8, <1>9, <1>11, <1>14, <1>15, <1>17 DEF IInv, OneRunner

LEMMA ResumeKeeps == ASSUME IInv, NEW t \in Task, Resume(t), UNCHANGED <<hand, thread, limit, told>> PROVE IInv'
<1>1. task \in [Task -> TaskRow] /\ task[t] \in TaskRow BY DEF IInv, TypesOK, StoreTypeOK
<1>2. task[t].due \in Floor..Never /\ task[t].last \in (Floor - 1)..Horizon BY <1>1 DEF TaskRow
<1>3. Hands' /\ AgesCalm /\ \A h \in Hand : HandWorks(h) /\ HandTells(h) BY Unmoved
<1>4. ASSUME NEW next \in NextAfter(t, 0), UNCHANGED run,
             task' = [task EXCEPT ![t].state = "active", ![t].due = IF Full(t) THEN Never ELSE next]
      PROVE  IInv'
  <2> DEFINE due == IF Full(t) THEN Never ELSE next
  <2>1. next \in 1..Horizon /\ (task[t].kind = "once" => task[t].due = next)
    BY <1>4, Constants DEF NextAfter
  <2>2. due \in Floor..Never /\ due > 0 BY <2>1, Constants
  <2>3. task[t].kind = "once" => ~Full(t) /\ UsedSlots(t) = {} /\ task[t].last = Floor - 1
    BY <2>1, Constants, OneRun DEF IInv, TasksOK
  <2>4. task[t].kind # "once" => task[t].last <= 0 BY DEF IInv, TasksOK
  <2>5. due > task[t].last BY <1>2, <2>2, <2>3, <2>4, Constants
  <2>6. task' = [task EXCEPT ![t] = [task[t] EXCEPT !.state = "active", !.due = due]] BY <1>1, <1>4
  <2>7. task[t].kind # "once" /\ Full(t) => due = Never OBVIOUS
  <2> HIDE DEF due
  <2>8. QED BY <1>3, <1>4, <2>2, <2>3, <2>5, <2>6, <2>7, TaskMoved
<1>5. ASSUME NextAfter(t, 0) = {}, task[t].due # Never,
             run' = [run EXCEPT ![<<t, Slot(t)>>] = [NoRow EXCEPT !.status = "missed"]],
             task' = [task EXCEPT ![t] = [@ EXCEPT !.state = "completed", !.due = Never, !.last = task[t].due]]
      PROVE  IInv'
  <2>1. task[t].kind = "once"
    <3>1. 0 + 1 \in (0 + 1)..(0 + Horizon) BY Constants
    <3>2. QED BY <1>5, <3>1 DEF NextAfter
  <2>2. ~Full(t) BY <1>5, <2>1, OneRun DEF IInv, TasksOK
  <2>3. PICK q \in RunId : q = <<t, Slot(t)>> /\ run[q].status = "none" BY <2>2, FreeSlot
  <2> DEFINE row == [NoRow EXCEPT !.status = "missed"]
  <2>4. row \in RunRow BY NoRowTyped, Statuses DEF RunRow, Ended
  <2>5. row.status = "missed" /\ row.ticket = 0 /\ row.why = "none" BY DEF NoRow
  <2>6. run' = [run EXCEPT ![q] = row] BY <1>5, <2>3
  <2>7. q[1] = t BY <2>3
  <2>8. task[t].due \in Floor..Horizon /\ Never \in Floor..Never BY <1>2, <1>5, Constants
  <2>9. task' = [task EXCEPT ![t] = [task[t] EXCEPT !.state = "completed", !.due = Never, !.last = task[t].due]]
    BY <1>1, <1>5
  <2> HIDE DEF row
  <2>10. PICK due \in Floor..Never : due = Never BY <2>8
  <2>11. QED BY <1>3, <2>1, <2>3, <2>4, <2>5, <2>6, <2>7, <2>8, <2>9, <2>10, RunCreated
<1>6. QED BY <1>4, <1>5 DEF Resume

LEMMA OwnerKeeps == ASSUME IInv, NEW t \in Task, Owner(t) PROVE IInv'
BY ConfirmKeeps, StopKeeps, ResumeKeeps DEF Owner

LEMMA ClaimedRow ==
    ASSUME NEW status \in {"running", "missed", "skipped_overlap"}, NEW age \in 0..MaxLag
    PROVE  LET row == NewRow(status, -age) IN
           /\ row \in RunRow /\ row.status = status /\ row.ticket = 0 /\ row.why = "none"
           /\ status = "running" => row.token = 1
<1> DEFINE first == [NoRow EXCEPT !.status = status, !.token = 1, !.left = Lease + -age]
           other == [NoRow EXCEPT !.status = status]
<1>1. Lease + -age \in 0..Lease BY Constants
<1>2. first \in RunRow /\ first.status = status /\ first.ticket = 0 /\ first.why = "none" /\ first.token = 1
  <2>1. first \in RunRow BY <1>1, NoRowTyped, Ranges DEF RunRow, Ended, Occupying
  <2>2. QED BY <2>1 DEF NoRow
<1>3. other \in RunRow /\ other.status = status /\ other.ticket = 0 /\ other.why = "none"
  <2>1. other \in RunRow BY NoRowTyped DEF RunRow, Ended, Occupying
  <2>2. QED BY <2>1 DEF NoRow
<1>4. NewRow(status, -age) = IF status = "running" THEN first ELSE other BY DEF NewRow
<1> HIDE DEF first, other
<1>5. QED BY <1>2, <1>3, <1>4

\* What claim_due makes of the trigger of its task.
LEMMA NextTrigger ==
    ASSUME IInv, NEW t \in Task, NEW age \in 0..MaxLag, ClaimDue(t, -age)
    PROVE  /\ task[t].due \in Floor..Horizon /\ task[t].due <= 0 /\ ~Full(t)
           /\ \E state \in {"active", "completed"}, due \in Floor..Never :
                 /\ task' = [task EXCEPT ![t] = [task[t] EXCEPT !.state = state, !.due = due, !.last = task[t].due]]
                 /\ state = "active" => due > task[t].due /\ task[t].kind # "once"
                 /\ task[t].kind = "once" => due = Never
                 /\ task[t].kind # "once" => (UsedSlots(t) \cup {Slot(t)} = 1..MaxRuns => due = Never)
<1>1. task \in [Task -> TaskRow] /\ task[t] \in TaskRow BY DEF IInv, TypesOK, StoreTypeOK
<1>2. task[t].due \in Floor..Never /\ task[t].state = "active" /\ task[t].due <= -age BY <1>1 DEF ClaimDue, Due, TaskRow
<1>3. task[t].due \in Floor..Horizon /\ task[t].due <= 0 /\ task[t].due # Never BY <1>2, Constants
<1>4. ~Full(t) BY <1>3, OneRun DEF IInv, TasksOK
<1> DEFINE next == IF UsedSlots(t) \cup {Slot(t)} = 1..MaxRuns /\ task[t].kind # "once"
                   THEN {Never} ELSE NextAfter(t, -age)
<1>5. CASE task[t].kind = "once"
  <2>1. next = {} BY <1>2, <1>5, Constants DEF NextAfter
  <2>2. task' = [task EXCEPT ![t] = [task[t] EXCEPT !.state = "completed", !.due = Never, !.last = task[t].due]]
    BY <1>1, <2>1 DEF ClaimDue
  <2>3. Never \in Floor..Never BY Constants
  <2>4. QED BY <1>3, <1>4, <1>5, <2>2, <2>3
<1>6. CASE task[t].kind # "once"
  <2>1. \A due \in next : due \in Floor..Never /\ due > task[t].due BY <1>2, <1>6, Constants DEF NextAfter
  <2>2. next # {}
    <3>1. -age + 1 \in (-age + 1)..(-age + Horizon) BY Constants
    <3>2. QED BY <1>6, <3>1 DEF NextAfter
  <2>3. PICK due \in next : task' = [task EXCEPT ![t].due = due, ![t].last = task[t].due] BY <2>2 DEF ClaimDue
  <2>4. [task[t] EXCEPT !.due = due, !.last = task[t].due]
          = [task[t] EXCEPT !.state = "active", !.due = due, !.last = task[t].due]
    BY <1>1, <1>2 DEF TaskRow
  <2>5. task' = [task EXCEPT ![t] = [task[t] EXCEPT !.due = due, !.last = task[t].due]] BY <1>1, <2>3
  <2>6. task' = [task EXCEPT ![t] = [task[t] EXCEPT !.state = "active", !.due = due, !.last = task[t].due]]
    BY <2>4, <2>5
  <2>7. UsedSlots(t) \cup {Slot(t)} = 1..MaxRuns => due = Never BY <1>6
  <2>8. due \in Floor..Never /\ due > task[t].due BY <2>1
  <2> HIDE DEF next
  <2>9. QED BY <1>3, <1>4, <1>6, <2>6, <2>7, <2>8
<1>7. QED BY <1>5, <1>6

LEMMA ClaimKeeps == ASSUME IInv, NEW r \in Runner, Claim(r) PROVE IInv'
<1>1. hand[r].pc = "claim" /\ UNCHANGED <<thread, limit, told>> /\ r \in Hand BY DEF Claim, Hand
<1>2. CASE Done(r) /\ UNCHANGED storeVars
  <2>1. UNCHANGED <<task, run>> BY <1>2 DEF storeVars
  <2>2. Hands' /\ AgesCalm /\ \A g \in Hand : HandWorks(g) /\ HandTells(g) BY <1>1, <1>2, Based, HandDone
  <2>3. QED BY <1>1, <2>1, <2>2, Unmoved, TypesKept, QuietKeeps
<1>3. ASSUME NEW t \in Task, ClaimDue(t, Now(r)),
             hand' = [hand EXCEPT ![r] =
                     IF ClaimStatus(t, Now(r)) = "running"
                     THEN [Idle EXCEPT !.pc = "turn", !.run = <<t, Slot(t)>>, !.token = 1]
                     ELSE News(<<t, Slot(t)>>, ClaimStatus(t, Now(r)))]
      PROVE  IInv'
  <2>1. PICK age \in 0..MaxLag : Now(r) = -age BY <1>1, Based DEF Now, Hands, HandState
  <2>2. /\ task[t].due \in Floor..Horizon /\ task[t].due <= 0 /\ ~Full(t)
        /\ \E state \in {"active", "completed"}, due \in Floor..Never :
              /\ task' = [task EXCEPT ![t] = [task[t] EXCEPT !.state = state, !.due = due, !.last = task[t].due]]
              /\ state = "active" => due > task[t].due /\ task[t].kind # "once"
              /\ task[t].kind = "once" => due = Never
              /\ task[t].kind # "once" => (UsedSlots(t) \cup {Slot(t)} = 1..MaxRuns => due = Never)
    <3>1. ClaimDue(t, -age) BY <1>3, <2>1
    <3>2. QED BY <3>1, NextTrigger
  <2>3. PICK q \in RunId : q = <<t, Slot(t)>> /\ run[q].status = "none" BY <2>2, FreeSlot
  <2>4. q[1] = t /\ q[2] = Slot(t) BY <2>3
  <2>5. PICK status \in {"running", "missed", "skipped_overlap"} :
           status = ClaimStatus(t, Now(r)) /\ (status = "running" => ~Occupied(t))
    BY DEF ClaimStatus
  <2>6. PICK row \in RunRow : /\ row = NewRow(status, -age) /\ row.status = status /\ row.ticket = 0 /\ row.why = "none"
                              /\ status = "running" => row.token = 1
    BY ClaimedRow
  <2>7. run' = [run EXCEPT ![q] = row] BY <1>3, <2>1, <2>3, <2>5, <2>6 DEF ClaimDue
  <2>8. Rows' /\ run'[q] = row /\ \A p \in RunId \ {q} : Same(p) BY <2>7, Based, RowPut
  <2>9. /\ Hands' /\ hand'[r].pc \notin Reading
        /\ \A h \in Hand : HandWorks(h) \/ (status = "running" /\ hand'[h].pc \in Working)
        /\ status # "running" => \A h \in Hand : HandWorks(h)
        /\ status = "running" => ExecutionOK'
        /\ \A h \in Hand : HandTells(h) \/ (HandNews(h) /\ hand'[h].run = q)
    <3>1. CASE status = "running"
      <4> DEFINE new == [Idle EXCEPT !.pc = "turn", !.run = q, !.token = 1]
      <4>1. new \in HandState BY IdleTyped, Ranges, Statuses DEF HandState
      <4>2. new.pc = "turn" /\ new.run = q /\ new.token = 1 BY IdleTyped DEF HandState
      <4>3. hand' = [hand EXCEPT ![r] = new] BY <1>3, <2>3, <2>5, <3>1
      <4> HIDE DEF new
      <4>4. Placed(r, new) BY <4>2, Statuses DEF Placed
      <4>5. /\ Hands' /\ hand'[r] = new
            /\ \A g \in Hand \ {r} : hand'[g] = hand[g] /\ HandWorks(g) /\ HandTells(g)
        BY <1>1, <4>1, <4>3, <4>4, Based, HandPut
      <4>6. hand'[r].pc \notin Reading /\ hand'[r].pc \in Working /\ HandTells(r)
        BY <4>2, <4>5, Statuses DEF HandTells
      <4>7. ~Busy(q) BY <2>3, BusyOccupies
      <4>8. ASSUME NEW p \in RunId \ {q}, p[1] = q[1] PROVE run[p].status \notin Occupying
        <5>1. p = <<t, p[2]>> /\ p[2] \in 1..MaxRuns BY <2>4, <4>8, RunIds
        <5>2. run[t, p[2]].status \notin Occupying BY <2>5, <3>1, <5>1 DEF Occupied
        <5>3. QED BY <5>1, <5>2
      <4>9. run'[q].status = "running" /\ hand'[r].run = q /\ hand'[r].token = run'[q].token
        BY <2>6, <2>8, <3>1, <4>2, <4>5
      <4>10. ExecutionOK' BY <1>1, <2>8, <4>5, <4>6, <4>7, <4>8, <4>9, StartExecution
      <4>11. QED BY <3>1, <4>5, <4>6, <4>10
    <3>2. CASE status # "running"
      <4>1. PICK text \in Text : text = status BY <3>2 DEF Text
      <4>2. hand' = [hand EXCEPT ![r] = News(q, text)] BY <1>3, <2>3, <2>5, <3>2, <4>1
      <4>3. /\ Hands' /\ \A g \in Hand : HandWorks(g)
            /\ \A g \in Hand \ {r} : HandTells(g)
        BY <4>2, Based, HandTold
      <4>4. hand'[r] = News(q, text) BY <1>1, <4>2, Based DEF Hands
      <4>5. hand'[r].pc = "notify" /\ hand'[r].run = q /\ hand'[r].tell = text BY <4>4, NewsTyped
      <4>6. status # "none" /\ status \in Over BY <3>2, Statuses
      <4>7. HandNews(r) BY <2>6, <2>8, <4>5, <4>6 DEF HandNews
      <4>8. QED BY <3>2, <4>3, <4>5, <4>7, Statuses
    <3>3. QED BY <3>1, <3>2
  <2>10. OneRunner => \A s \in Runner : hand'[s].pc \notin Reading BY <2>9 DEF OneRunner
  <2>11. PICK state \in {"active", "completed"}, due \in Floor..Never :
              /\ task' = [task EXCEPT ![t] = [task[t] EXCEPT !.state = state, !.due = due, !.last = task[t].due]]
              /\ state = "active" => due > task[t].due /\ task[t].kind # "once"
              /\ task[t].kind = "once" => due = Never
              /\ task[t].kind # "once" => (UsedSlots(t) \cup {q[2]} = 1..MaxRuns => due = Never)
    BY <2>2, <2>4
  <2>12. /\ row.status \in {"running", "missed", "skipped_overlap"} /\ row.ticket = 0 /\ row.why = "none"
         /\ \A h \in Hand : HandWorks(h) \/ (row.status = "running" /\ hand'[h].pc \in Working)
         /\ row.status # "running" => \A h \in Hand : HandWorks(h)
         /\ row.status = "running" => ExecutionOK'
    BY <2>6, <2>9
  <2>13. task[t].kind # "once" => task[t].due <= 0 /\ (UsedSlots(t) \cup {q[2]} = 1..MaxRuns => due = Never)
    BY <2>2, <2>11
  <2>14. QED BY <1>1, <2>2, <2>3, <2>4, <2>7, <2>9, <2>10, <2>11, <2>12, <2>13, RunCreated
<1>4. QED BY <1>2, <1>3 DEF Claim, News

-----------------------------------------------------------------------------
(* Time *)

LEMMA PassedTyped == ASSUME NEW top \in Nat, NEW n \in 0..top PROVE Passed(n) \in 0..top
BY DEF Passed

LEMMA TickKeeps == ASSUME IInv, Tick PROVE IInv'
<1>1. UNCHANGED <<thread, limit, told>> BY DEF Tick
<1>2. task \in [Task -> TaskRow] /\ Rows /\ Hands BY Based DEF TypesOK, StoreTypeOK
<1>3. Rows' /\ \A q \in RunId : Same(q)
  <2>1. ASSUME NEW q \in RunId
        PROVE  LET row == [run[q] EXCEPT !.left = Passed(@), !.wait = Passed(@), !.nleft = Passed(@)] IN
               /\ row \in RunRow /\ row.status = run[q].status /\ row.token = run[q].token
               /\ row.notice = run[q].notice /\ row.ticket = run[q].ticket /\ row.why = run[q].why
    <3>1. run[q] \in RunRow BY <1>2 DEF Rows
    <3>2. Passed(run[q].left) \in 0..Lease /\ Passed(run[q].wait) \in 0..AskTTL /\ Passed(run[q].nleft) \in 0..NoticeLease
      BY <3>1, Constants, PassedTyped DEF RunRow
    <3>3. QED BY <3>1, <3>2 DEF RunRow
  <2>2. run' = [q \in RunId |-> [run[q] EXCEPT !.left = Passed(@), !.wait = Passed(@), !.nleft = Passed(@)]]
    BY DEF Tick, Later
  <2>3. QED BY <2>1, <2>2 DEF Rows, Same
<1>4. /\ Hands'
      /\ \A h \in Hand : HandWorks(h) /\ HandTells(h)
      /\ \A r \in Runner : hand'[r].pc \in Reading => hand[r].pc \in Reading /\ hand'[r].age = hand[r].age + 1
                                                      /\ hand'[r].age \in 0..MaxLag
  <2>1. ASSUME NEW h \in Hand
        PROVE  /\ hand'[h] \in HandState /\ hand'[h].pc = hand[h].pc /\ hand'[h].run = hand[h].run
               /\ hand'[h].token = hand[h].token /\ hand'[h].tell = hand[h].tell /\ hand'[h].ticket = hand[h].ticket
               /\ hand'[h].sent = hand[h].sent
               /\ hand'[h].pc \in Reading => hand'[h].age = hand[h].age + 1 /\ hand'[h].age \in 0..MaxLag
    <3>1. hand[h] \in HandState /\ Placed(h, hand[h]) BY <1>2 DEF Hands
    <3>2. hand'[h] = [hand[h] EXCEPT !.age = IF hand[h].pc \in Reading THEN hand[h].age + 1 ELSE hand[h].age]
      BY <1>2, <3>1 DEF Tick, Hands
    <3>3. hand[h].pc \in Reading => hand[h].age + 1 \in 0..MaxLag
      <4>1. hand[h].pc \in Reading => h \in Runner BY <3>1, Statuses DEF Placed, Hand
      <4>2. hand[h].age \in 0..MaxLag BY <3>1 DEF HandState
      <4>3. hand[h].pc \in Reading => hand[h].age < MaxLag BY <4>1 DEF Tick
      <4>4. QED BY <4>2, <4>3, Constants
    <3>4. CASE hand[h].pc \in Reading
      <4>1. hand'[h] = [hand[h] EXCEPT !.age = hand[h].age + 1] BY <3>2, <3>4
      <4>2. hand[h].age + 1 \in 0..MaxLag BY <3>3, <3>4
      <4>3. QED BY <3>1, <4>1, <4>2 DEF HandState
    <3>5. CASE hand[h].pc \notin Reading
      <4>1. hand'[h] = hand[h] BY <3>1, <3>2, <3>5 DEF HandState
      <4>2. QED BY <3>1, <3>5, <4>1
    <3>6. QED BY <3>4, <3>5
  <2>2. hand' \in [Hand -> HandState] BY <2>1 DEF Tick
  <2>3. \A h \in Hand : Placed(h, hand'[h]) BY <1>2, <2>1 DEF Placed, Hands
  <2>4. \A h \in Hand : HandWorks(h) /\ HandTells(h) BY <2>1 DEF HandWorks, HandTells
  <2>5. Hands' BY <2>2, <2>3 DEF Hands, Placed
  <2>6. QED BY <2>1, <2>4, <2>5 DEF Hand
<1>5. ASSUME NEW t \in Task
      PROVE  /\ task'[t] \in TaskRow /\ task'[t].kind = task[t].kind /\ task'[t].state = task[t].state
             /\ task'[t].due = Sooner(task[t].due, Floor) /\ task'[t].last = Sooner(task[t].last, Floor - 1)
             /\ task[t].due \in Floor..Never /\ task[t].last \in (Floor - 1)..Horizon
  <2>1. task[t] \in TaskRow BY <1>2
  <2>2. task[t].due \in Floor..Never /\ task[t].last \in (Floor - 1)..Horizon BY <2>1 DEF TaskRow
  <2>3. Sooner(task[t].due, Floor) \in Floor..Never /\ Sooner(task[t].last, Floor - 1) \in (Floor - 1)..Horizon
    BY <2>2, Constants DEF Sooner
  <2>4. task'[t] = [task[t] EXCEPT !.due = Sooner(task[t].due, Floor), !.last = Sooner(task[t].last, Floor - 1)]
    BY <2>1 DEF Tick, Later, TaskRow
  <2>5. QED BY <2>1, <2>2, <2>3, <2>4 DEF TaskRow
<1>6. task' \in [Task -> TaskRow] BY <1>5 DEF Tick, Later
<1>7. ThreadCalm /\ thread' \subseteq RunId /\ limit' \in Limit BY <1>1, Unmoved
<1>8. TypesOK' BY <1>1, <1>3, <1>4, <1>6, <1>7 DEF TypesOK, StoreTypeOK, Rows, Hands, IInv
<1>9. PlacesOK' BY <1>3, <1>4 DEF PlacesOK, Hands, Same, IInv
<1>10. \A q \in RunId : RowCalm(q) BY <1>3 DEF RowCalm, RowRuns, RowTold, RowFresh, Same
<1>11. Calm BY <1>1, <1>4, <1>7, <1>8, <1>9, <1>10 DEF Calm, HandCalm
<1>12. \A s \in Task : UsedSlots(s)' = UsedSlots(s) BY <1>3, RunIds DEF UsedSlots, Same
<1>13. TasksOK'
  <2>1. ASSUME NEW s \in Task
        PROVE  /\ task'[s].state = "draft" => UsedSlots(s) = {} /\ task'[s].last = Floor - 1
               /\ task'[s].kind # "once" /\ UsedSlots(s) = 1..MaxRuns => task'[s].due = Never
               /\ task'[s].kind = "once" /\ task'[s].due # Never => UsedSlots(s) = {} /\ task'[s].last = Floor - 1
               /\ task'[s].kind # "once" => task'[s].last <= 0
    <3>1. /\ task[s].state = "draft" => UsedSlots(s) = {} /\ task[s].last = Floor - 1
          /\ task[s].kind # "once" /\ UsedSlots(s) = 1..MaxRuns => task[s].due = Never
          /\ task[s].kind = "once" /\ task[s].due # Never => UsedSlots(s) = {} /\ task[s].last = Floor - 1
          /\ task[s].kind # "once" => task[s].last <= 0
      BY DEF IInv, TasksOK, Full
    <3>2. Sooner(Floor - 1, Floor - 1) = Floor - 1 /\ Sooner(Never, Floor) = Never BY DEF Sooner
    <3>3. task'[s].due # Never => task[s].due # Never BY <1>5, <3>2
    <3>4. task'[s].last <= task[s].last /\ task'[s].last \in Int BY <1>5, Constants DEF Sooner
    <3>5. QED BY <1>5, <3>1, <3>2, <3>3, <3>4, Constants
  <2>2. QED BY <1>12, <2>1 DEF TasksOK, Full
<1>14. (OneRunner => LagOK)'
  <2> SUFFICES ASSUME OneRunner PROVE LagOK' BY DEF OneRunner
  <2>1. LagOK BY DEF IInv
  <2>2. ASSUME NEW r \in Runner, hand'[r].pc \in Reading, NEW s \in Task, task'[s].kind # "once"
        PROVE  task'[s].last <= -hand'[r].age
    <3>1. task[s].last <= -hand[r].age BY <1>4, <1>5, <2>1, <2>2 DEF LagOK
    <3>2. hand'[r].age = hand[r].age + 1 /\ hand'[r].age \in 0..MaxLag BY <1>4, <2>2
    <3>3. hand[r].age \in 0..MaxLag BY <1>2 DEF Hands, HandState, Hand
    <3>4. QED BY <1>5, <3>1, <3>2, <3>3, Constants DEF Sooner
  <2>3. ASSUME NEW s \in Task, task'[s].state = "active" PROVE task'[s].due > task'[s].last
    <3>1. task[s].due > task[s].last BY <1>5, <2>1, <2>3 DEF LagOK, TriggersAdvance
    <3>2. QED BY <1>5, <3>1, Constants DEF Sooner
  <2>4. QED BY <2>2, <2>3 DEF LagOK, TriggersAdvance
<1>15. LossCalm
  <2>1. \A r \in Runner : hand'[r].pc \in Noticing =>
           hand[r].pc \in Noticing /\ hand'[r].run = hand[r].run /\ hand'[r].tell = hand[r].tell
           /\ hand'[r].run \in RunId
    BY <1>4, Statuses DEF HandTells, Hand, Hands, Placed
  <2>2. QED BY <1>3, <2>1 DEF LossCalm, Lapsed, Same
<1>16. QED BY <1>11, <1>13, <1>14, <1>15, CalmBut

-----------------------------------------------------------------------------
(* The invariant *)

LEMMA InitOK == Init => IInv
<1> SUFFICES ASSUME Init PROVE IInv OBVIOUS
<1>1. PICK kind \in [Task -> {"once", "interval", "calendar"}] :
         task = [t \in Task |-> [kind |-> kind[t], state |-> "draft", due |-> Never, last |-> Floor - 1]]
  BY DEF Init, StoreInit
<1>2. \A t \in Task : task[t] \in TaskRow /\ task[t].state = "draft" /\ task[t].due = Never /\ task[t].last = Floor - 1
  <2>1. Never \in Floor..Never /\ Floor - 1 \in (Floor - 1)..Horizon BY Constants
  <2>2. QED BY <1>1, <2>1 DEF TaskRow
<1>3. task \in [Task -> TaskRow] BY <1>1, <1>2
<1>4. Rows /\ \A q \in RunId : run[q] = NoRow BY NoRowTyped DEF Init, StoreInit, Rows
<1>5. NoRow.status = "none" /\ NoRow.ticket = 0 BY DEF NoRow
<1>6. hand = [h \in Hand |-> Idle] /\ Idle.pc = "idle" BY DEF Init, Idle
<1>7. hand \in [Hand -> HandState] /\ \A h \in Hand : hand[h].pc = "idle" /\ Placed(h, hand[h])
  BY <1>6, IdleTyped
<1>8. told \in [RunId \X Text -> 0..2] /\ \A q \in RunId, x \in Text : told[q, x] = 0
  <2>1. told = [n \in RunId \X Text |-> 0] BY DEF Init
  <2>2. told \in [RunId \X Text -> 0..2] BY <2>1
  <2>3. \A q \in RunId, x \in Text : told[<<q, x>>] = 0 BY <2>1
  <2>4. QED BY <2>2, <2>3
<1>9. limit \in Limit /\ thread = {} BY RunnerAssumption DEF Init, Limit
<1>10. TypesOK BY <1>3, <1>4, <1>7, <1>8, <1>9 DEF TypesOK, StoreTypeOK, Rows
<1>11. PlacesOK BY <1>4, <1>5, <1>7 DEF PlacesOK
<1>12. ExecutionOK BY <1>4, <1>5, <1>7, <1>9, RunIds, Statuses DEF ExecutionOK
<1>13. NoticeOK
  <2>1. \A q \in RunId : run[q].status \notin Over /\ run[q].ticket <= 1 /\ run[q].ticket # 1
    BY <1>4, <1>5, Statuses
  <2>2. QED BY <1>8, <2>1 DEF NoticeOK
<1>14. SenderOK
  <2>1. 0 <= 1 OBVIOUS
  <2>2. \A q \in RunId, x \in Text \ {"nothing"} : told[q, x] <= 1 BY <1>8, <2>1, Zenon
  <2>3. \A h \in Hand : hand[h].pc \notin Noticing BY <1>7, Statuses
  <2>4. QED BY <1>7, <2>2, <2>3 DEF SenderOK
<1>15. TasksOK
  <2>1. \A t \in Task : UsedSlots(t) = {} BY <1>4, <1>5, RunIds DEF UsedSlots
  <2>2. Floor - 1 <= 0 BY Constants
  <2>3. QED BY <1>2, <2>1, <2>2 DEF TasksOK
<1>16. LagOK
  <2>1. \A r \in Runner : hand[r].pc \notin Reading BY <1>7, Statuses DEF Hand
  <2>2. QED BY <1>2, <2>1 DEF LagOK, TriggersAdvance
<1>17. LossOK
  <2>1. \A r \in Runner : hand[r].pc \notin Noticing BY <1>7, Statuses DEF Hand
  <2>2. QED BY <1>4, <1>5, <2>1 DEF LossOK, LossIsTold
<1>18. QED BY <1>10, <1>11, <1>12, <1>13, <1>14, <1>15, <1>16, <1>17 DEF IInv

LEMMA StutterOK == IInv /\ UNCHANGED runnerVars => IInv'
<1> SUFFICES ASSUME IInv, UNCHANGED runnerVars PROVE IInv' OBVIOUS
<1>1. UNCHANGED <<task, run, hand, thread, limit, told>> BY DEF runnerVars
<1>2. QED BY <1>1, Unmoved, TypesKept, QuietKeeps

\* Every step of every worker, callback, owner and operator, and of time, keeps the invariant.
LEMMA NextOK == IInv /\ Next => IInv'
<1> SUFFICES ASSUME IInv, Next PROVE IInv' OBVIOUS
<1>1. ASSUME NEW r \in Runner, Poll(r) PROVE IInv'
  BY <1>1, BeginKeeps, ExpireWaitKeeps, SettleWaitKeeps, ZonesKeeps, ClaimKeeps, NotifyKeeps, SendKeeps, RecordKeeps
     DEF Poll, Hand
<1>2. ASSUME NEW r \in Runner, Interrupted(r) PROVE IInv' BY <1>2, InterruptedKeeps
<1>3. ASSUME NEW h \in Hand, Turn(h) PROVE IInv'
  BY <1>3, ActKeeps, AskKeeps, CardFailsKeeps, EndTurnKeeps DEF Turn
<1>4. ASSUME NEW h \in Hand, Heartbeat(h) \/ Crash(h) PROVE IInv' BY <1>4, HeartbeatKeeps, CrashKeeps
<1>5. ASSUME NEW c \in Callback, Answer(c) \/ Cancelled(c) PROVE IInv'
  BY <1>5, DecideKeeps, DispatchKeeps, WrittenKeeps, CancelledKeeps DEF Answer, Hand
<1>6. ASSUME NEW c \in Callback, NEW q \in RunId, Click(c, q) PROVE IInv' BY <1>6, ClickKeeps
<1>7. ASSUME NEW t \in Task, Owner(t) PROVE IInv' BY <1>7, OwnerKeeps
<1>8. ASSUME NEW q \in RunId, Operator(q) \/ ThreadEnds(q) PROVE IInv' BY <1>8, OperatorKeeps, ThreadEndsKeeps
<1>9. CASE Tick BY <1>9, TickKeeps
<1>10. QED BY <1>1, <1>2, <1>3, <1>4, <1>5, <1>6, <1>7, <1>8, <1>9 DEF Next

\* The rows keep their types, and what the workers, the threads they leave behind and
\* the callbacks of the owner know of a run agrees with its row, whoever crashes,
\* is cancelled or finds its lease gone.
THEOREM RunnerInvariant == Spec => []IInv
<1>1. IInv /\ [Next]_runnerVars => IInv' BY NextOK, StutterOK
<1>2. QED BY InitOK, <1>1, PTL DEF Spec

-----------------------------------------------------------------------------
(* What follows *)

\* Two tool calls of a task, of a hand or of a thread a cancelled turn left behind,
\* are never in flight together (claim_due, claim_resume, the frozen status).
THEOREM ExecutionsApart == Spec => []TasksNeverOverlap
<1>1. IInv => TasksNeverOverlap
  <2> SUFFICES ASSUME IInv, NEW t \in Task, NEW m \in InFlight(t), NEW n \in InFlight(t) PROVE m = n
    BY DEF TasksNeverOverlap
  <2>1. ASSUME NEW x \in InFlight(t)
        PROVE  /\ x[2] \in RunId /\ Busy(x[2]) /\ x[2][1] = t
               /\ \/ x[1] \in Hand /\ x = <<x[1], hand[x[1]].run>> /\ hand[x[1]].pc \in Working
                  \/ x = <<NoRun, x[2]>> /\ x[2] \in thread
    <3>1. CASE \E h \in Hand : x = <<h, hand[h].run>> /\ hand[h].pc \in {"acting", "writing"} /\ hand[h].run[1] = t
      <4>1. PICK h \in Hand : x = <<h, hand[h].run>> /\ hand[h].pc \in {"acting", "writing"} /\ hand[h].run[1] = t
        BY <3>1
      <4>2. hand[h].pc \in Working BY <4>1, Statuses
      <4>3. hand[h].run \in RunId BY <4>2, Statuses DEF IInv, PlacesOK, Placed
      <4>4. x[1] = h /\ x[2] = hand[h].run BY <4>1
      <4>5. QED BY <4>1, <4>2, <4>3, <4>4 DEF Busy
    <3>2. CASE \E q \in thread : x = <<NoRun, q>> /\ q[1] = t BY <3>2 DEF Busy, IInv, TypesOK
    <3>3. QED BY <3>1, <3>2 DEF InFlight
  <2>2. ASSUME NEW p \in RunId, NEW q \in RunId, Busy(p), Busy(q), p[1] = t, q[1] = t PROVE p = q
    <3>1. run[p].status \in Occupying /\ run[q].status \in Occupying BY <2>2, BusyOccupies, Statuses
    <3>2. p = <<t, p[2]>> /\ q = <<t, q[2]>> /\ p[2] \in 1..MaxRuns /\ q[2] \in 1..MaxRuns BY <2>2, RunIds
    <3>3. run[t, p[2]].status \in Occupying /\ run[t, q[2]].status \in Occupying BY <3>1, <3>2
    <3>4. p[2] = q[2] BY <3>2, <3>3 DEF IInv, ExecutionOK
    <3>5. QED BY <3>2, <3>4
  <2>3. m[2] = n[2] BY <2>1, <2>2
  <2>4. CASE m[1] \in Hand /\ m = <<m[1], hand[m[1]].run>> /\ hand[m[1]].pc \in Working
    <3>1. m[2] = hand[m[1]].run BY <2>4
    <3>2. n[2] \notin thread BY <2>3, <2>4, <3>1, Holder
    <3>3. n[1] \in Hand /\ n = <<n[1], hand[n[1]].run>> /\ hand[n[1]].pc \in Working BY <2>1, <3>2
    <3>4. PICK g \in Hand, h \in Hand : g = m[1] /\ h = n[1] BY <2>4, <3>3
    <3>5. hand[g].run = m[2] /\ hand[h].run = n[2] BY <2>4, <3>3, <3>4
    <3>6. g = h BY <2>3, <2>4, <3>3, <3>4, <3>5 DEF IInv, ExecutionOK
    <3>7. QED BY <2>4, <3>3, <3>4, <3>6
  <2>5. CASE m = <<NoRun, m[2]>> /\ m[2] \in thread
    <3>1. \A h \in Hand : hand[h].pc \in Working => hand[h].run # n[2] BY <2>3, <2>5 DEF IInv, ExecutionOK
    <3>2. n = <<NoRun, n[2]>>
      <4>1. CASE n[1] \in Hand /\ n = <<n[1], hand[n[1]].run>> /\ hand[n[1]].pc \in Working
        <5>1. n[2] = hand[n[1]].run BY <4>1
        <5>2. QED BY <3>1, <4>1, <5>1
      <4>2. QED BY <2>1, <4>1
    <3>3. QED BY <2>3, <2>5, <3>2
  <2>6. QED BY <2>1, <2>4, <2>5
<1>2. QED BY RunnerInvariant, <1>1, PTL

\* A run with a reported outcome, or one that waits, has no tool call going on
\* (finish_run, reconcile_unknown, the cancellation of a turn).
THEOREM SettledQuietly == Spec => []SettledIsQuiet
<1>1. IInv => SettledIsQuiet
  <2> SUFFICES ASSUME IInv, NEW q \in RunId, run[q].status \in Ended \cup {"awaiting"}
               PROVE  q \notin thread /\ \A h \in Hand : hand[h].run = q => hand[h].pc \notin {"acting", "writing"}
    BY DEF SettledIsQuiet
  <2>1. ~Busy(q) BY BusyOccupies DEF Ended
  <2>2. QED BY <2>1, Statuses DEF Busy
<1>2. QED BY RunnerInvariant, <1>1, PTL

\* A message is sent once for a run, for any number of workers, crashes and
\* lost records (claim_delivery, expire_deliveries, expire_runs).
THEOREM ToldOnce == Spec => []NoticeOnce
<1>1. IInv => NoticeOnce BY DEF IInv, SenderOK, NoticeOnce
<1>2. QED BY RunnerInvariant, <1>1, PTL

\* With one worker, a run that is frozen and counts as delivered was told to be unknown.
THEOREM LossTold == ASSUME OneRunner PROVE Spec => []LossIsTold
<1>1. IInv => LossIsTold BY DEF IInv, LossOK
<1>2. QED BY RunnerInvariant, <1>1, PTL

\* With one worker, however old its reading of the clock, the next trigger of a task
\* lies after the one it last ran (claim_due, refresh_timezones).
THEOREM NextTriggerLater == ASSUME OneRunner PROVE Spec => []TriggersAdvance
<1>1. IInv => TriggersAdvance BY DEF IInv, LagOK
<1>2. QED BY RunnerInvariant, <1>1, PTL

=============================================================================
