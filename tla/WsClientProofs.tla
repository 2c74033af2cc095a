--------------------------- MODULE WsClientProofs ---------------------------
(***************************************************************************)
(* Theorems about WsClient, for any number of messages, fragments and      *)
(* tasks, every size of the fragment buffer and every number of            *)
(* reconnects, deliveries, expiries and crashes.                           *)
(*                                                                         *)
(* OnceOK counts: every handler that ran, and every task that is about to  *)
(* run one, has used up one mark, and a mark is either still there or      *)
(* forgotten.  FragmentsOK says what an entry of the buffer can hold, so   *)
(* that only the whole of a message has as many chunks as fragments.       *)
(***************************************************************************)
EXTENDS WsClient, FiniteSetTheorems, SequenceTheorems, TLAPS

At == {"new", "ack", "waiting", "late", "inline", "done"}
Work == {"none", "claim", "mark", "handle", "done"}
Owner == {"frame", "shield", "background", "orphan"}

\* The task of m, whose payload is m as it was sent.
Live(m) ==
    [msg : {m}, payload : {[s \in Whole(m) |-> s]}, at : At, work : Work, owner : Owner]

TaskRecord == {Idle} \cup UNION {Live(m) : m \in Msg}

\* An entry holds fragments of its message, each under its own number.
Entry == UNION {[msg : {m}, chunks : {[s \in D |-> s] : D \in SUBSET Whole(m)}] : m \in Msg}

FragmentsOK == fragments \in Seq(Entry)

TasksOK == task \in [Task -> TaskRecord]

MarksOK ==
    /\ seen \subseteq Msg
    /\ handled \in [Msg -> Nat]
    /\ forgotten \in [Msg -> Nat]

\* The tasks that are about to handle m.
Handling(m) == {t \in Task : task[t].work = "handle" /\ task[t].msg = m}

\* Whoever handles a message, or is about to, has used up a mark.
OnceOK ==
    conf.store # "unclaimed" => \A m \in Msg :
        handled[m] + Cardinality(Handling(m)) <= forgotten[m] + IF m \in seen THEN 1 ELSE 0

IInv ==
    /\ FragmentsOK
    /\ TasksOK
    /\ MarksOK
    /\ OnceOK

-----------------------------------------------------------------------------
(* The records of tasks *)

\* What r may become without a claim: it handles nothing it did not handle before.
Follows(r, q) == q \in TaskRecord /\ (q.work = "handle" => r.work = "handle" /\ q.msg = r.msg)

LEMMA IdleFacts ==
    /\ Idle \in TaskRecord /\ Idle.at = "done" /\ Idle.work = "done" /\ Idle.owner = "frame"
    /\ \A r : Follows(r, Idle)
BY DEF Idle, TaskRecord, Follows

LEMMA LiveTask == ASSUME NEW r \in TaskRecord, r # Idle PROVE \E m \in Msg : r \in Live(m)
BY DEF TaskRecord

\* A field of a task is set to a value it may have.
LEMMA FieldSet ==
    ASSUME NEW m \in Msg, NEW r \in Live(m), NEW a \in At, NEW w \in Work, NEW o \in Owner
    PROVE  /\ r \in TaskRecord /\ r.msg = m /\ r.at \in At /\ r.work \in Work /\ r.owner \in Owner
           /\ [r EXCEPT !.at = a] \in Live(m) /\ [r EXCEPT !.work = w] \in Live(m)
           /\ [r EXCEPT !.owner = o] \in Live(m)
           /\ [r EXCEPT !.at = a, !.work = w] \in Live(m)
           /\ [r EXCEPT !.at = a, !.owner = o] \in Live(m)
           /\ [r EXCEPT !.at = a, !.work = w, !.owner = o] \in Live(m)
           /\ Live(m) \subseteq TaskRecord
BY DEF Live, TaskRecord

LEMMA CancelledFollows == ASSUME NEW r \in TaskRecord PROVE Follows(r, Cancelled(r))
<1>1. CASE r = Idle BY <1>1, IdleFacts DEF Cancelled
<1>2. CASE r # Idle
  <2>1. PICK m \in Msg : r \in Live(m) BY <1>2, LiveTask
  <2>2. [r EXCEPT !.at = "done", !.owner = "orphan"] \in TaskRecord
    BY <2>1, FieldSet DEF At, Work, Owner
  <2>3. QED BY <2>1, <2>2, IdleFacts DEF Cancelled, Follows, Live
<1>3. QED BY <1>1, <1>2

LEMMA FinishedFollows ==
    ASSUME NEW m \in Msg, NEW r \in Live(m)
    PROVE  Follows(r, Finished(r)) /\ Finished(r).work = "done"
<1>1. [r EXCEPT !.work = "done"] \in TaskRecord BY FieldSet DEF At, Work, Owner
<1>2. QED BY <1>1, IdleFacts DEF Finished, Follows, Live

LEMMA AcksFollow ==
    ASSUME NEW m \in Msg, NEW r \in Live(m), r.at \in {"ack", "late", "waiting"}
    PROVE  Follows(r, AfterAck(r)) /\ Follows(r, AfterFailedAck(r))
<1>1. /\ [r EXCEPT !.at = "done", !.work = "claim", !.owner = "background"] \in TaskRecord
      /\ [r EXCEPT !.at = "inline", !.work = "claim"] \in TaskRecord
      /\ [r EXCEPT !.at = "done", !.owner = "background"] \in TaskRecord
      /\ [r EXCEPT !.at = "done", !.owner = "orphan"] \in TaskRecord
  BY FieldSet DEF At, Work, Owner
<1>2. Follows(r, AfterFailedAck(r)) BY <1>1, IdleFacts DEF AfterFailedAck, Follows, Live
<1>3. Follows(r, AfterAck(r))
  <2>1. CASE r.at = "ack" BY <1>1, <2>1, IdleFacts DEF AfterAck, Follows, Live
  <2>2. CASE r.at = "late" BY <1>1, <2>2, IdleFacts DEF AfterAck, Follows, Live
  <2>3. CASE r.at = "waiting" BY <1>1, <2>3, IdleFacts DEF AfterAck, Follows, Live
  <2>4. QED BY <2>1, <2>2, <2>3
<1>4. QED BY <1>2, <1>3

-----------------------------------------------------------------------------
(* Counting *)

LEMMA Counted ==
    ASSUME NEW m
    PROVE  IsFiniteSet(Handling(m)) /\ Cardinality(Handling(m)) \in Nat
<1>1. Handling(m) \in SUBSET Task BY DEF Handling
<1>2. IsFiniteSet(Handling(m)) BY <1>1, WsAssumption, FS_Subset
<1>3. QED BY <1>2, FS_CardinalityType

\* Where nobody begins to handle, the count does not grow.
LEMMA CountShrinks ==
    ASSUME NEW m, Handling(m)' \subseteq Handling(m)
    PROVE  Cardinality(Handling(m)') \in Nat /\ Cardinality(Handling(m)') <= Cardinality(Handling(m))
<1>1. IsFiniteSet(Handling(m)) BY Counted
<1>2. IsFiniteSet(Handling(m)') /\ Cardinality(Handling(m)') <= Cardinality(Handling(m))
  BY <1>1, FS_Subset
<1>3. QED BY <1>2, FS_CardinalityType

\* Steps after which every task is what it was or follows it, and no mark changes.
LEMMA CalmKeeps ==
    ASSUME IInv, task' \in [Task -> TaskRecord],
           \A t \in Task : task'[t].work = "handle" => task[t].work = "handle" /\ task'[t].msg = task[t].msg,
           UNCHANGED <<conf, seen, handled, forgotten>>
    PROVE  TasksOK' /\ MarksOK' /\ OnceOK'
<1>1. TasksOK' /\ MarksOK' BY DEF TasksOK, IInv, MarksOK
<1>2. ASSUME conf.store # "unclaimed", NEW m \in Msg
      PROVE  handled[m] + Cardinality(Handling(m)') <= forgotten[m] + IF m \in seen THEN 1 ELSE 0
  <2>1. Handling(m)' \subseteq Handling(m) BY DEF Handling
  <2>2. Cardinality(Handling(m)') \in Nat /\ Cardinality(Handling(m)') <= Cardinality(Handling(m))
    BY <2>1, CountShrinks
  <2>3. Cardinality(Handling(m)) \in Nat BY Counted
  <2>4. handled[m] + Cardinality(Handling(m)) <= forgotten[m] + IF m \in seen THEN 1 ELSE 0
    BY <1>2 DEF IInv, OnceOK
  <2>5. handled[m] \in Nat /\ forgotten[m] \in Nat BY DEF IInv, MarksOK
  <2>6. QED BY <2>2, <2>3, <2>4, <2>5
<1>3. OnceOK' BY <1>2 DEF OnceOK
<1>4. QED BY <1>1, <1>3

-----------------------------------------------------------------------------
(* Fragments *)

LEMMA Chunks ==
    ASSUME NEW m \in Msg
    PROVE  /\ IsFiniteSet(Whole(m)) /\ Cardinality(Whole(m)) = Fragments[m]
           /\ Fragments[m] \in Nat /\ Fragments[m] > 0
           /\ \A s \in Whole(m) : s \in Nat
<1>1. Fragments[m] \in Nat /\ Fragments[m] > 0 BY WsAssumption
<1>2. IsFiniteSet(0 .. Fragments[m] - 1)
      /\ Cardinality(0 .. Fragments[m] - 1) = IF 0 > Fragments[m] - 1 THEN 0 ELSE Fragments[m] - 1 - 0 + 1
  BY <1>1, FS_Interval, SMTT(30)
<1>3. QED BY <1>1, <1>2 DEF Whole

LEMMA EntryFacts ==
    /\ \A m \in Msg : [msg |-> m, chunks |-> <<>>] \in Entry
    /\ \A e \in Entry : e.msg \in Msg /\ \E D \in SUBSET Whole(e.msg) :
          e = [msg |-> e.msg, chunks |-> [s \in D |-> s]]
    /\ \A m \in Msg : \A D \in SUBSET Whole(m) : [msg |-> m, chunks |-> [s \in D |-> s]] \in Entry
<1>1. <<>> = [s \in {} |-> s] OBVIOUS
<1>2. \A m \in Msg : \A D \in SUBSET Whole(m) : [msg |-> m, chunks |-> [s \in D |-> s]] \in Entry
  BY DEF Entry
<1>3. \A m \in Msg : [msg |-> m, chunks |-> <<>>] \in Entry BY <1>1, <1>2
<1>4. ASSUME NEW e \in Entry
      PROVE  e.msg \in Msg /\ \E D \in SUBSET Whole(e.msg) : e = [msg |-> e.msg, chunks |-> [s \in D |-> s]]
  BY DEF Entry
<1>5. QED BY <1>2, <1>3, <1>4

\* A fragment in its place: the chunks are still the numbers they stand for.
LEMMA StoredChunks ==
    ASSUME NEW D, NEW s
    PROVE  Stored([x \in D |-> x], s) = [x \in D \cup {s} |-> x]
BY DEF Stored, Put

LEMMA RoomFacts ==
    ASSUME FragmentsOK, NEW m \in Msg
    PROVE  Room(m) \in Seq(Entry) /\ \E j \in 1 .. Len(Room(m)) : Room(m)[j].msg = m
<1>1. CASE Partial(m) # {} BY <1>1 DEF Room, Partial, FragmentsOK
<1>2. CASE Partial(m) = {}
  <2> DEFINE kept == IF Len(fragments) >= MaxPartial THEN Tail(fragments) ELSE fragments
             new  == [msg |-> m, chunks |-> <<>>]
  <2>1. kept \in Seq(Entry)
    <3>1. Len(fragments) >= MaxPartial => fragments # <<>> BY WsAssumption DEF FragmentsOK
    <3>2. QED BY <3>1 DEF FragmentsOK
  <2>2. new \in Entry /\ new.msg = m BY EntryFacts
  <2>3. Room(m) = Append(kept, new) BY <1>2 DEF Room
  <2> HIDE DEF kept, new
  <2>4. /\ Append(kept, new) \in Seq(Entry) /\ Len(Append(kept, new)) = Len(kept) + 1
        /\ Append(kept, new)[Len(kept) + 1] = new /\ Len(kept) \in Nat
    BY <2>1, <2>2
  <2>5. QED BY <2>2, <2>3, <2>4
<1>3. QED BY <1>1, <1>2

LEMMA RemovedAt ==
    ASSUME NEW S, NEW q \in Seq(S), NEW i \in 1 .. Len(q)
    PROVE  RemoveAt(q, i) \in Seq(S)
<1>1. \A j \in 1 .. i - 1 : q[j] \in S OBVIOUS
<1>2. \A j \in i + 1 .. Len(q) : q[j] \in S OBVIOUS
<1>3. SubSeq(q, 1, i - 1) \in Seq(S) BY <1>1, SubSeqProperties
<1>4. SubSeq(q, i + 1, Len(q)) \in Seq(S) BY <1>2, SubSeqProperties
<1>5. QED BY <1>3, <1>4, ConcatProperties DEF RemoveAt

-----------------------------------------------------------------------------
(* Every step keeps the invariant *)

LEMMA TaskFacts ==
    ASSUME TasksOK, NEW t \in Task
    PROVE  /\ task[t] \in TaskRecord
           /\ task[t].at # "done" \/ task[t].work # "done" => \E m \in Msg : task[t] \in Live(m)
BY LiveTask, IdleFacts DEF TasksOK

\* One task moves on, and follows itself.
LEMMA OneFollows ==
    ASSUME IInv, NEW t \in Task, NEW q, Follows(task[t], q), task' = [task EXCEPT ![t] = q],
           UNCHANGED <<conf, seen, handled, forgotten>>
    PROVE  TasksOK' /\ MarksOK' /\ OnceOK'
<1>1. task' \in [Task -> TaskRecord] BY DEF IInv, TasksOK, Follows
<1>2. \A u \in Task : task'[u].work = "handle" => task[u].work = "handle" /\ task'[u].msg = task[u].msg
  BY DEF IInv, TasksOK, Follows
<1>3. QED BY <1>1, <1>2, CalmKeeps

LEMMA ReceiveKeeps == ASSUME IInv, NEW m \in Msg, NEW s \in Whole(m), Receive(m, s) PROVE IInv'
<1>1. UNCHANGED <<conf, seen, handled, forgotten>> BY DEF Receive, history
<1>2. Live(m) \subseteq TaskRecord BY DEF TaskRecord
<1>3. ASSUME NEW chunks, chunks = [x \in Whole(m) |-> x], Spawn(m, chunks)
      PROVE  TasksOK' /\ MarksOK' /\ OnceOK'
  <2>1. PICK t \in Task : task' = [task EXCEPT ![t] = Spawned(m, chunks)] BY <1>3 DEF Spawn
  <2>2. Spawned(m, chunks) \in Live(m) BY <1>3 DEF Spawned, Live, At, Work, Owner
  <2>3. Follows(task[t], Spawned(m, chunks)) BY <1>2, <2>2 DEF Follows, Spawned
  <2>4. QED BY <1>1, <2>1, <2>3, OneFollows
<1>4. CASE Fragments[m] = 1
  <2>1. Stored(<<>>, 0) = [x \in {0} |-> x] BY DEF Stored, Put
  <2>2. Whole(m) = {0} BY <1>4 DEF Whole
  <2>3. Spawn(m, Stored(<<>>, 0)) /\ fragments' = fragments BY <1>4 DEF Receive
  <2>4. QED BY <1>3, <2>1, <2>2, <2>3 DEF IInv, FragmentsOK
<1>5. CASE Fragments[m] # 1
  <2> DEFINE buffer == Room(m)
             i      == CHOOSE j \in 1 .. Len(buffer) : buffer[j].msg = m
             chunks == Stored(buffer[i].chunks, s)
  <2>1. IF Cardinality(DOMAIN chunks) = Fragments[m]
        THEN Spawn(m, chunks) /\ fragments' = RemoveAt(buffer, i)
        ELSE UNCHANGED task /\ fragments' = [buffer EXCEPT ![i].chunks = chunks]
    BY <1>5 DEF Receive
  <2>2. buffer \in Seq(Entry) /\ i \in 1 .. Len(buffer) /\ buffer[i].msg = m
    BY RoomFacts DEF IInv
  <2> HIDE DEF buffer, i
  <2>3. PICK D \in SUBSET Whole(m) : buffer[i] = [msg |-> m, chunks |-> [x \in D |-> x]]
    <3>1. buffer[i] \in Entry BY <2>2
    <3>2. PICK D \in SUBSET Whole(buffer[i].msg) :
             buffer[i] = [msg |-> buffer[i].msg, chunks |-> [x \in D |-> x]]
      BY <3>1, EntryFacts
    <3>3. QED BY <2>2, <3>2
  <2>4. chunks = [x \in D \cup {s} |-> x] BY <2>3, StoredChunks
  <2> HIDE DEF chunks
  <2>5. DOMAIN chunks = D \cup {s} /\ D \cup {s} \in SUBSET Whole(m) BY <2>4
  <2>6. CASE Cardinality(DOMAIN chunks) = Fragments[m]
    <3>1. D \cup {s} = Whole(m) BY <2>5, <2>6, Chunks, FS_Subset
    <3>2. fragments' \in Seq(Entry) BY <2>1, <2>2, <2>6, RemovedAt
    <3>3. QED BY <1>3, <2>1, <2>4, <2>6, <3>1, <3>2 DEF IInv, FragmentsOK
  <2>7. CASE Cardinality(DOMAIN chunks) # Fragments[m]
    <3>1. [buffer[i] EXCEPT !.chunks = chunks] = [msg |-> m, chunks |-> [x \in D \cup {s} |-> x]]
      BY <2>3, <2>4
    <3>2. [buffer[i] EXCEPT !.chunks = chunks] \in Entry BY <2>5, <3>1, EntryFacts
    <3>3. fragments' = [buffer EXCEPT ![i] = [buffer[i] EXCEPT !.chunks = chunks]] BY <2>1, <2>2, <2>7
    <3>4. fragments' \in Seq(Entry) BY <2>2, <3>2, <3>3
    <3>5. TasksOK' /\ MarksOK' /\ OnceOK'
      BY <1>1, <2>1, <2>7, CalmKeeps DEF IInv, TasksOK
    <3>6. QED BY <3>4, <3>5 DEF IInv, FragmentsOK
  <2>8. QED BY <2>6, <2>7
<1>6. QED BY <1>4, <1>5

LEMMA TasksKeep ==
    ASSUME IInv, NEW t \in Task, Start(t) \/ AckTimeout(t) \/ Ack(t) PROVE IInv'
<1> USE DEF history
<1>1. UNCHANGED <<conf, seen, handled, forgotten, fragments>> BY DEF Start, AckTimeout, Ack
<1>2. PICK m \in Msg : task[t] \in Live(m) /\ task[t].at \in {"new", "waiting", "ack", "late"}
  BY TaskFacts DEF IInv, Start, AckTimeout, Ack
<1>3. task[t].msg = m /\ Live(m) \subseteq TaskRecord BY <1>2 DEF Live, TaskRecord
<1>4. \E q : Follows(task[t], q) /\ task' = [task EXCEPT ![t] = q]
  <2>1. CASE Start(t)
    <3> DEFINE q == IF Refused("new") THEN Idle
                    ELSE IF ~Card(t) \/ conf.mode = "zero" THEN [task[t] EXCEPT !.at = "ack"]
                    ELSE [task[t] EXCEPT !.at = "waiting", !.work = "claim",
                                         !.owner = IF conf.mode = "none" THEN "frame" ELSE "shield"]
    <3>1. task' = [task EXCEPT ![t] = q] BY <2>1 DEF Start, IInv, TasksOK
    <3>2. [task[t] EXCEPT !.at = "ack"] \in Live(m) BY <1>2, FieldSet DEF At, Work, Owner
    <3>3. [task[t] EXCEPT !.at = "waiting", !.work = "claim",
                          !.owner = IF conf.mode = "none" THEN "frame" ELSE "shield"] \in Live(m)
      <4>1. (IF conf.mode = "none" THEN "frame" ELSE "shield") \in Owner BY DEF Owner
      <4>2. QED BY <1>2, <4>1, FieldSet, ZenonT(40) DEF At, Work
    <3>4. Follows(task[t], q)
      BY <1>2, <1>3, <3>2, <3>3, IdleFacts DEF Follows, Live
    <3>5. QED BY <3>1, <3>4
  <2>2. CASE AckTimeout(t)
    <3>1. task' = [task EXCEPT ![t] = [task[t] EXCEPT !.at = "late"]]
      BY <2>2 DEF AckTimeout, IInv, TasksOK
    <3>2. [task[t] EXCEPT !.at = "late"] \in Live(m) BY <1>2, FieldSet DEF At, Work, Owner
    <3>3. Follows(task[t], [task[t] EXCEPT !.at = "late"])
      BY <1>2, <1>3, <3>2 DEF Follows, Live
    <3>4. QED BY <3>1, <3>3
  <2>3. CASE Ack(t)
    <3>1. \/ task' = [task EXCEPT ![t] = AfterAck(task[t])]
          \/ task' = [task EXCEPT ![t] = AfterFailedAck(task[t])]
      BY <2>3 DEF Ack, IInv, TasksOK
    <3>2. task[t].at \in {"ack", "late", "waiting"} BY <2>3 DEF Ack
    <3>3. Follows(task[t], AfterAck(task[t])) /\ Follows(task[t], AfterFailedAck(task[t]))
      BY <1>2, <3>2, AcksFollow
    <3>4. QED BY <3>1, <3>3
  <2>4. QED BY <2>1, <2>2, <2>3
<1>5. TasksOK' /\ MarksOK' /\ OnceOK' BY <1>1, <1>4, OneFollows
<1>6. QED BY <1>1, <1>5 DEF IInv, FragmentsOK

\* A claim uses up a mark, and leaves its message to its task.
LEMMA DispatchKeeps == ASSUME IInv, NEW t \in Task, Dispatch(t) PROVE IInv'
<1> USE DEF history
<1>1. UNCHANGED <<conf, handled, forgotten, fragments>> BY DEF Dispatch
<1>2. task[t].work \in {"claim", "mark"} BY DEF Dispatch, Claim, ClaimInTwoSteps
<1>3. PICK m \in Msg : task[t] \in Live(m) BY <1>2, TaskFacts DEF IInv
<1>4. task[t].msg = m /\ Live(m) \subseteq TaskRecord BY <1>3 DEF Live, TaskRecord
<1>5. Follows(task[t], Finished(task[t])) /\ Finished(task[t]).work = "done" BY <1>3, FinishedFollows
<1>6. [task[t] EXCEPT !.work = "handle"] \in TaskRecord /\ [task[t] EXCEPT !.work = "mark"] \in TaskRecord
  BY <1>3, <1>4, FieldSet DEF At, Work, Owner
<1>7. /\ seen' = seen \/ seen' = seen \cup {m}
      /\ \E q \in TaskRecord : task' = [task EXCEPT ![t] = q]
  BY <1>4, <1>5, <1>6 DEF Dispatch, Claim, ClaimInTwoSteps, IInv, TasksOK, Follows
<1>8. TasksOK' /\ MarksOK' BY <1>1, <1>7 DEF IInv, TasksOK, MarksOK
<1>9. ASSUME conf.store # "unclaimed", NEW n \in Msg
      PROVE  handled[n] + Cardinality(Handling(n)') <= forgotten[n] + IF n \in seen' THEN 1 ELSE 0
  <2>1. /\ task[t].work = "claim" /\ seen' = seen \cup {m}
        /\ task' = [task EXCEPT ![t] = IF m \in seen THEN Finished(task[t])
                                       ELSE [task[t] EXCEPT !.work = "handle"]]
    BY <1>4, <1>9 DEF Dispatch, Claim, IInv, TasksOK
  <2>2. handled[n] + Cardinality(Handling(n)) <= forgotten[n] + IF n \in seen THEN 1 ELSE 0
    BY <1>9 DEF IInv, OnceOK
  <2>3. handled[n] \in Nat /\ forgotten[n] \in Nat BY DEF IInv, MarksOK
  <2>4. IsFiniteSet(Handling(n)) /\ Cardinality(Handling(n)) \in Nat BY Counted
  <2>5. CASE n = m /\ m \notin seen
    <3>1. Handling(n)' = Handling(n) \cup {t}
      <4>1. task'[t] = [task[t] EXCEPT !.work = "handle"] BY <2>1, <2>5 DEF IInv, TasksOK
      <4>2. task'[t].work = "handle" /\ task'[t].msg = m BY <1>3, <4>1 DEF Live
      <4>3. \A u \in Task \ {t} : task'[u] = task[u] BY <2>1 DEF IInv, TasksOK
      <4>4. QED BY <2>5, <4>2, <4>3 DEF Handling
    <3>2. t \notin Handling(n) BY <2>1 DEF Handling
    <3>3. Cardinality(Handling(n)') = Cardinality(Handling(n)) + 1
      BY <2>4, <3>1, <3>2, FS_AddElement
    <3>4. n \in seen' BY <2>1, <2>5
    <3>5. QED BY <2>2, <2>3, <2>4, <2>5, <3>3, <3>4
  <2>6. CASE n # m \/ m \in seen
    <3>1. Handling(n)' \subseteq Handling(n)
      <4>1. \A u \in Task \ {t} : task'[u] = task[u] BY <2>1 DEF IInv, TasksOK
      <4>2. t \notin Handling(n)'
        <5>1. CASE m \in seen BY <1>5, <2>1, <5>1 DEF IInv, TasksOK, Handling
        <5>2. CASE m \notin seen
          <6>1. task'[t] = [task[t] EXCEPT !.work = "handle"] BY <2>1, <5>2 DEF IInv, TasksOK
          <6>2. task'[t].msg = m BY <1>3, <6>1 DEF Live
          <6>3. QED BY <2>6, <5>2, <6>2 DEF Handling
        <5>3. QED BY <5>1, <5>2
      <4>3. QED BY <4>1, <4>2 DEF Handling
    <3>2. Cardinality(Handling(n)') \in Nat /\ Cardinality(Handling(n)') <= Cardinality(Handling(n))
      BY <3>1, CountShrinks
    <3>3. n \in seen' <=> n \in seen BY <2>1, <2>6
    <3>4. QED BY <2>2, <2>3, <2>4, <3>2, <3>3
  <2>7. QED BY <2>5, <2>6
<1>10. OnceOK' BY <1>1, <1>9 DEF OnceOK
<1>11. QED BY <1>1, <1>8, <1>10 DEF IInv, FragmentsOK

LEMMA HandleKeeps == ASSUME IInv, NEW t \in Task, Handle(t) PROVE IInv'
<1>1. UNCHANGED <<conf, seen, forgotten, fragments>> /\ task[t].work = "handle" BY DEF Handle
<1>2. PICK m \in Msg : task[t] \in Live(m) BY <1>1, TaskFacts DEF IInv
<1>3. task[t].msg = m BY <1>2 DEF Live
<1>4. Follows(task[t], Finished(task[t])) /\ Finished(task[t]).work = "done" BY <1>2, FinishedFollows
<1>5. task' = [task EXCEPT ![t] = Finished(task[t])] /\ handled' = [handled EXCEPT ![m] = @ + 1]
  BY <1>3 DEF Handle, IInv, TasksOK
<1>6. TasksOK' /\ MarksOK' BY <1>1, <1>4, <1>5 DEF IInv, TasksOK, MarksOK, Follows
<1>7. ASSUME conf.store # "unclaimed", NEW n \in Msg
      PROVE  handled'[n] + Cardinality(Handling(n)') <= forgotten[n] + IF n \in seen THEN 1 ELSE 0
  <2>1. Handling(n)' = Handling(n) \ {t} BY <1>4, <1>5 DEF Handling, IInv, TasksOK
  <2>2. IsFiniteSet(Handling(n)) /\ Cardinality(Handling(n)) \in Nat BY Counted
  <2>3. t \in Handling(n) <=> n = m BY <1>1, <1>3 DEF Handling
  <2>4. Cardinality(Handling(n)') = IF n = m THEN Cardinality(Handling(n)) - 1 ELSE Cardinality(Handling(n))
    BY <2>1, <2>2, <2>3, FS_RemoveElement
  <2>5. handled'[n] = IF n = m THEN handled[n] + 1 ELSE handled[n] BY <1>5 DEF IInv, MarksOK
  <2>6. handled[n] + Cardinality(Handling(n)) <= forgotten[n] + IF n \in seen THEN 1 ELSE 0
    BY <1>7 DEF IInv, OnceOK
  <2>7. handled[n] \in Nat /\ forgotten[n] \in Nat BY DEF IInv, MarksOK
  <2>8. QED BY <2>2, <2>4, <2>5, <2>6, <2>7
<1>8. OnceOK' BY <1>1, <1>7 DEF OnceOK
<1>9. QED BY <1>1, <1>6, <1>8 DEF IInv, FragmentsOK

\* A mark that is lost is counted, and nothing else changes.
LEMMA ForgetKeeps == ASSUME IInv, NEW m \in Msg, Forget(m) PROVE IInv'
<1>1. UNCHANGED <<conf, task, handled, fragments>> BY DEF Forget
<1>2. m \in seen /\ seen' = seen \ {m} /\ forgotten' = [forgotten EXCEPT ![m] = @ + 1] BY DEF Forget
<1>3. TasksOK' /\ MarksOK' BY <1>1, <1>2 DEF IInv, TasksOK, MarksOK
<1>4. ASSUME conf.store # "unclaimed", NEW n \in Msg
      PROVE  handled[n] + Cardinality(Handling(n)) <= forgotten'[n] + IF n \in seen' THEN 1 ELSE 0
  <2>1. handled[n] + Cardinality(Handling(n)) <= forgotten[n] + IF n \in seen THEN 1 ELSE 0
    BY <1>4 DEF IInv, OnceOK
  <2>2. handled[n] \in Nat /\ forgotten[n] \in Nat /\ Cardinality(Handling(n)) \in Nat
    BY Counted DEF IInv, MarksOK
  <2>3. forgotten'[n] = IF n = m THEN forgotten[n] + 1 ELSE forgotten[n] BY <1>2 DEF IInv, MarksOK
  <2>4. QED BY <1>2, <2>1, <2>2, <2>3
<1>5. \A n : Handling(n)' = Handling(n) BY <1>1 DEF Handling
<1>6. OnceOK' BY <1>1, <1>4, <1>5 DEF OnceOK
<1>7. QED BY <1>1, <1>3, <1>6 DEF IInv, FragmentsOK

\* Who dies with its process handles nothing; the marks of a store in memory count as lost.
LEMMA CrashKeeps == ASSUME IInv, Crash PROVE IInv'
<1>1. /\ task' = [t \in Task |-> Idle] /\ fragments' = <<>> /\ UNCHANGED <<conf, handled>>
      /\ \/ UNCHANGED <<seen, forgotten>>
         \/ seen' = {} /\ forgotten' = [m \in Msg |-> forgotten[m] + IF m \in seen THEN 1 ELSE 0]
  BY DEF Crash
<1>2. \A m \in Msg : forgotten[m] \in Nat /\ handled[m] \in Nat /\ Cardinality(Handling(m)) \in Nat
  BY Counted DEF IInv, MarksOK
<1>3. FragmentsOK' /\ TasksOK' BY <1>1, IdleFacts DEF FragmentsOK, TasksOK
<1>4. MarksOK' BY <1>1, <1>2 DEF IInv, MarksOK
<1>5. \A m : Cardinality(Handling(m)') = 0
  <2>1. \A m : Handling(m)' = {} BY <1>1, IdleFacts DEF Handling
  <2>2. QED BY <2>1, FS_EmptySet
<1>6. \A m \in Msg : handled[m] + Cardinality(Handling(m)) <= forgotten[m] + (IF m \in seen THEN 1 ELSE 0)
                     => handled'[m] + 0 <= forgotten'[m] + IF m \in seen' THEN 1 ELSE 0
  BY <1>1, <1>2
<1>7. OnceOK' BY <1>1, <1>5, <1>6 DEF IInv, OnceOK
<1>8. QED BY <1>3, <1>4, <1>7 DEF IInv

LEMMA DrainDeadlineKeeps == ASSUME IInv, DrainDeadline PROVE IInv'
<1>1. /\ UNCHANGED <<conf, seen, handled, forgotten, fragments>>
      /\ task' = [t \in Task |-> Cancelled(task[t])]
  BY DEF DrainDeadline
<1>2. \A t \in Task : Follows(task[t], Cancelled(task[t])) BY CancelledFollows DEF IInv, TasksOK
<1>3. TasksOK' /\ MarksOK' /\ OnceOK' BY <1>1, <1>2, CalmKeeps DEF Follows
<1>4. QED BY <1>1, <1>3 DEF IInv, FragmentsOK

LEMMA OthersKeep ==
    ASSUME IInv, UNCHANGED <<conf, seen, handled, forgotten, fragments, task>> PROVE IInv'
<1>1. TasksOK' /\ MarksOK' /\ OnceOK' BY CalmKeeps DEF IInv, TasksOK
<1>2. QED BY <1>1 DEF IInv, FragmentsOK

-----------------------------------------------------------------------------
(* The theorems *)

\* The inductive invariant of the client holds in every state.
THEOREM ClientInvariant == WsSpec => []IInv
<1>1. WsInit => IInv
  <2> SUFFICES ASSUME WsInit PROVE IInv OBVIOUS
  <2>1. FragmentsOK /\ TasksOK /\ MarksOK BY IdleFacts DEF WsInit, FragmentsOK, TasksOK, MarksOK
  <2>2. \A m : Handling(m) = {} BY IdleFacts DEF WsInit, Handling
  <2>3. \A m : Cardinality(Handling(m)) = 0 BY <2>2, FS_EmptySet
  <2>4. \A m \in Msg : handled[m] = 0 /\ forgotten[m] = 0 BY DEF WsInit
  <2>5. OnceOK BY <2>3, <2>4 DEF OnceOK
  <2>6. QED BY <2>1, <2>5 DEF IInv
<1>2. IInv /\ [WsNext]_wsVars => IInv'
  <2> SUFFICES ASSUME IInv, [WsNext]_wsVars PROVE IInv' OBVIOUS
  <2>1. CASE StartStep \/ Stop \/ Drop \/ UNCHANGED wsVars
    BY <2>1, OthersKeep DEF StartStep, Handshake, Connect, Delay, GiveUp, Disconnect, Drain, Stop, Drop,
       wsVars, history
  <2>2. CASE DrainDeadline BY <2>2, DrainDeadlineKeeps
  <2>3. CASE Crash BY <2>3, CrashKeeps
  <2>4. ASSUME NEW m \in Msg, Deliver(m) PROVE IInv' BY <2>4, OthersKeep DEF Deliver, history
  <2>5. ASSUME NEW m \in Msg, Forget(m) PROVE IInv' BY <2>5, ForgetKeeps
  <2>6. ASSUME NEW m \in Msg, NEW s \in Whole(m), Receive(m, s) PROVE IInv' BY <2>6, ReceiveKeeps
  <2>7. ASSUME NEW t \in Task, TaskStep(t) \/ AckTimeout(t) PROVE IInv'
    BY <2>7, TasksKeep, DispatchKeeps, HandleKeeps DEF TaskStep
  <2>8. QED BY <2>1, <2>2, <2>3, <2>4, <2>5, <2>6, <2>7 DEF WsNext
<1>3. QED BY <1>1, <1>2, PTL DEF WsSpec

\* However deliveries overlap, are repeated, or are cut by a drain or a crash, a message
\* is handled once for every mark it had.
THEOREM OncePerMark == WsSpec => []HandledOnce
<1>1. IInv => HandledOnce
  <2> SUFFICES ASSUME IInv, conf.store # "unclaimed", NEW m \in Msg PROVE handled[m] <= 1 + forgotten[m]
    BY DEF HandledOnce
  <2>1. handled[m] + Cardinality(Handling(m)) <= forgotten[m] + IF m \in seen THEN 1 ELSE 0
    BY DEF IInv, OnceOK
  <2>2. handled[m] \in Nat /\ forgotten[m] \in Nat /\ Cardinality(Handling(m)) \in Nat
    BY Counted DEF IInv, MarksOK
  <2>3. QED BY <2>1, <2>2
<1>2. QED BY <1>1, ClientInvariant, PTL

\* Whatever fragments of whatever deliveries it is put together from, what is dispatched
\* is the message as it was sent.
THEOREM WholeMessages == WsSpec => []ReassembledWhole
<1>1. IInv => ReassembledWhole
  <2> SUFFICES ASSUME IInv, NEW t \in Task, ~Free(t)
               PROVE  task[t].payload = [s \in Whole(task[t].msg) |-> s]
    BY DEF ReassembledWhole
  <2>1. PICK m \in Msg : task[t] \in Live(m) BY TaskFacts DEF IInv, Free
  <2>2. QED BY <2>1 DEF Live
<1>2. QED BY <1>1, ClientInvariant, PTL

=============================================================================
