-------------------------- MODULE ApprovalsProofs --------------------------
(***************************************************************************)
(* Theorems about Approvals, for every number of approvals, keys, turns    *)
(* and processes.                                                          *)
(*                                                                         *)
(* IInv says why a write runs once whoever crashes: an approval is decided *)
(* by one turn at a time, the row says "executing" while it does, and a    *)
(* write that was dispatched never leads back to a row that awaits.  The   *)
(* session lock plays no part there.  It does where the dispatch must be   *)
(* of a current call (LocksOK, CurrentOK), which holds for turns of one    *)
(* process, as the lock is one of asyncio.                                 *)
(***************************************************************************)
EXTENDS Approvals, TLAPS

Holding == Claimed \cup Dispatched \cup Dropping

\* The turn won the claim of its approval and still owes the outcome.
Decides(t) == turn[t].pc \in Holding

TurnsOK == \A t \in Turn : turn[t].pc # "idle" => turn[t].about \in Approval

\* A decision under way shows in its row, and is the only one.
DecisionsOK ==
    /\ \A t \in Turn : Decides(t) => row[turn[t].about] \in {"executing", "lapsed"}
    /\ \A t, u \in Turn :
          Decides(t) /\ Decides(u) /\ turn[t].about = turn[u].about => t = u

\* A dispatched write is past every step that could dispatch it.
RunsOK ==
    /\ \A a \in Approval : ran[a] # 0 => ran[a] = 1 /\ row[a] \notin {"new", "awaiting"}
    /\ \A t \in Turn : Decides(t) =>
          (ran[turn[t].about] # 0 <=> turn[t].pc \in Dispatched)

\* A rejected write did not run, and nobody is left who could run it.
RejectionsOK ==
    \A a \in rejected : /\ ran[a] = 0 /\ row[a] \in Gone
                         /\ \A t \in Turn : Decides(t) => turn[t].about # a

\* An effect comes from a dispatch, and its turn knows what is recorded of it.
EffectsOK ==
    /\ \A a \in landed : ran[a] # 0
    /\ \A t \in Turn : turn[t].pc = "finish" => cached[KeyOf[turn[t].about]] # NoPayload
    /\ \A t \in Turn : turn[t].pc = "fail" => turn[t].about \in denied

IInv ==
    /\ TypeOK
    /\ TurnsOK
    /\ DecisionsOK
    /\ RunsOK
    /\ RejectionsOK
    /\ EffectsOK
    /\ EffectIsOnRecord

-----------------------------------------------------------------------------
(* What the steps of a turn do to the turns *)

LEMMA Moves ==
    ASSUME TypeOK, NEW t \in Turn, NEW pc, Goto(t, pc)
    PROVE  /\ turn'[t].pc = pc /\ turn'[t].about = turn[t].about
           /\ \A u \in Turn \ {t} : turn'[u] = turn[u]
BY DEF Goto, TypeOK, TurnState

LEMMA Returns ==
    ASSUME TypeOK, NEW t \in Turn, Return(t)
    PROVE  /\ turn'[t].pc = "idle"
           /\ \A u \in Turn \ {t} : turn'[u] = turn[u]
BY DEF Return, TypeOK, Idle

LEMMA Writes ==
    ASSUME TypeOK, NEW a \in Approval, NEW state, Write(a, state)
    PROVE  /\ row'[a] = IF row[a] \in Gone THEN row[a] ELSE state
           /\ \A b \in Approval \ {a} : row'[b] = row[b]
BY DEF Write, TypeOK

LEMMA GotoTypes ==
    ASSUME TypeOK, NEW t \in Turn,
           NEW pc \in {"cancel", "claim"} \cup Claimed \cup Dispatched \cup Dropping,
           Goto(t, pc)
    PROVE  turn' \in [Turn -> TurnState]
BY DEF Goto, TypeOK, TurnState

LEMMA ReturnTypes ==
    ASSUME TypeOK, NEW t \in Turn, Return(t)
    PROVE  turn' \in [Turn -> TurnState] /\ lock' \in [Process -> Turn \cup {NoTurn}]
<1>1. Idle \in TurnState BY DEF Idle, TurnState
<1>2. QED BY <1>1, ApprovalsAssumption DEF Return, Unlock, TypeOK

LEMMA TakeTypes ==
    ASSUME TypeOK, NEW t \in Turn, Take(t)
    PROVE  lock' \in [Process -> Turn \cup {NoTurn}]
BY DEF Take, TypeOK

LEMMA WriteTypes ==
    ASSUME TypeOK, NEW a \in Approval, NEW state \in RowState, Write(a, state)
    PROVE  row' \in [Approval -> RowState]
BY DEF Write, TypeOK

LEMMA Stores ==
    ASSUME TypeOK, NEW a \in Approval, Store(a)
    PROVE  /\ cached' \in [Key -> Payload \cup {NoPayload}]
           /\ cached'[KeyOf[a]] # NoPayload
           /\ \A k \in Key : cached[k] # NoPayload => cached'[k] # NoPayload
<1>1. KeyOf[a] \in Key /\ PayloadOf[a] \in Payload /\ PayloadOf[a] # NoPayload
  BY ApprovalsAssumption
<1>2. cached \in [Key -> Payload \cup {NoPayload}] BY DEF TypeOK
<1>3. QED BY <1>1, <1>2 DEF Store

-----------------------------------------------------------------------------
(* Every step keeps the types *)

LEMMA TypesKept == ASSUME IInv, [Next]_approvalVars PROVE TypeOK'
<1> USE DEF TypeOK, storeVars, historyVars, Gone
<1>a. TypeOK /\ TurnsOK BY DEF IInv
<1>b. \A t \in Turn : turn[t].pc # "idle" => turn[t].about \in Approval
  BY <1>a DEF TurnsOK
<1>1. ASSUME NEW t \in Turn, NEW a \in Approval, Request(t, a) PROVE TypeOK'
  <2>1. [Idle EXCEPT !.pc = "sent", !.about = a] \in TurnState BY DEF Idle, TurnState
  <2>2. turn' \in [Turn -> TurnState] BY <1>a, <1>1, <2>1 DEF Request
  <2>3. row' \in [Approval -> RowState] BY <1>a, <1>1, WriteTypes DEF Request, RowState
  <2>4. lock' \in [Process -> Turn \cup {NoTurn}] BY <1>a, <1>1, TakeTypes DEF Request
  <2>5. QED BY <1>a, <1>1, <2>2, <2>3, <2>4 DEF Request
<1>2. ASSUME NEW t \in Turn, NEW a \in Approval, NEW approve \in BOOLEAN,
             Click(t, a, approve) PROVE TypeOK'
  <2>1. [pc |-> "wait", about |-> a, approve |-> approve] \in TurnState BY DEF TurnState
  <2>2. QED BY <1>a, <1>2, <2>1 DEF Click
<1>3. ASSUME NEW t \in Turn, Enter(t) PROVE TypeOK'
  BY <1>a, <1>3, GotoTypes, TakeTypes DEF Enter
<1>4. ASSUME NEW t \in Turn, Proceed(t) PROVE TypeOK'
  <2>1. CASE Delivered(t) BY <1>a, <2>1, ReturnTypes DEF Delivered
  <2>2. CASE DeliveryFails(t) BY <1>a, <2>2, GotoTypes DEF DeliveryFails
  <2>3. CASE Claim(t)
    BY <1>a, <1>b, <2>3, GotoTypes, ReturnTypes, WriteTypes
       DEF Claim, Wins, RowState, Claimed, Dropping
  <2>4. CASE Cancel(t)
    BY <1>a, <1>b, <2>4, GotoTypes, ReturnTypes, WriteTypes DEF Cancel, Wins, RowState, Dropping
  <2>5. CASE Drop(t)
    BY <1>a, <1>b, <2>5, ReturnTypes, WriteTypes DEF Drop, RowState, Dropping
  <2>6. CASE Lookup(t)
    BY <1>a, <1>b, <2>6, GotoTypes, ReturnTypes, WriteTypes DEF Lookup, RowState, Claimed
  <2>7. CASE Dispatch(t)
    <3>1. turn' \in [Turn -> TurnState] BY <1>a, <2>7, GotoTypes DEF Dispatch, Dispatched
    <3>2. ran' \in [Approval -> Nat] BY <1>a, <1>b, <2>7 DEF Dispatch
    <3>3. QED BY <1>a, <2>7, <3>1, <3>2 DEF Dispatch
  <2>8. ASSUME NEW pc \in Dispatched, ToolEnds(t, pc) PROVE TypeOK'
    <3>1. turn' \in [Turn -> TurnState] BY <1>a, <2>8, GotoTypes DEF ToolEnds
    <3>2. denied' \in SUBSET Approval BY <1>a, <1>b, <2>8 DEF ToolEnds
    <3>3. QED BY <1>a, <2>8, <3>1, <3>2 DEF ToolEnds
  <2>9. CASE Record(t)
    <3>1. turn[t].about \in Approval BY <1>b, <2>9 DEF Record
    <3>2. turn' \in [Turn -> TurnState] BY <1>a, <2>9, GotoTypes DEF Record, Dispatched
    <3>3. cached' \in [Key -> Payload \cup {NoPayload}]
      BY <1>a, <2>9, <3>1, Stores DEF Record
    <3>4. QED BY <1>a, <2>9, <3>2, <3>3 DEF Record
  <2>10. CASE Finish(t)
    BY <1>a, <1>b, <2>10, ReturnTypes, WriteTypes DEF Finish, RowState
  <2>11. QED BY <1>4, <2>1, <2>2, <2>3, <2>4, <2>5, <2>6, <2>7, <2>8, <2>9, <2>10 DEF Proceed
<1>5. ASSUME NEW t \in Turn, Lands(t) PROVE TypeOK' BY <1>a, <1>b, <1>5 DEF Lands
<1>6. ASSUME NEW t \in Turn, Cancelled(t) PROVE TypeOK'
  BY <1>a, <1>b, <1>6, ReturnTypes, WriteTypes DEF Cancelled, RowState
<1>7. ASSUME NEW t \in Turn, Clear(t) PROVE TypeOK' BY <1>a, <1>7 DEF Clear
<1>8. ASSUME NEW a \in Approval, Expire(a) PROVE TypeOK'
  BY <1>a, <1>8, WriteTypes DEF Expire, RowState
<1>9. ASSUME NEW p \in Process, Crash(p) PROVE TypeOK'
  <2>1. Idle \in TurnState BY DEF Idle, TurnState
  <2>2. QED BY <1>a, <1>9, <2>1 DEF Crash
<1>10. CASE UNCHANGED approvalVars BY <1>a, <1>10 DEF approvalVars
<1>11. QED BY <1>1, <1>2, <1>3, <1>4, <1>5, <1>6, <1>7, <1>8, <1>9, <1>10 DEF Next

-----------------------------------------------------------------------------
(* Every step keeps the invariant *)

\* Every part of the invariant but the types.
LEMMA DecisionsKept ==
    ASSUME IInv, [Next]_approvalVars
    PROVE  /\ TurnsOK' /\ DecisionsOK' /\ RunsOK'
           /\ RejectionsOK' /\ EffectsOK' /\ EffectIsOnRecord'
<1> DEFINE Rest == /\ TurnsOK /\ DecisionsOK /\ RunsOK
                   /\ RejectionsOK /\ EffectsOK /\ EffectIsOnRecord
<1> USE DEF storeVars, historyVars, Gone, Decides, Holding, Claimed, Dispatched, Dropping
<1>a. TypeOK /\ Rest BY DEF IInv
<1>b. /\ \A a \in Approval : row[a] \in RowState /\ ran[a] \in Nat
      /\ landed \subseteq Approval /\ denied \subseteq Approval /\ rejected \subseteq Approval
  BY <1>a DEF TypeOK
<1> USE DEF TurnsOK, DecisionsOK, RunsOK, RejectionsOK, EffectsOK, EffectIsOnRecord
<1>1. ASSUME NEW t \in Turn, NEW a \in Approval, Request(t, a) PROVE Rest'
  <2>1. turn'[t].pc = "sent" /\ turn'[t].about = a /\ \A u \in Turn \ {t} : turn'[u] = turn[u]
    BY <1>a, <1>1 DEF Request, TypeOK, TurnState, Idle
  <2>2. QED BY <1>a, <1>b, <1>1, <2>1, Writes DEF Request
<1>2. ASSUME NEW t \in Turn, NEW a \in Approval, NEW approve \in BOOLEAN,
             Click(t, a, approve) PROVE Rest'
  <2>1. turn'[t].pc = "wait" /\ turn'[t].about = a /\ \A u \in Turn \ {t} : turn'[u] = turn[u]
    BY <1>a, <1>2 DEF Click, TypeOK
  <2>2. QED BY <1>a, <1>b, <1>2, <2>1 DEF Click
<1>3. ASSUME NEW t \in Turn, Enter(t) PROVE Rest'
  <2>1. turn'[t].pc \in {"claim", "cancel"} /\ turn'[t].about = turn[t].about
           /\ \A u \in Turn \ {t} : turn'[u] = turn[u]
    BY <1>a, <1>3, Moves DEF Enter
  <2>2. QED BY <1>a, <1>b, <1>3, <2>1 DEF Enter
<1>4. ASSUME NEW t \in Turn, Proceed(t) PROVE Rest'
  <2>1. CASE Delivered(t) BY <1>a, <1>b, <2>1, Returns DEF Delivered
  <2>2. CASE DeliveryFails(t) BY <1>a, <1>b, <2>2, Moves DEF DeliveryFails
  <2>3. CASE Claim(t)
    <3>1. turn[t].about \in Approval BY <1>a, <2>3 DEF Claim
    <3>2. CASE Wins(turn[t].about) /\ turn'[t].pc \in {"lookup", "reject"}
                  /\ turn'[t].about = turn[t].about
                  /\ \A u \in Turn \ {t} : turn'[u] = turn[u]
      BY <1>a, <1>b, <2>3, <3>1, <3>2, Writes DEF Claim, Wins
    <3>3. CASE Return(t) /\ row' = row
      BY <1>a, <1>b, <2>3, <3>3, Returns DEF Claim
    <3>4. QED BY <1>a, <2>3, <3>1, <3>2, <3>3, Moves DEF Claim
  <2>4. CASE Cancel(t)
    <3>1. turn[t].about \in Approval BY <1>a, <2>4 DEF Cancel
    <3>2. CASE Wins(turn[t].about) /\ Goto(t, "drop")
      BY <1>a, <1>b, <2>4, <3>1, <3>2, Writes, Moves DEF Cancel, Wins
    <3>3. CASE Return(t) /\ row' = row
      BY <1>a, <1>b, <2>4, <3>3, Returns DEF Cancel
    <3>4. QED BY <2>4, <3>2, <3>3 DEF Cancel
  <2>5. CASE Drop(t)
    <3>1. turn[t].about \in Approval BY <1>a, <2>5 DEF Drop
    <3>2. QED BY <1>a, <1>b, <2>5, <3>1, Writes, Returns DEF Drop
  <2>6. CASE Lookup(t)
    <3>1. turn[t].about \in Approval BY <1>a, <2>6 DEF Lookup
    <3>2. CASE Goto(t, "dispatch") /\ row' = row
      BY <1>a, <1>b, <2>6, <3>1, <3>2, Moves DEF Lookup
    <3>3. CASE Write(turn[t].about, "forgotten") /\ Return(t)
      BY <1>a, <1>b, <2>6, <3>1, <3>3, Writes, Returns DEF Lookup
    <3>4. QED BY <2>6, <3>2, <3>3 DEF Lookup
  <2>7. CASE Dispatch(t)
    <3>1. turn[t].about \in Approval BY <1>a, <2>7 DEF Dispatch
    <3>2. ran'[turn[t].about] = 1 /\ \A b \in Approval \ {turn[t].about} : ran'[b] = ran[b]
      BY <1>a, <1>b, <2>7, <3>1 DEF Dispatch, TypeOK
    <3>3. QED BY <1>a, <1>b, <2>7, <3>1, <3>2, Moves DEF Dispatch
  <2>8. ASSUME NEW pc \in Dispatched, ToolEnds(t, pc) PROVE Rest'
    BY <1>a, <1>b, <2>8, Moves DEF ToolEnds
  <2>9. CASE Record(t)
    <3>1. turn[t].about \in Approval BY <1>a, <2>9 DEF Record
    <3>2. CASE Store(turn[t].about) /\ Goto(t, "finish")
      BY <1>a, <1>b, <2>9, <3>1, <3>2, Stores, Moves, ApprovalsAssumption DEF Record
    <3>3. CASE Goto(t, "freeze") /\ cached' = cached
      BY <1>a, <1>b, <2>9, <3>1, <3>3, Moves DEF Record
    <3>4. QED BY <2>9, <3>2, <3>3 DEF Record
  <2>10. CASE Finish(t)
    <3>1. turn[t].about \in Approval BY <1>a, <2>10 DEF Finish
    <3>2. QED BY <1>a, <1>b, <2>10, <3>1, Writes, Returns DEF Finish
  <2>11. QED BY <1>4, <2>1, <2>2, <2>3, <2>4, <2>5, <2>6, <2>7, <2>8, <2>9, <2>10 DEF Proceed
<1>5. ASSUME NEW t \in Turn, Lands(t) PROVE Rest'
  BY <1>a, <1>b, <1>5 DEF Lands
<1>6. ASSUME NEW t \in Turn, Cancelled(t) PROVE Rest'
  <2>1. turn[t].about \in Approval BY <1>a, <1>6 DEF Cancelled
  <2>2. CASE /\ turn[t].pc \in Claimed /\ row[turn[t].about] = "executing"
             /\ Write(turn[t].about, "awaiting")
    BY <1>a, <1>b, <1>6, <2>1, <2>2, Writes, Returns DEF Cancelled
  <2>3. CASE turn[t].pc \in Dispatched /\ Write(turn[t].about, "unknown")
    BY <1>a, <1>b, <1>6, <2>1, <2>3, Writes, Returns DEF Cancelled
  <2>4. CASE row' = row
    BY <1>a, <1>b, <1>6, <2>4, Returns DEF Cancelled
  <2>5. QED BY <1>6, <2>2, <2>3, <2>4 DEF Cancelled
<1>7. ASSUME NEW t \in Turn, Clear(t) PROVE Rest' BY <1>a, <1>b, <1>7 DEF Clear
<1>8. ASSUME NEW a \in Approval, Expire(a) PROVE Rest'
  BY <1>a, <1>b, <1>8, Writes DEF Expire
<1>9. ASSUME NEW p \in Process, Crash(p) PROVE Rest'
  <2>1. \A t \in Turn : turn'[t] = turn[t] \/ turn'[t].pc = "idle"
    BY <1>9 DEF Crash, Idle
  <2>2. QED BY <1>a, <1>b, <1>9, <2>1 DEF Crash
<1>10. CASE UNCHANGED approvalVars BY <1>a, <1>10 DEF approvalVars
<1>11. QED BY <1>1, <1>2, <1>3, <1>4, <1>5, <1>6, <1>7, <1>8, <1>9, <1>10 DEF Next

-----------------------------------------------------------------------------
(* The theorems *)

\* The inductive invariant of the confirmed writes holds in every state.
THEOREM ApprovalsInvariant == Spec => []IInv
<1>1. Init => IInv
  <2> SUFFICES ASSUME Init PROVE IInv OBVIOUS
  <2>1. Idle \in TurnState BY DEF Idle, TurnState
  <2>2. TypeOK BY <2>1 DEF Init, TypeOK, RowState
  <2>3. \A t \in Turn : turn[t].pc = "idle" BY DEF Init, Idle
  <2>4. QED
    BY <2>2, <2>3 DEF Init, IInv, TurnsOK, DecisionsOK, RunsOK, RejectionsOK, EffectsOK,
       EffectIsOnRecord, Decides, Holding, Claimed, Dispatched, Dropping
<1>2. IInv /\ [Next]_approvalVars => IInv' BY TypesKept, DecisionsKept DEF IInv
<1>3. QED BY <1>1, <1>2, PTL DEF Spec

\* The tables, the cache, the locks and the turns keep their types.
THEOREM ApprovalsTypes == Spec => []TypeOK
BY ApprovalsInvariant, PTL DEF IInv

\* A confirmed write is dispatched at most once and a rejected one never, for any
\* number of cards, clicks and processes.
THEOREM DecidedOnce == Spec => []OneDecision
<1>1. IInv => OneDecision
  <2>1. ASSUME IInv, NEW a \in Approval PROVE ran[a] <= 1
    <3>1. ran[a] = 0 \/ ran[a] = 1 BY <2>1 DEF IInv, RunsOK
    <3>2. QED BY <3>1
  <2>2. ASSUME IInv, NEW a \in rejected PROVE ran[a] = 0 BY <2>2 DEF IInv, RejectionsOK
  <2>3. QED BY <2>1, <2>2 DEF OneDecision
<1>2. QED BY <1>1, ApprovalsInvariant, PTL

\* For any number of cards, clicks and processes: a write that took effect, and
\* whose tool was not taken to have done nothing, has its result stored, or its
\* approval says executing or unknown until the retention of that row is over.
THEOREM EffectsKept == Spec => []EffectIsOnRecord
BY ApprovalsInvariant, PTL DEF IInv

-----------------------------------------------------------------------------
(* What the session lock is for *)

\* A turn that is past the lock holds that of its process.
LocksOK == \A t \in Turn : turn[t].pc \notin {"idle", "wait"} => lock[ProcessOf[t]] = t

\* The turns of the session share one process, and so one asyncio.Lock.
OneProcess == \A t, u \in Turn : ProcessOf[t] = ProcessOf[u]

\* From the check of Enter to the dispatch the tool call stays in the history, and
\* from the lookup to the dispatch the key gets no result.
CurrentOK ==
    \A t \in Turn :
        /\ turn[t].pc \in {"claim"} \cup Claimed => origin[turn[t].about]
        /\ turn[t].pc = "dispatch" => ~Replayable(turn[t].about)

LEMMA Taken ==
    ASSUME TypeOK, NEW t \in Turn, Take(t)
    PROVE  /\ lock'[ProcessOf[t]] = t
           /\ \A p \in Process : p # ProcessOf[t] => lock'[p] = lock[p]
BY ApprovalsAssumption DEF Take, TypeOK

LEMMA Unlocked ==
    ASSUME TypeOK, NEW t \in Turn, Return(t)
    PROVE  \A p \in Process : lock[p] # t => lock'[p] = lock[p]
BY ApprovalsAssumption DEF Return, Unlock, TypeOK

\* A turn that returns gives back no lock but its own.
LEMMA ReturnKeepsLocks ==
    ASSUME TypeOK, LocksOK, NEW t \in Turn, Return(t)
    PROVE  LocksOK'
<1>1. ASSUME NEW u \in Turn, turn'[u].pc \notin {"idle", "wait"} PROVE lock'[ProcessOf[u]] = u
  <2>1. u # t /\ turn'[u] = turn[u] BY <1>1, Returns
  <2>2. lock[ProcessOf[u]] = u /\ ProcessOf[u] \in Process
    BY <1>1, <2>1, ApprovalsAssumption DEF LocksOK
  <2>3. QED BY <2>1, <2>2, Unlocked
<1>2. QED BY <1>1 DEF LocksOK

\* A turn that goes on past the lock still holds it.
LEMMA MoveKeepsLocks ==
    ASSUME TypeOK, LocksOK, NEW t \in Turn, NEW pc, Goto(t, pc),
           turn[t].pc \notin {"idle", "wait"}, lock' = lock
    PROVE  LocksOK'
BY Moves DEF LocksOK

\* A turn that was idle or waiting takes a free lock.
LEMMA TakeKeepsLocks ==
    ASSUME TypeOK, LocksOK, NEW t \in Turn, LockFree(t), Take(t),
           \A u \in Turn \ {t} : turn'[u] = turn[u]
    PROVE  LocksOK'
<1>1. ASSUME NEW u \in Turn, turn'[u].pc \notin {"idle", "wait"} PROVE lock'[ProcessOf[u]] = u
  <2>1. CASE u = t BY <2>1, Taken
  <2>2. CASE u # t
    <3>1. lock[ProcessOf[u]] = u /\ ProcessOf[u] \in Process
      BY <1>1, <2>2, ApprovalsAssumption DEF LocksOK
    <3>2. ProcessOf[u] # ProcessOf[t] BY <3>1, ApprovalsAssumption DEF LockFree
    <3>3. QED BY <3>1, <3>2, Taken
  <2>3. QED BY <2>1, <2>2
<1>2. QED BY <1>1 DEF LocksOK

LEMMA LocksKept == ASSUME IInv, LocksOK, [Next]_approvalVars PROVE LocksOK'
<1> USE DEF storeVars, historyVars
<1>a. TypeOK BY DEF IInv
<1>1. ASSUME NEW t \in Turn, NEW a \in Approval, Request(t, a) PROVE LocksOK'
  <2>1. \A u \in Turn \ {t} : turn'[u] = turn[u] BY <1>a, <1>1 DEF Request, TypeOK
  <2>2. QED BY <1>a, <1>1, <2>1, TakeKeepsLocks DEF Request
<1>2. ASSUME NEW t \in Turn, NEW a \in Approval, NEW approve \in BOOLEAN,
             Click(t, a, approve) PROVE LocksOK'
  <2>1. turn'[t].pc = "wait" /\ \A u \in Turn \ {t} : turn'[u] = turn[u]
    BY <1>a, <1>2 DEF Click, TypeOK
  <2>2. QED BY <1>2, <2>1 DEF Click, LocksOK
<1>3. ASSUME NEW t \in Turn, Enter(t) PROVE LocksOK'
  <2>1. \A u \in Turn \ {t} : turn'[u] = turn[u] BY <1>a, <1>3, Moves DEF Enter
  <2>2. QED BY <1>a, <1>3, <2>1, TakeKeepsLocks DEF Enter
<1>4. ASSUME NEW t \in Turn, Proceed(t) PROVE LocksOK'
  <2> USE DEF Claimed, Dispatched, Dropping
  <2>1. CASE Delivered(t) BY <1>a, <2>1, ReturnKeepsLocks DEF Delivered
  <2>2. CASE DeliveryFails(t) BY <1>a, <2>2, MoveKeepsLocks DEF DeliveryFails
  <2>3. CASE Claim(t) BY <1>a, <2>3, MoveKeepsLocks, ReturnKeepsLocks DEF Claim
  <2>4. CASE Cancel(t) BY <1>a, <2>4, MoveKeepsLocks, ReturnKeepsLocks DEF Cancel
  <2>5. CASE Drop(t) BY <1>a, <2>5, ReturnKeepsLocks DEF Drop
  <2>6. CASE Lookup(t) BY <1>a, <2>6, MoveKeepsLocks, ReturnKeepsLocks DEF Lookup
  <2>7. CASE Dispatch(t) BY <1>a, <2>7, MoveKeepsLocks DEF Dispatch
  <2>8. ASSUME NEW pc \in Dispatched, ToolEnds(t, pc) PROVE LocksOK'
    BY <1>a, <2>8, MoveKeepsLocks DEF ToolEnds
  <2>9. CASE Record(t) BY <1>a, <2>9, MoveKeepsLocks DEF Record
  <2>10. CASE Finish(t) BY <1>a, <2>10, ReturnKeepsLocks DEF Finish
  <2>11. QED BY <1>4, <2>1, <2>2, <2>3, <2>4, <2>5, <2>6, <2>7, <2>8, <2>9, <2>10 DEF Proceed
<1>5. ASSUME NEW t \in Turn, Lands(t) PROVE LocksOK' BY <1>5 DEF Lands, LocksOK
<1>6. ASSUME NEW t \in Turn, Cancelled(t) PROVE LocksOK'
  BY <1>a, <1>6, ReturnKeepsLocks DEF Cancelled
<1>7. ASSUME NEW t \in Turn, Clear(t) PROVE LocksOK' BY <1>7 DEF Clear, LocksOK
<1>8. ASSUME NEW a \in Approval, Expire(a) PROVE LocksOK' BY <1>8 DEF Expire, LocksOK
<1>9. ASSUME NEW p \in Process, Crash(p) PROVE LocksOK'
  <2>1. ASSUME NEW u \in Turn, turn'[u].pc \notin {"idle", "wait"} PROVE lock'[ProcessOf[u]] = u
    <3>1. ProcessOf[u] # p /\ turn'[u] = turn[u] BY <1>9, <2>1 DEF Crash, Idle
    <3>2. lock[ProcessOf[u]] = u /\ ProcessOf[u] \in Process
      BY <2>1, <3>1, ApprovalsAssumption DEF LocksOK
    <3>3. QED BY <1>a, <1>9, <3>1, <3>2 DEF Crash, TypeOK
  <2>2. QED BY <2>1 DEF LocksOK
<1>10. CASE UNCHANGED approvalVars BY <1>10 DEF approvalVars, LocksOK
<1>11. QED BY <1>1, <1>2, <1>3, <1>4, <1>5, <1>6, <1>7, <1>8, <1>9, <1>10 DEF Next

\* What the turns rest on does not change when only rows, locks and histories do.
LEMMA SameRest ==
    ASSUME CurrentOK, origin' = origin, cached' = cached,
           \A t \in Turn : turn'[t] = turn[t] \/ turn'[t].pc \notin {"claim"} \cup Claimed
    PROVE  CurrentOK'
BY DEF CurrentOK, Claimed, Replayable

\* In one process a turn past the lock is the only one.
LEMMA Alone ==
    ASSUME LocksOK, OneProcess, NEW t \in Turn, NEW u \in Turn,
           turn[t].pc \notin {"idle", "wait"}, turn[u].pc \notin {"idle", "wait"}
    PROVE  t = u
BY DEF LocksOK, OneProcess

\* Nor is there one when the lock is free.
LEMMA NobodyPast ==
    ASSUME LocksOK, OneProcess, NEW t \in Turn, LockFree(t), NEW u \in Turn
    PROVE  turn[u].pc \in {"idle", "wait"}
BY ApprovalsAssumption DEF LocksOK, OneProcess, LockFree

LEMMA CurrentKept ==
    ASSUME OneProcess, IInv, LocksOK, CurrentOK, [Next]_approvalVars
    PROVE  CurrentOK'
<1> USE DEF storeVars, historyVars
<1>a. TypeOK /\ TurnsOK BY DEF IInv
<1>1. ASSUME NEW t \in Turn, NEW a \in Approval, Request(t, a) PROVE CurrentOK'
  <2>1. turn'[t].pc = "sent" /\ \A u \in Turn \ {t} : turn'[u] = turn[u]
    BY <1>a, <1>1 DEF Request, TypeOK, TurnState, Idle
  <2>2. \A u \in Turn : turn'[u].pc \in {"idle", "wait", "sent"}
    BY <1>1, <2>1, NobodyPast DEF Request
  <2>3. QED BY <2>2 DEF CurrentOK, Claimed
<1>2. ASSUME NEW t \in Turn, NEW a \in Approval, NEW approve \in BOOLEAN,
             Click(t, a, approve) PROVE CurrentOK'
  <2>1. turn'[t].pc = "wait" /\ \A u \in Turn \ {t} : turn'[u] = turn[u]
    BY <1>a, <1>2 DEF Click, TypeOK
  <2>2. QED BY <1>2, <2>1, SameRest DEF Click, Claimed
<1>3. ASSUME NEW t \in Turn, Enter(t) PROVE CurrentOK'
  <2>1. \A u \in Turn \ {t} : turn'[u] = turn[u] BY <1>a, <1>3, Moves DEF Enter
  <2>2. /\ turn'[t].about = turn[t].about
        /\ turn'[t].pc = IF origin[turn[t].about] THEN "claim" ELSE "cancel"
    BY <1>a, <1>3, Moves DEF Enter
  <2>3. QED BY <1>3, <2>1, <2>2 DEF Enter, CurrentOK, Claimed, Replayable
<1>4. ASSUME NEW t \in Turn, Proceed(t) PROVE CurrentOK'
  <2>1. CASE Delivered(t)
    BY <1>a, <2>1, Returns, SameRest DEF Delivered, Claimed
  <2>2. CASE DeliveryFails(t)
    BY <1>a, <2>2, Moves, SameRest DEF DeliveryFails, Claimed
  <2>3. CASE Claim(t)
    <3>1. CASE /\ turn'[t].about = turn[t].about
               /\ turn'[t].pc \in {"lookup", "reject"}
               /\ \A u \in Turn \ {t} : turn'[u] = turn[u]
      BY <2>3, <3>1 DEF Claim, CurrentOK, Claimed, Replayable
    <3>2. CASE Return(t)
      BY <1>a, <2>3, <3>2, Returns, SameRest DEF Claim, Claimed
    <3>3. QED BY <1>a, <2>3, <3>1, <3>2, Moves DEF Claim
  <2>4. CASE Cancel(t)
    BY <1>a, <2>4, Moves, Returns, SameRest DEF Cancel, Claimed
  <2>5. CASE Drop(t)
    BY <1>a, <2>5, Returns, SameRest DEF Drop, Claimed
  <2>6. CASE Lookup(t)
    <3>1. CASE ~Replayable(turn[t].about) /\ Goto(t, "dispatch")
      BY <1>a, <2>6, <3>1, Moves DEF Lookup, CurrentOK, Claimed, Replayable
    <3>2. CASE Return(t)
      BY <1>a, <2>6, <3>2, Returns, SameRest DEF Lookup, Claimed
    <3>3. QED BY <2>6, <3>1, <3>2 DEF Lookup
  <2>7. CASE Dispatch(t)
    BY <1>a, <2>7, Moves, SameRest DEF Dispatch, Claimed
  <2>8. ASSUME NEW pc \in Dispatched, ToolEnds(t, pc) PROVE CurrentOK'
    BY <1>a, <2>8, Moves, SameRest DEF ToolEnds, Claimed
  <2>9. CASE Record(t)
    <3>1. turn'[t].pc \in {"finish", "freeze"} /\ \A u \in Turn \ {t} : turn'[u] = turn[u]
      BY <1>a, <2>9, Moves DEF Record
    <3>2. \A u \in Turn \ {t} : turn'[u].pc \in {"idle", "wait"}
      BY <2>9, <3>1, Alone DEF Record
    <3>3. QED BY <3>1, <3>2 DEF CurrentOK, Claimed
  <2>10. CASE Finish(t)
    BY <1>a, <2>10, Returns, SameRest DEF Finish, Claimed
  <2>11. QED BY <1>4, <2>1, <2>2, <2>3, <2>4, <2>5, <2>6, <2>7, <2>8, <2>9, <2>10 DEF Proceed
<1>5. ASSUME NEW t \in Turn, Lands(t) PROVE CurrentOK' BY <1>5, SameRest DEF Lands
<1>6. ASSUME NEW t \in Turn, Cancelled(t) PROVE CurrentOK'
  BY <1>a, <1>6, Returns, SameRest DEF Cancelled, Claimed
<1>7. ASSUME NEW t \in Turn, Clear(t) PROVE CurrentOK'
  <2>1. \A u \in Turn : turn'[u].pc \in {"idle", "wait"} BY <1>7, NobodyPast DEF Clear
  <2>2. QED BY <2>1 DEF CurrentOK, Claimed
<1>8. ASSUME NEW a \in Approval, Expire(a) PROVE CurrentOK' BY <1>8, SameRest DEF Expire
<1>9. ASSUME NEW p \in Process, Crash(p) PROVE CurrentOK'
  <2>1. \A t \in Turn : turn'[t] = turn[t] \/ turn'[t].pc = "idle" BY <1>9 DEF Crash, Idle
  <2>2. QED BY <1>9, <2>1, SameRest DEF Crash, Claimed
<1>10. CASE UNCHANGED approvalVars BY <1>10, SameRest DEF approvalVars
<1>11. QED BY <1>1, <1>2, <1>3, <1>4, <1>5, <1>6, <1>7, <1>8, <1>9, <1>10 DEF Next

\* Only a dispatch counts a run, and it counts that of its own approval.
LEMMA OnlyDispatchRuns ==
    ASSUME IInv, [Next]_approvalVars, NEW a \in Approval, ran'[a] # ran[a]
    PROVE  \E t \in Turn : turn[t].pc = "dispatch" /\ turn[t].about = a
<1> USE DEF storeVars, historyVars
<1>1. \/ ran' = ran
      \/ \E t \in Turn : Dispatch(t)
  BY DEF Next, approvalVars, Request, Click, Enter, Proceed, Delivered, DeliveryFails, Claim,
         Cancel, Drop, Lookup, ToolEnds, Record, Finish, Lands, Cancelled, Clear, Expire, Crash
<1>2. PICK t \in Turn : Dispatch(t) BY <1>1
<1>3. QED BY <1>2 DEF IInv, TypeOK, Dispatch

\* While the turns of a session run in one process, its lock keeps what a dispatch
\* rests on: the session is not cleared since the check, and no write of the same
\* key and arguments is executed between the lookup and the dispatch.
THEOREM DispatchedCurrent == ASSUME OneProcess PROVE Spec => DispatchIsCurrent
<1>1. Init => LocksOK /\ CurrentOK BY DEF Init, Idle, LocksOK, CurrentOK, Claimed
<1>2. IInv /\ LocksOK /\ [Next]_approvalVars => LocksOK' BY LocksKept
<1>3. IInv /\ LocksOK /\ CurrentOK /\ [Next]_approvalVars => CurrentOK'
  BY OneProcess, CurrentKept
<1>4. IInv /\ CurrentOK /\ [Next]_approvalVars =>
         \A a \in Approval : ran'[a] # ran[a] => origin[a] /\ ~Replayable(a)
  <2> SUFFICES ASSUME IInv, CurrentOK, [Next]_approvalVars, NEW a \in Approval, ran'[a] # ran[a]
               PROVE  origin[a] /\ ~Replayable(a)
    OBVIOUS
  <2>1. PICK t \in Turn : turn[t].pc = "dispatch" /\ turn[t].about = a BY OnlyDispatchRuns
  <2>2. QED BY <2>1 DEF CurrentOK, Claimed
<1>5. QED BY <1>1, <1>2, <1>3, <1>4, ApprovalsInvariant, PTL DEF Spec, DispatchIsCurrent

=============================================================================
