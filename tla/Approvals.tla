----------------------------- MODULE Approvals -----------------------------
(***************************************************************************)
(* Confirmed writes of one session: the pending approvals of               *)
(* SqlitePendingApprovalStore, the decision of DefaultApprovalEngine and   *)
(* its execution-result cache, and the turns around them - the one that    *)
(* asks (request_approval), the card click that decides                    *)
(* (decide_and_resume) and /clear (feishu/agent/approval.py,               *)
(* persistence.py, loop.py).                                               *)
(*                                                                         *)
(* Turns run in processes that share the stores; the session lock is an    *)
(* asyncio.Lock of one process.  A turn may be cancelled at any await and  *)
(* a process may die with everything its turns were doing.                 *)
(***************************************************************************)
EXTENDS Naturals

CONSTANTS
    Approval,    \* approval ids of the session
    Key,         \* idempotency keys
    KeyOf,       \* [Approval -> Key]: _execution_lookup_key
    Payload,     \* digests of the arguments
    PayloadOf,   \* [Approval -> Payload]: payload_sha256
    NoPayload,   \* no result under a key
    Turn,        \* turns of the session: requests and card clicks
    Process,     \* worker processes over the same stores
    ProcessOf,   \* [Turn -> Process]
    NoTurn,      \* a lock held by nobody
    NoApproval   \* a turn about no approval

ASSUME ApprovalsAssumption ==
    /\ KeyOf \in [Approval -> Key]
    /\ PayloadOf \in [Approval -> Payload]
    /\ NoPayload \notin Payload
    /\ ProcessOf \in [Turn -> Process]
    /\ NoTurn \notin Turn
    /\ NoApproval \notin Approval

VARIABLES
    row,       \* [Approval -> RowState]: the approvals table
    origin,    \* [Approval -> BOOLEAN]: the history still holds the tool call
    cached,    \* [Key -> Payload \cup {NoPayload}]: the executed result of a key
    lock,      \* [Process -> Turn \cup {NoTurn}]: _session_lock
    turn,      \* [Turn -> TurnState]: the local state of each turn
    ran,       \* history: times the tool of the approval was dispatched
    landed,    \* history: approvals whose write took effect
    denied,    \* history: approvals whose tool was taken to have done nothing
    rejected   \* history: approvals the user was told are rejected

approvalVars == <<row, origin, cached, lock, turn, ran, landed, denied, rejected>>
storeVars == <<row, origin, cached>>
historyVars == <<ran, landed, denied, rejected>>

-----------------------------------------------------------------------------
\* "new" is no row yet; "forgotten" is no row any more, nor is "lapsed", which
\* was dropped because nobody looked at it while it was retained.
Gone == {"forgotten", "lapsed"}
RowState == {"new", "awaiting", "executing", "unknown"} \cup Gone

\* Steps of a decision that won the claim; before and after the dispatch.
Claimed == {"lookup", "dispatch"}
Dispatched == {"running", "record", "finish", "fail", "freeze"}

\* Steps that drop an approval they won: a rejection, a cancellation.
Dropping == {"reject", "drop"}

TurnState == [pc: {"idle", "sent", "wait", "claim", "cancel"}
                      \cup Claimed \cup Dispatched \cup Dropping,
              about: Approval \cup {NoApproval}, approve: BOOLEAN]

Idle == [pc |-> "idle", about |-> NoApproval, approve |-> FALSE]

Goto(t, pc) == turn' = [turn EXCEPT ![t].pc = pc]

\* An UPDATE or DELETE by approval id does nothing once the row is gone.
Write(a, state) == row' = [row EXCEPT ![a] = IF @ \in Gone THEN @ ELSE state]

\* The result of this very write is stored under its key.
Replayable(a) == cached[KeyOf[a]] = PayloadOf[a]

Store(a) == cached' = [cached EXCEPT ![KeyOf[a]] = PayloadOf[a]]

LockFree(t) == lock[ProcessOf[t]] = NoTurn
Take(t)     == lock' = [lock EXCEPT ![ProcessOf[t]] = t]
Unlock(t)   == lock' = [lock EXCEPT ![ProcessOf[t]] = IF @ = t THEN NoTurn ELSE @]

Return(t) == turn' = [turn EXCEPT ![t] = Idle] /\ Unlock(t)

\* claim of the store: one transaction turns awaiting into executing.
Wins(a) == row[a] = "awaiting" /\ Write(a, "executing")

-----------------------------------------------------------------------------
(* The turn that asks *)

\* on_request: the approval is stored before its card is sent.
Request(t, a) ==
    /\ turn[t].pc = "idle" /\ LockFree(t)
    /\ row[a] = "new"
    /\ Write(a, "awaiting")
    /\ origin' = [origin EXCEPT ![a] = TRUE]
    /\ Take(t)
    /\ turn' = [turn EXCEPT ![t] = [Idle EXCEPT !.pc = "sent", !.about = a]]
    /\ UNCHANGED <<cached, historyVars>>

Delivered(t) ==
    /\ turn[t].pc = "sent"
    /\ Return(t)
    /\ UNCHANGED <<storeVars, historyVars>>

\* The send raised or was cancelled, but the card may be on the user's screen.
DeliveryFails(t) ==
    /\ turn[t].pc = "sent"
    /\ Goto(t, "cancel")
    /\ UNCHANGED <<storeVars, lock, historyVars>>

-----------------------------------------------------------------------------
(* A card click *)

\* load_and_decide, up to the session lock; an unknown approval ends it.
Click(t, a, approve) ==
    /\ turn[t].pc = "idle"
    /\ row[a] \in {"awaiting", "executing", "unknown"}
    /\ turn' = [turn EXCEPT ![t] = [pc |-> "wait", about |-> a, approve |-> approve]]
    /\ UNCHANGED <<storeVars, lock, historyVars>>

\* Mutant of Enter: the session lock is not awaited.
EnterUnlocked(t) ==
    /\ turn[t].pc = "wait"
    /\ Goto(t, IF origin[turn[t].about] THEN "claim" ELSE "cancel")
    /\ UNCHANGED <<storeVars, lock, historyVars>>

\* decide_and_resume under the lock: without its tool call the approval is
\* cancelled instead.
Enter(t) ==
    /\ turn[t].pc = "wait" /\ LockFree(t)
    /\ Take(t)
    /\ Goto(t, IF origin[turn[t].about] THEN "claim" ELSE "cancel")
    /\ UNCHANGED <<storeVars, historyVars>>

\* on_decision: one decision wins the row.  The others are told how it stands,
\* as is one whose card carries another digest (TAMPERED).
Claim(t) ==
    LET a == turn[t].about IN
    /\ turn[t].pc = "claim"
    /\ \/ /\ Wins(a)
          /\ Goto(t, IF turn[t].approve THEN "lookup" ELSE "reject")
          /\ UNCHANGED lock
       \/ /\ Return(t)
          /\ UNCHANGED row
    /\ UNCHANGED <<origin, cached, historyVars>>

\* on_cancel claims too, so it only drops what nobody decided.
Cancel(t) ==
    LET a == turn[t].about IN
    /\ turn[t].pc = "cancel"
    /\ \/ Wins(a) /\ Goto(t, "drop") /\ UNCHANGED lock
       \/ row[a] # "awaiting" /\ Return(t) /\ UNCHANGED row
    /\ UNCHANGED <<origin, cached, historyVars>>

\* complete(outcome="cancelled").
Drop(t) ==
    LET a == turn[t].about IN
    /\ turn[t].pc \in Dropping
    /\ Write(a, "forgotten")
    /\ rejected' = IF turn[t].pc = "reject" THEN rejected \cup {a} ELSE rejected
    /\ Return(t)
    /\ UNCHANGED <<origin, cached, ran, landed, denied>>

\* An executed result under the key is replayed; a lookup that fails ends it.
Lookup(t) ==
    LET a == turn[t].about IN
    /\ turn[t].pc = "lookup"
    /\ \/ ~Replayable(a) /\ Goto(t, "dispatch") /\ UNCHANGED <<row, lock>>
       \/ Write(a, "forgotten") /\ Return(t)
    /\ UNCHANGED <<origin, cached, historyVars>>

Dispatch(t) ==
    /\ turn[t].pc = "dispatch"
    /\ ran' = [ran EXCEPT ![turn[t].about] = @ + 1]
    /\ Goto(t, "running")
    /\ UNCHANGED <<storeVars, lock, landed, denied, rejected>>

\* The write of a running tool takes effect in the outside world.
Lands(t) ==
    /\ turn[t].pc = "running"
    /\ landed' = landed \cup {turn[t].about}
    /\ UNCHANGED <<storeVars, lock, turn, ran, denied, rejected>>

\* The tool completed ("record"); it raised and nobody knows ("freeze"); or it is
\* taken to have done nothing ("fail"): an error result, or a KeyError or
\* ToolValidationError, which the handler may raise as well as the checks before
\* it.  Nothing there tells whether its write landed.
ToolEnds(t, pc) ==
    /\ turn[t].pc = "running"
    /\ pc \in {"record", "fail", "freeze"}
    /\ Goto(t, pc)
    /\ denied' = IF pc = "fail" THEN denied \cup {turn[t].about} ELSE denied
    /\ UNCHANGED <<storeVars, lock, ran, landed, rejected>>

\* Mutant of Record: the approval is completed first, the result stored after.
RecordAfterwards(t) ==
    LET a == turn[t].about IN
    \/ /\ turn[t].pc = "record"
       /\ Write(a, "forgotten")
       /\ Goto(t, "finish")
       /\ UNCHANGED <<origin, cached, lock, historyVars>>
    \/ /\ turn[t].pc = "finish" /\ row[a] \in Gone
       /\ Store(a)
       /\ Return(t)
       /\ UNCHANGED <<row, origin, historyVars>>

\* The result is stored before the approval is completed, or it is frozen.
Record(t) ==
    /\ turn[t].pc = "record"
    /\ \/ Store(turn[t].about) /\ Goto(t, "finish")
       \/ Goto(t, "freeze") /\ UNCHANGED cached
    /\ UNCHANGED <<row, origin, lock, historyVars>>

\* Mutant of Finish: the session lock is not released.
FinishHolding(t) ==
    /\ turn[t].pc \in {"finish", "fail", "freeze"}
    /\ Write(turn[t].about, IF turn[t].pc = "freeze" THEN "unknown" ELSE "forgotten")
    /\ turn' = [turn EXCEPT ![t] = Idle]
    /\ UNCHANGED <<origin, cached, lock, historyVars>>

\* complete(), then the turn goes on with the outcome.
Finish(t) ==
    LET a == turn[t].about IN
    /\ turn[t].pc \in {"finish", "fail", "freeze"}
    /\ Write(a, IF turn[t].pc = "freeze" THEN "unknown" ELSE "forgotten")
    /\ Return(t)
    /\ UNCHANGED <<origin, cached, historyVars>>

\* Mutant of Cancelled: whatever was dispatched, the approval is reopened.
CancelledReopening(t) ==
    /\ turn[t].pc \notin {"idle", "sent"}
    /\ IF turn[t].pc \in Claimed \cup Dispatched
       THEN Write(turn[t].about, "awaiting") ELSE UNCHANGED row
    /\ Return(t)
    /\ UNCHANGED <<origin, cached, historyVars>>

\* _settle_cancelled_decision: reopened only if the dispatch never began.  A
\* second cancellation, or one before the decision is tracked, leaves the row.
Cancelled(t) ==
    LET a == turn[t].about IN
    /\ turn[t].pc \notin {"idle", "sent"}
    /\ \/ turn[t].pc \in Claimed /\ row[a] = "executing" /\ Write(a, "awaiting")
       \/ turn[t].pc \in Dispatched /\ row[a] = "executing" /\ Write(a, "unknown")
       \/ UNCHANGED row
    /\ Return(t)
    /\ UNCHANGED <<origin, cached, historyVars>>

-----------------------------------------------------------------------------
(* Around the turns *)

\* /clear, or an idle session: the history is dropped under the lock.
Clear(t) ==
    /\ turn[t].pc = "idle" /\ LockFree(t)
    /\ origin' = [a \in Approval |-> FALSE]
    /\ UNCHANGED <<row, cached, lock, turn, historyVars>>

\* _is_expired: ttl_seconds of an approval that waits, or the longer
\* execution_unknown_ttl_seconds of one that executes or is frozen, is over.
Expire(a) ==
    /\ \/ row[a] = "awaiting" /\ Write(a, "forgotten")
       \/ row[a] \in {"executing", "unknown"} /\ Write(a, "lapsed")
    /\ UNCHANGED <<origin, cached, lock, turn, historyVars>>

Crash(p) ==
    /\ lock' = [lock EXCEPT ![p] = NoTurn]
    /\ turn' = [t \in Turn |-> IF ProcessOf[t] = p THEN Idle ELSE turn[t]]
    /\ UNCHANGED <<storeVars, historyVars>>

-----------------------------------------------------------------------------
Init ==
    /\ row = [a \in Approval |-> "new"]
    /\ origin = [a \in Approval |-> FALSE]
    /\ cached = [k \in Key |-> NoPayload]
    /\ lock = [p \in Process |-> NoTurn]
    /\ turn = [t \in Turn |-> Idle]
    /\ ran = [a \in Approval |-> 0]
    /\ landed = {}
    /\ denied = {}
    /\ rejected = {}

Proceed(t) ==
    \/ Delivered(t) \/ DeliveryFails(t)
    \/ Claim(t) \/ Cancel(t) \/ Drop(t) \/ Lookup(t) \/ Dispatch(t)
    \/ \E pc \in Dispatched : ToolEnds(t, pc)
    \/ Record(t) \/ Finish(t)

Next ==
    \/ \E t \in Turn :
         \/ \E a \in Approval : Request(t, a)
         \/ \E a \in Approval, approve \in BOOLEAN : Click(t, a, approve)
         \/ Enter(t) \/ Proceed(t) \/ Lands(t) \/ Cancelled(t) \/ Clear(t)
    \/ \E a \in Approval : Expire(a)
    \/ \E p \in Process : Crash(p)

Spec == Init /\ [][Next]_approvalVars

\* What a turn awaits ends (requests and tools carry timeouts), and an
\* asyncio.Lock wakes its waiters in order of arrival.
FairSpec ==
    /\ Spec
    /\ \A t \in Turn : WF_approvalVars(Proceed(t)) /\ SF_approvalVars(Enter(t))

-----------------------------------------------------------------------------
(* Properties *)

TypeOK ==
    /\ row \in [Approval -> RowState]
    /\ origin \in [Approval -> BOOLEAN]
    /\ cached \in [Key -> Payload \cup {NoPayload}]
    /\ lock \in [Process -> Turn \cup {NoTurn}]
    /\ turn \in [Turn -> TurnState]
    /\ ran \in [Approval -> Nat]
    /\ landed \in SUBSET Approval
    /\ denied \in SUBSET Approval
    /\ rejected \in SUBSET Approval

\* One decision has effect, however often its card is clicked, in whatever
\* processes, cancelled or crashing: a confirmed write is dispatched at most once,
\* and one the user was told is rejected never, not even by a click on "approve"
\* racing the rejection ("only the claim winner proceeds").
OneDecision ==
    /\ \A a \in Approval : ran[a] <= 1
    /\ \A a \in rejected : ran[a] = 0

\* A write that took effect has a result stored under its key, or its approval
\* still says executing or unknown for a person to look at, until the retention
\* of such a row is over: it is not forgotten before, and never offered for
\* confirmation again as if nothing was done.  Excepted is a tool that was taken
\* to have done nothing (an error result, a KeyError): on_decision completes it
\* as failed whatever it wrote.
EffectIsOnRecord ==
    \A a \in landed \ denied :
        cached[KeyOf[a]] # NoPayload \/ row[a] \in {"executing", "unknown", "lapsed"}

\* The dispatch of a confirmed write rests on nothing stale: the session was not
\* cleared since (its call is in the history), and its key does not hold the
\* executed result of the same arguments, which is replayed instead.
DispatchIsCurrent ==
    [][\A a \in Approval : ran'[a] # ran[a] => origin[a] /\ ~Replayable(a)]_approvalVars

\* Every turn ends and gives the session back, although others crash.
TurnsEnd == \A t \in Turn : turn[t].pc # "idle" ~> turn[t].pc = "idle"

=============================================================================
