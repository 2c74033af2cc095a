----------------------------- MODULE JobRunner -----------------------------
(***************************************************************************)
(* The workers of the durable inbox: EventJobRunner.run_once of            *)
(* feishu/events/job_runner.py over the store of EventJobs, with the       *)
(* handler of a job reduced to what touches its lease: it marks the side   *)
(* effect boundary, makes external calls (bare, or inside                  *)
(* current_event_effect), passes checkpoints, and returns or raises.       *)
(*                                                                         *)
(* A run is lost without notice (Crash), cancelled at shutdown, outlived   *)
(* by its own lease, or superseded by a newer private message; a worker    *)
(* that lost its lease goes on until it next looks.                        *)
(***************************************************************************)
EXTENDS EventJobs

CONSTANTS
    WorkerOf,      \* [Runner -> Worker]: worker_id of each running loop
    Runner,        \* concurrent run_once loops
    Protected,     \* the runners are built with protected=True
    NoEvent,       \* no job claimed
    BackoffBase,   \* backoff_base_seconds
    MaxCalls       \* bound: external calls of one attempt (max_iterations of the loop)

\* docs/guides/agent.md: worker ids are unique among concurrent instances;
\* protected runners refuse a store whose UNKNOWN records expire.
ASSUME RunnerAssumption ==
    /\ WorkerOf \in [Runner -> Worker]
    /\ \A r, s \in Runner : WorkerOf[r] = WorkerOf[s] => r = s
    /\ Protected \in BOOLEAN
    /\ Protected \/ Private # {} => ~UnknownExpires
    /\ NoEvent \notin Event
    /\ BackoffBase \in Nat
    /\ MaxCalls \in Nat

VARIABLES
    run,       \* [Runner -> Run]: the local state of each run_once
    effects,   \* history: tokens of the attempts of this epoch that called out
    unsure     \* history: those with a bracketed call not known to have succeeded

runnerVars == <<run, effects, unsure>>
vars == <<storeVars, runnerVars>>

-----------------------------------------------------------------------------
Handling == {"active", "bare", "bracket"}
Pc == {"idle", "precheck", "done", "failed"} \cup Handling

Run == [pc: Pc, ev: Event \cup {NoEvent}, token: Nat, era: Nat, marked: BOOLEAN,
        cancel: BOOLEAN, exit: BOOLEAN, doomed: BOOLEAN, calls: 0..MaxCalls]

Idle == [pc |-> "idle", ev |-> NoEvent, token |-> 0, era |-> 0, marked |-> FALSE,
         cancel |-> FALSE, exit |-> FALSE, doomed |-> FALSE, calls |-> 0]

IsFenced(e) == Protected \/ e \in Private

\* What the store checks when run r calls it.
StillHeld(r, d) ==
    IF IsFenced(run[r].ev) THEN Holds(run[r].ev, WorkerOf[r], run[r].token, d)
                           ELSE Owns(run[r].ev, WorkerOf[r])

Goto(r, pc) == run' = [run EXCEPT ![r].pc = pc]
GiveUp(r)   == run' = [run EXCEPT ![r] = Idle]

\* An exception inside the handler: swallowed or propagated; a cancelled
\* handler, or one unwinding from EventSuperseded, always propagates it.
Raises(r) ==
    \E pc \in IF run[r].doomed \/ run[r].exit THEN {"failed"} ELSE {"active", "failed"} :
        Goto(r, pc)

-----------------------------------------------------------------------------
(* Claiming *)

StartJob(r, e, d) ==
    /\ run[r].pc = "idle"
    /\ ClaimJob(WorkerOf[r], e, d, 0)
    /\ run' = [run EXCEPT ![r] = [Idle EXCEPT
                  !.pc = IF e \in Private THEN "precheck" ELSE "active",
                  !.ev = e, !.token = issued'[e], !.era = epoch[e],
                  !.marked = jobs'[e].started]]
    /\ UNCHANGED <<effects, unsure>>

StartNothing(r, d) ==
    /\ run[r].pc = "idle"
    /\ ClaimNone(d, 0)
    /\ UNCHANGED runnerVars

\* Mutant of Precheck: any later message counts, callbacks before it are skipped.
PrecheckSkippingCallbacks(r, d) ==
    /\ run[r].pc = "precheck"
    /\ \/ /\ StillHeld(r, d)
          /\ run' = [run EXCEPT ![r].pc = "active",
                                ![r].cancel = Later(run[r].ev) \cap Private # {}]
       \/ ~StillHeld(r, d) /\ GiveUp(r)
    /\ UNCHANGED <<storeVars, effects, unsure>>

\* should_interrupt before the handler starts; a lost lease leaves run_once here.
Precheck(r, d) ==
    /\ run[r].pc = "precheck"
    /\ \/ /\ StillHeld(r, d)
          /\ run' = [run EXCEPT ![r].pc = "active",
                                ![r].cancel = SuccessorIsMessage(run[r].ev)]
       \/ ~StillHeld(r, d) /\ GiveUp(r)
    /\ UNCHANGED <<storeVars, effects, unsure>>

-----------------------------------------------------------------------------
(* The heartbeat and the interrupt watcher beside the handler *)

Heartbeat(r, d) ==
    LET e == run[r].ev IN
    /\ run[r].pc \in Handling \cup {"done", "failed"}
    /\ IF IsFenced(e) THEN RenewFenced(e, WorkerOf[r], run[r].token, d)
                      ELSE Renew(e, WorkerOf[r], d)
    /\ UNCHANGED runnerVars

WatchInterrupt(r, d) ==
    /\ run[r].pc \in Handling
    /\ run[r].ev \in Private
    /\ StillHeld(r, d)
    /\ SuccessorIsMessage(run[r].ev)
    /\ run' = [run EXCEPT ![r].cancel = TRUE]
    /\ UNCHANGED <<storeVars, effects, unsure>>

\* The handler is cancelled; if it has just ended, its result is discarded.
Doom(r) ==
    /\ run[r].pc \in Handling \cup {"done", "failed"}
    /\ ~run[r].doomed
    /\ run' = [run EXCEPT ![r].doomed = TRUE,
                          ![r].pc = IF @ = "done" THEN "failed" ELSE @]
    /\ UNCHANGED <<storeVars, effects, unsure>>

\* A heartbeat or a watcher found the lease gone.
LeaseLost(r, d) == Doom(r) /\ ~StillHeld(r, d)

\* run_once itself is cancelled, by a host that shuts down.
Shutdown(r) == Doom(r)

-----------------------------------------------------------------------------
(* The handler *)

Working(r) == run[r].pc = "active" /\ ~run[r].doomed

\* mark_current_event_side_effect_started
Mark(r, d) ==
    LET e == run[r].ev IN
    /\ Working(r)
    /\ IsFenced(e) \/ ~run[r].marked
    /\ \/ /\ IF IsFenced(e) THEN MarkFencedStarted(e, WorkerOf[r], run[r].token, d)
                            ELSE MarkSideEffectStarted(e, WorkerOf[r])
          /\ run' = [run EXCEPT ![r].marked = TRUE]
       \/ ~StillHeld(r, d) /\ Raises(r) /\ UNCHANGED storeVars
    /\ UNCHANGED <<effects, unsure>>

\* The attempt called out; what an attempt of an earlier epoch does is past it.
Logged(log, r) ==
    IF run[r].era = epoch[run[r].ev]
    THEN [log EXCEPT ![run[r].ev] = @ \cup {run[r].token}] ELSE log

\* An external call behind the mark alone.
CallBare(r) ==
    /\ Working(r)
    /\ run[r].marked
    /\ run[r].calls < MaxCalls
    /\ run' = [run EXCEPT ![r].pc = "bare", ![r].calls = @ + 1]
    /\ effects' = Logged(effects, r)
    /\ UNCHANGED <<storeVars, unsure>>

\* An external call inside current_event_effect of a fenced job.
CallBracketed(r, d) ==
    LET e == run[r].ev IN
    /\ Working(r)
    /\ IsFenced(e)
    /\ run[r].calls < MaxCalls
    /\ \/ /\ BeginEffect(e, WorkerOf[r], run[r].token, d)
          /\ run' = [run EXCEPT ![r].pc = "bracket", ![r].calls = @ + 1,
                                ![r].marked = TRUE]
          /\ effects' = Logged(effects, r)
          /\ unsure' = Logged(unsure, r)
       \/ /\ ~StillHeld(r, d)
          /\ Raises(r)
          /\ UNCHANGED <<storeVars, effects, unsure>>

BareReturns(r) ==
    /\ run[r].pc = "bare"
    /\ Goto(r, "active") \/ Raises(r)
    /\ UNCHANGED <<storeVars, effects, unsure>>

\* The call succeeded; end_effect may still find the lease gone, or be cancelled.
BracketReturns(r, d) ==
    LET e == run[r].ev IN
    /\ run[r].pc = "bracket"
    /\ \/ /\ EndEffect(e, WorkerOf[r], run[r].token, FALSE, d)
          /\ Goto(r, "active")
          /\ unsure' = IF run[r].era = epoch[e]
                       THEN [unsure EXCEPT ![e] = @ \ {run[r].token}] ELSE unsure
       \/ /\ run[r].doomed \/ ~StillHeld(r, d)
          /\ Raises(r)
          /\ UNCHANGED <<storeVars, unsure>>
    /\ UNCHANGED effects

\* The call raised or was cancelled: its outcome is uncertain.
BracketRaises(r, d) ==
    LET e == run[r].ev IN
    /\ run[r].pc = "bracket"
    /\ \/ EndEffect(e, WorkerOf[r], run[r].token, TRUE, d)
       \/ ~StillHeld(r, d) /\ UNCHANGED storeVars
    /\ Raises(r)
    /\ UNCHANGED <<effects, unsure>>

\* event_checkpoint raises EventSuperseded, once.
Checkpoint(r) ==
    /\ Working(r)
    /\ run[r].cancel
    /\ ~run[r].exit
    /\ run' = [run EXCEPT ![r].exit = TRUE]
    /\ UNCHANGED <<storeVars, effects, unsure>>

HandlerReturns(r) ==
    /\ Working(r)
    /\ Goto(r, "done")
    /\ UNCHANGED <<storeVars, effects, unsure>>

HandlerRaises(r) ==
    /\ run[r].pc = "active"
    /\ Goto(r, "failed")
    /\ UNCHANGED <<storeVars, effects, unsure>>

-----------------------------------------------------------------------------
(* Settling *)

Delay(e) == LET wait == BackoffBase * 2 ^ (jobs[e].attempt - 1) IN
            IF wait \in 0..BackoffMax THEN wait ELSE BackoffMax

SettleReturned(r, d) ==
    LET e == run[r].ev IN
    /\ run[r].pc = "done"
    /\ IF IsFenced(e) THEN FinishFenced(e, WorkerOf[r], run[r].token, d)
                      ELSE Complete(e, WorkerOf[r], d)

SettleSuperseded(r, d) ==
    /\ run[r].pc = "failed" /\ run[r].exit /\ ~run[r].doomed
    /\ FinishFenced(run[r].ev, WorkerOf[r], run[r].token, d)

SettleFailure(r, d) ==
    LET e == run[r].ev IN
    /\ run[r].pc = "failed" /\ (run[r].exit => run[r].doomed)
    /\ IF IsFenced(e) THEN FailFenced(e, WorkerOf[r], run[r].token, Delay(e), d)
       ELSE IF run[r].marked THEN MarkUnknown(e, WorkerOf[r], d)
       ELSE Retry(e, WorkerOf[r], Delay(e), d)

\* The store refuses: the lease is gone, and run_once raises.
SettleRefused(r, d) ==
    /\ run[r].pc \in {"done", "failed"}
    /\ ~StillHeld(r, d)
    /\ UNCHANGED storeVars

Settle(r, d) ==
    /\ \/ SettleReturned(r, d) \/ SettleSuperseded(r, d)
       \/ SettleFailure(r, d)  \/ SettleRefused(r, d)
    /\ GiveUp(r)
    /\ UNCHANGED <<effects, unsure>>

-----------------------------------------------------------------------------
(* What happens around the runners *)

\* The process dies, or run_once is cancelled while it settles.
Crash(r) ==
    /\ run[r].pc # "idle"
    /\ GiveUp(r)
    /\ UNCHANGED <<storeVars, effects, unsure>>

\* Deliveries and operators; a new epoch has no effects yet.
Outside(e, d) ==
    /\ Receive(e, d) \/ Operator(e, d)
    /\ effects' = [f \in Event |-> IF epoch'[f] = epoch[f] THEN effects[f] ELSE {}]
    /\ unsure'  = [f \in Event |-> IF epoch'[f] = epoch[f] THEN unsure[f] ELSE {}]
    /\ UNCHANGED run

Clock == Tick /\ UNCHANGED runnerVars

Start(r, d)   == StartNothing(r, d) \/ \E e \in Event : StartJob(r, e, d)
CallEnds(r, d) == BareReturns(r) \/ BracketReturns(r, d) \/ BracketRaises(r, d)
HandlerEnds(r) == HandlerReturns(r) \/ HandlerRaises(r)

Act(r, d) ==
    \/ Mark(r, d) \/ CallBare(r) \/ CallBracketed(r, d) \/ Checkpoint(r)

Beside(r, d) ==
    \/ Heartbeat(r, d) \/ WatchInterrupt(r, d) \/ LeaseLost(r, d) \/ Shutdown(r)

Init ==
    /\ StoreInit
    /\ run = [r \in Runner |-> Idle]
    /\ effects = [e \in Event |-> {}]
    /\ unsure = [e \in Event |-> {}]

Next ==
    \/ Clock
    \/ \E d \in Lags :
         \/ \E e \in Event : Outside(e, d)
         \/ \E r \in Runner : Start(r, d) \/ Precheck(r, d) \/ Act(r, d) \/ CallEnds(r, d)
                                \/ Beside(r, d) \/ Settle(r, d)
    \/ \E r \in Runner : HandlerEnds(r) \/ Crash(r)

Spec == Init /\ [][Next]_vars

\* A host polls for ever, external calls end (they carry timeouts), handlers
\* end, and an ended handler is settled.  Nothing makes a crash, a shutdown, a
\* delivery or an operator happen, and nothing keeps crashes from recurring.
Fairness ==
    /\ WF_vars(Clock)
    /\ \A r \in Runner :
          /\ WF_vars(\E d \in Lags : Start(r, d))
          /\ WF_vars(\E d \in Lags : Precheck(r, d))
          /\ WF_vars(\E d \in Lags : CallEnds(r, d))
          /\ WF_vars(HandlerEnds(r))
          /\ WF_vars(\E d \in Lags : Settle(r, d))

FairSpec == Spec /\ Fairness

-----------------------------------------------------------------------------
(* Properties *)

\* Between two decisions of an operator at most one attempt at an event ever
\* calls out, whatever leases expire, workers crash or deliveries repeat
\* ("side_effect_started" and UNKNOWN of the store, mark before call); an event
\* that may still be claimed, or that gave up as FAILED, has called out in none.
AtMostOneEffectfulAttempt ==
    \A e \in Event :
        /\ Cardinality(effects[e]) <= 1
        /\ jobs[e].status \in Waiting \cup {"failed"} => effects[e] = {}

\* A fenced job is COMPLETED only when every bracketed call of this epoch is
\* known to have succeeded; a doubt about any of them leaves it UNKNOWN.
CompletedIsCertain ==
    \A e \in Event : IsFenced(e) /\ jobs[e].status = "completed" => unsure[e] = {}

\* While its lease lasts, a handler told to stop was told so because of the
\* message that is next in its lane now: the verdict of should_interrupt is
\* cached in the cancellation event and never goes stale.
InterruptIsCurrent ==
    \A r \in Runner : run[r].cancel /\ Holds(run[r].ev, WorkerOf[r], run[r].token, 0)
                          => SuccessorIsMessage(run[r].ev)

\* Two runs of one lane are never inside external calls together, except a
\* run whose event an operator has since requeued or that was purged.
CallsSerialPerLane ==
    \A r, s \in Runner :
        /\ run[r].pc \in {"bare", "bracket"} /\ run[s].pc \in {"bare", "bracket"}
        /\ run[r].era = epoch[run[r].ev] /\ run[s].era = epoch[run[s].ev]
        /\ LaneOf[run[r].ev] = LaneOf[run[s].ev]
        => r = s

\* A job leaves "running" through the run that holds its newest token, or
\* because its lease ran out: no late or lost worker settles another's attempt.
SettledByHolder ==
    [][\A e \in Event : jobs[e].status = "running" /\ jobs'[e].status # "running" =>
          \/ jobs[e].lease <= 0
          \/ \E r \in Runner : /\ run[r].ev = e /\ run[r].token = jobs[e].token
                              /\ run'[r] = Idle]_vars

\* Every accepted job is settled in the end, or sits behind a job of its lane
\* that waits for an operator - although workers may crash for ever.
Settles ==
    \A e \in Event :
        jobs[e].status \in Waiting \cup {"running"} ~>
            \/ jobs[e].status \notin Waiting \cup {"running"}
            \/ \E f \in Event : /\ LaneOf[f] = LaneOf[e]
                                 /\ jobs[f].status \in {"failed", "unknown"}
                                 /\ jobs[f].seq < jobs[e].seq

=============================================================================
