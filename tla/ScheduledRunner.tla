--------------------------- MODULE ScheduledRunner ---------------------------
(***************************************************************************)
(* ScheduledTaskRunner over the store of ScheduledStore, the agent turn it *)
(* executes (loop.py, ScheduledAgentAdapter) and the callbacks of the      *)
(* owner that take a waiting run over (approval.py, scheduled_policy.py).  *)
(*                                                                         *)
(* run_once reads the clock at its start and uses that reading after       *)
(* awaiting expiry callbacks and timezone lookups.  Approvals and          *)
(* authorizations follow the same protocol with a run and are one kind of  *)
(* ask here.  A turn may use one tool before it asks or ends.              *)
(***************************************************************************)
EXTENDS ScheduledStore

CONSTANTS
    Runner,       \* scheduler workers; the guide asks for one
    Callback,     \* concurrent handlers of card clicks
    NoRun,        \* a hand that works on no run
    Bounds        \* bounds of the histories explored, one of which each behaviour keeps to

ASSUME RunnerAssumption ==
    /\ Runner \cap Callback = {}
    /\ NoRun \notin RunId
    /\ Bounds \subseteq [kinds: SUBSET {"once", "interval", "calendar"}, turns: [1..MaxRuns -> 1..MaxTurns],
                          crashes: Nat, stops: BOOLEAN]

VARIABLES
    hand,      \* [Runner \cup Callback -> HandState]
    thread,    \* runs with a tool thread that outlived its cancelled turn
    limit,     \* the bounds: kinds of schedules, leases of the n-th run of a task, processes that
               \* may still die, or iterations raise, and whether the owner stops a task
    told       \* history: [RunId \X Text -> 0..2], notices that reached the chat

runnerVars == <<task, run, hand, thread, limit, told>>

-----------------------------------------------------------------------------
Hand == Runner \cup Callback

\* What ScheduledAgentAdapter.notify sends; "nothing" sends no message.
Text == {"nothing", "missed", "skipped_overlap", "unknown", "expired"}

\* The steps of a turn; a callback first decides and runs the confirmed tool.
Turning == {"turn", "acting", "acted", "asked", "raised"}
Working == Turning \cup {"decide", "claimed", "writing"}

HandState == [pc: Working \cup {"idle", "waits", "expire", "claim", "notify", "sending", "record"},
              run: RunId \cup {NoRun}, token: 0..MaxTurns,
              todo: SUBSET (RunId \X (0..MaxTurns)), age: 0..MaxLag,
              tell: Text, ticket: 0..2, sent: BOOLEAN]

Idle == [pc |-> "idle", run |-> NoRun, token |-> 0, todo |-> {}, age |-> 0,
         tell |-> "nothing", ticket |-> 0, sent |-> TRUE]

Goto(h, pc) == hand' = [hand EXCEPT ![h].pc = pc]
Done(h)     == hand' = [hand EXCEPT ![h] = Idle]

\* run_once's reading of the clock.
Now(r) == -hand[r].age

Holds(h) == Fenced(hand[h].run, hand[h].token)

SetAsk(q, state) == run' = [run EXCEPT ![q].ask = state]

\* The text for a run with this status and summary.
TextOf(status, why) == IF status \in Text THEN status
                       ELSE IF status = "failed" /\ why = "expired" THEN "expired" ELSE "nothing"

-----------------------------------------------------------------------------
(* run_once: notices owed, expired continuations, zones, then one due task *)

\* Expire leases and deliveries; pick a notice or list the expired waits.
Begin(r) ==
    /\ hand[r].pc = "idle"
    /\ run' = [q \in RunId |-> LapsedNotice(LapsedRun(run[q]))]
    /\ \/ \E q \in RunId :
             /\ Pending(run'[q])
             /\ hand' = [hand EXCEPT ![r] = [Idle EXCEPT !.pc = "notify", !.run = q,
                                                      !.tell = TextOf(run'[q].status, run'[q].why)]]
       \/ /\ \A q \in RunId : ~Pending(run'[q])
          /\ hand' = [hand EXCEPT ![r] = [Idle EXCEPT !.pc = "waits",
                         !.todo = {<<q, run[q].askOf>> : q \in {w \in RunId : WaitExpired(w)}}]]
    /\ UNCHANGED <<task, thread, limit, told>>

\* expire_if_pending on the ask that was listed, which may be gone by now.
Expiry(ask) ==
    LET q == ask[1] IN
    IF run[q].askOf # ask[2] \/ run[q].ask = "none" THEN "missing"
    ELSE IF run[q].ask # "awaiting" THEN run[q].ask
    ELSE IF run[q].wait = 0 THEN "expired" ELSE "not_due"

ExpireWait(r) ==
    /\ hand[r].pc = "waits"
    /\ \E ask \in hand[r].todo :
        LET q == ask[1]
            outcome == Expiry(ask)
            rest == [hand[r] EXCEPT !.todo = @ \ {ask}]
        IN  IF outcome \in {"not_due", "executing"}
            THEN hand' = [hand EXCEPT ![r] = rest] /\ UNCHANGED run
            ELSE /\ IF outcome = "expired" THEN SetAsk(q, "expired") ELSE UNCHANGED run
                 /\ hand' = [hand EXCEPT ![r] =
                        [rest EXCEPT !.pc = "expire", !.run = q,
                                     !.tell = IF outcome = "expired" THEN "expired" ELSE "unknown"]]
    /\ UNCHANGED <<task, thread, limit, told>>

\* finish_run(expected_status=awaiting); a conflict leaves the run to its callback.
SettleWait(r) ==
    /\ hand[r].pc = "expire"
    /\ LET q == hand[r].run
           expired == hand[r].tell = "expired"
       IN  \/ /\ run[q].status = "awaiting"
              /\ FinishWait(q, IF expired THEN "failed" ELSE "unknown")
              /\ hand' = [hand EXCEPT ![r] = [Idle EXCEPT !.pc = "notify", !.run = q, !.tell = hand[r].tell]]
           \/ /\ run[q].status # "awaiting"
              /\ hand' = [hand EXCEPT ![r].pc = "waits", ![r].run = NoRun, ![r].tell = "nothing"]
              /\ UNCHANGED run
    /\ UNCHANGED <<task, thread, limit, told>>

\* _refresh_timezones, with the reading of the clock taken before the lookups
Zones(r) ==
    /\ hand[r].pc = "waits" /\ hand[r].todo = {}
    /\ Goto(r, "claim")
    /\ (\E t \in Task : Rezone(t, Now(r))) \/ UNCHANGED storeVars
    /\ UNCHANGED <<thread, limit, told>>

Claim(r) ==
    /\ hand[r].pc = "claim"
    /\ \/ Due(Now(r)) = {} /\ Done(r) /\ UNCHANGED storeVars
       \/ \E t \in Task :
            LET q == <<t, Slot(t)>>
                status == ClaimStatus(t, Now(r))
            IN  /\ ClaimDue(t, Now(r))
                /\ hand' = [hand EXCEPT ![r] =
                     IF status = "running"
                     THEN [Idle EXCEPT !.pc = "turn", !.run = q, !.token = 1]
                     ELSE [Idle EXCEPT !.pc = "notify", !.run = q, !.tell = status]]
    /\ UNCHANGED <<thread, limit, told>>

-----------------------------------------------------------------------------
(* _deliver *)

Notify(r) ==
    /\ hand[r].pc = "notify"
    /\ LET q == hand[r].run IN
       \/ ClaimDelivery(q) /\ hand' = [hand EXCEPT ![r].pc = "sending", ![r].ticket = run'[q].ticket]
       \/ ~Pending(run[q]) /\ Done(r) /\ UNCHANGED run
    /\ UNCHANGED <<task, thread, limit, told>>

\* The notifier returns, or raises before or after the message reached the chat;
\* a run that ended as the owner saw it end needs no message.
Send(r) ==
    /\ hand[r].pc = "sending"
    /\ LET said == <<hand[r].run, hand[r].tell>> IN
       \/ hand[r].tell = "nothing" /\ Goto(r, "record") /\ UNCHANGED told
       \/ /\ hand[r].tell # "nothing"
          /\ \E reached, returned \in BOOLEAN :
                /\ returned => reached
                /\ hand' = [hand EXCEPT ![r].pc = "record", ![r].sent = returned]
                /\ told' = IF reached /\ told[said] < 2 THEN [told EXCEPT ![said] = @ + 1] ELSE told
    /\ UNCHANGED <<task, run, thread, limit>>

Record(r) ==
    /\ hand[r].pc = "record"
    /\ LET q == hand[r].run
           outcome == IF hand[r].sent THEN "delivered" ELSE "unknown"
       IN  RecordDelivery(q, hand[r].ticket, outcome)
             \/ (~Recordable(q, hand[r].ticket) /\ UNCHANGED run)
    /\ Done(r)
    /\ UNCHANGED <<task, thread, limit, told>>

-----------------------------------------------------------------------------
(* The turn of the agent, first or continued: one tool, one ask, the end *)

Act(h) ==
    /\ hand[h].pc = "turn" /\ Holds(h)
    /\ Goto(h, "acting")
    /\ UNCHANGED <<task, run, thread, limit, told>>

Acted(h) ==
    /\ hand[h].pc = "acting"
    /\ Goto(h, "acted")
    /\ UNCHANGED <<task, run, thread, limit, told>>

\* The approval and the wait are stored before the card is sent.
Ask(h) ==
    /\ hand[h].pc \in {"turn", "acted"} /\ hand[h].token < limit.turns[hand[h].run[2]]
    /\ RecordWait(hand[h].run, hand[h].token)
    /\ Goto(h, "asked")
    /\ UNCHANGED <<task, thread, limit, told>>

\* The card may have arrived: the run is frozen and the turn raises.
CardFails(h) ==
    /\ hand[h].pc = "asked"
    /\ IF Holds(h) THEN Finish(hand[h].run, "unknown") ELSE UNCHANGED run
    /\ Goto(h, "raised")
    /\ UNCHANGED <<task, thread, limit, told>>

Outcomes(pc) == CASE pc = "asked" -> {"awaiting"}
                  [] pc = "raised" -> {"unknown"}
                  [] OTHER -> {"succeeded", "failed", "unknown"}

\* The outcome is stored under the lease; a run that was advanced is left alone.
End(h) ==
    /\ hand[h].pc \in Turning \ {"acting"}
    /\ \/ \E status \in Outcomes(hand[h].pc) :
            /\ Holds(h) /\ Finish(hand[h].run, status)
            /\ hand' = [hand EXCEPT ![h] =
                 IF h \in Runner
                 THEN [Idle EXCEPT !.pc = "notify", !.run = hand[h].run, !.tell = TextOf(status, "none")]
                 ELSE Idle]
       \/ /\ ~Holds(h) /\ Done(h)
          /\ IF h \in Runner THEN ExpireRuns ELSE UNCHANGED run
    /\ UNCHANGED <<task, thread, limit, told>>

Heartbeat(h) ==
    /\ hand[h].pc \in Working
    /\ Renew(hand[h].run, hand[h].token)
    /\ UNCHANGED <<task, hand, thread, limit, told>>

\* A synchronous tool goes on in its thread when its turn is cancelled.
Abandon(h) ==
    \/ thread' = thread
    \/ hand[h].pc \in {"acting", "writing"} /\ thread' = thread \cup {hand[h].run}

\* Mutant of Interrupted: the cancelled execution counts as failed.
InterruptedFails(r) ==
    /\ r \in Runner /\ hand[r].pc \in Turning
    /\ IF Holds(r) THEN Finish(hand[r].run, "failed") ELSE ExpireRuns
    /\ Done(r) /\ Abandon(r)
    /\ UNCHANGED <<task, limit, told>>

\* The heartbeat found the lease gone, or aclose cancels the worker.
Interrupted(r) ==
    /\ r \in Runner /\ hand[r].pc \in Turning
    /\ IF Holds(r) THEN Finish(hand[r].run, "unknown") ELSE ExpireRuns
    /\ Done(r) /\ Abandon(r)
    /\ UNCHANGED <<task, limit, told>>

-----------------------------------------------------------------------------
(* The owner decides: load_and_decide under scheduled_resume_lease *)

Click(c, q) ==
    /\ hand[c].pc = "idle" /\ run[q].ask # "none"
    /\ ClaimResume(q)
    /\ hand' = [hand EXCEPT ![c] = [Idle EXCEPT !.pc = "decide", !.run = q, !.token = run'[q].token]]
    /\ UNCHANGED <<task, thread, limit, told>>

\* claim: what the ask is worth now; a deadline that passed counts.
Claimable(q) == run[q].ask = "awaiting" /\ run[q].wait > 0

Settled(c, ask, status) ==
    /\ run' = [run EXCEPT ![hand[c].run] =
                IF Holds(c) THEN [@ EXCEPT !.ask = ask, !.status = status, !.left = 0, !.why = "none"]
                            ELSE [@ EXCEPT !.ask = ask]]
    /\ Done(c)

Decide(c) ==
    /\ hand[c].pc = "decide"
    /\ LET q == hand[c].run IN
       \/ \* approved
          Claimable(q) /\ SetAsk(q, "executing") /\ Goto(c, "claimed")
       \/ \* rejected: the turn goes on with the rejection
          Claimable(q) /\ SetAsk(q, "none") /\ Goto(c, "turn")
       \/ \* the history no longer holds the tool call
          Claimable(q) /\ Settled(c, "none", "failed")
       \/ /\ ~Claimable(q) /\ run[q].ask \in {"awaiting", "expired"}
          /\ Settled(c, "expired", "failed")
       \/ \* claimed before: the lease is left to lapse
          run[q].ask \in {"executing", "unknown"} /\ Done(c) /\ UNCHANGED run
    /\ UNCHANGED <<task, thread, limit, told>>

\* The lease is checked again where the tool is dispatched.
Dispatch(c) ==
    /\ hand[c].pc = "claimed"
    /\ LET q == hand[c].run IN
       IF Holds(c)
       THEN Goto(c, "writing") /\ UNCHANGED run
       ELSE SetAsk(q, "unknown") /\ Done(c)
    /\ UNCHANGED <<task, thread, limit, told>>

\* The tool returned, or raised and may have had its effect.
Written(c) ==
    /\ hand[c].pc = "writing"
    /\ \/ SetAsk(hand[c].run, "none") /\ Goto(c, "turn")
       \/ Settled(c, "unknown", "unknown")
    /\ UNCHANGED <<task, thread, limit, told>>

\* The lease heartbeat or aclose cancels the callback; only a turn that was
\* sending a card settles its run.
Cancelled(c) ==
    /\ c \in Callback /\ hand[c].pc \in Working
    /\ LET q == hand[c].run
           sending == hand[c].pc = "asked" /\ Holds(c)
       IN  \/ hand[c].pc = "claimed" /\ SetAsk(q, "awaiting")
           \/ hand[c].pc = "writing" /\ SetAsk(q, "unknown")
           \/ sending /\ Finish(q, "unknown")
           \/ hand[c].pc \notin {"claimed", "writing"} /\ UNCHANGED run
    /\ Done(c) /\ Abandon(c)
    /\ UNCHANGED <<task, limit, told>>

-----------------------------------------------------------------------------
(* Owner, operator, failures and time *)

Owner(t) ==
    /\ \/ Confirm(t) \/ Resume(t)
       \/ limit.stops /\ \E state \in {"paused", "deleted"} : Stop(t, state)
    /\ UNCHANGED <<hand, thread, limit, told>>

\* The operator has made sure that the old executor stopped.
Operator(q) ==
    /\ q \notin thread /\ \A h \in Hand : hand[h].pc \in Working => hand[h].run # q
    /\ Reconcile(q)
    /\ UNCHANGED <<hand, thread, limit, told>>

ThreadEnds(q) ==
    /\ q \in thread /\ thread' = thread \ {q}
    /\ UNCHANGED <<task, run, hand, limit, told>>

\* The process dies, or an iteration of the runner raises.
Crash(h) ==
    /\ limit.crashes > 0 /\ hand[h].pc # "idle"
    /\ Done(h) /\ limit' = [limit EXCEPT !.crashes = @ - 1]
    /\ UNCHANGED <<task, run, thread, told>>

\* Steps between run_once's reading of the clock and its last use.
Reading == {"waits", "expire", "claim"}

Tick ==
    /\ \A r \in Runner : hand[r].pc \in Reading => hand[r].age < MaxLag
    /\ hand' = [h \in Hand |-> [hand[h] EXCEPT !.age = IF hand[h].pc \in Reading THEN @ + 1 ELSE @]]
    /\ Later
    /\ UNCHANGED <<thread, limit, told>>

-----------------------------------------------------------------------------
Init ==
    /\ StoreInit
    /\ hand = [h \in Hand |-> Idle]
    /\ limit \in Bounds /\ \A t \in Task : task[t].kind \in limit.kinds
    /\ thread = {}
    /\ told = [n \in RunId \X Text |-> 0]

Poll(r) ==
    \/ Begin(r) \/ ExpireWait(r) \/ SettleWait(r) \/ Zones(r) \/ Claim(r)
    \/ Notify(r) \/ Send(r) \/ Record(r)

Turn(h) == Act(h) \/ Acted(h) \/ Ask(h) \/ CardFails(h) \/ End(h)

Answer(c) == Decide(c) \/ Dispatch(c) \/ Written(c)

Next ==
    \/ \E r \in Runner : Poll(r) \/ Interrupted(r)
    \/ \E h \in Hand : Turn(h) \/ Heartbeat(h) \/ Crash(h)
    \/ \E c \in Callback : Answer(c) \/ Cancelled(c) \/ \E q \in RunId : Click(c, q)
    \/ \E t \in Task : Owner(t)
    \/ \E q \in RunId : Operator(q) \/ ThreadEnds(q)
    \/ Tick

Spec == Init /\ [][Next]_runnerVars

\* The worker keeps polling and its calls return; turns, tools and answers to a
\* click end; time passes.  Nobody has to click, heartbeat or reconcile.
Fairness ==
    /\ \A r \in Runner : WF_runnerVars(Poll(r))
    /\ \A h \in Hand : WF_runnerVars(Turn(h))
    /\ \A c \in Callback : WF_runnerVars(Answer(c))
    /\ WF_runnerVars(Tick)

LiveSpec == Spec /\ Fairness

-----------------------------------------------------------------------------
(* Properties *)

\* Tool calls in flight for a task, those of cancelled turns included.
InFlight(t) ==
    {<<h, hand[h].run>> : h \in {x \in Hand : hand[x].pc \in {"acting", "writing"} /\ hand[x].run[1] = t}}
        \cup {<<NoRun, q>> : q \in {x \in thread : x[1] = t}}

\* No two executions of a task overlap: claim_due's overlap check, claim_resume,
\* the lease check at each dispatch and the frozen status of a lapsed run keep
\* a second tool call from starting while an earlier one may be going on.
TasksNeverOverlap == \A t \in Task : \A m, n \in InFlight(t) : m = n

\* A run with a reported outcome, and one that waits for its owner, has no tool
\* call still going on, not even in a thread that outlived its turn: whoever
\* settles a run (the turn, a cancelled worker, an expired wait, a click or the
\* operator) settles it as unknown where that could be.
SettledIsQuiet ==
    \A q \in RunId : run[q].status \in Ended \cup {"awaiting"} =>
        /\ q \notin thread
        /\ \A h \in Hand : hand[h].run = q => hand[h].pc \notin {"acting", "writing"}

\* A message is not sent twice for one run, whoever crashes between the send
\* and record_delivery (claim_delivery, expire_deliveries).
NoticeOnce == \A q \in RunId, x \in Text \ {"nothing"} : told[q, x] <= 1

\* A run frozen by a lapsed lease whose notice counts as delivered is one whose
\* owner was told (expire_runs owes the notice anew).  One worker only.
LossIsTold ==
    \A q \in RunId : run[q].status = "unknown" /\ run[q].why = "lapsed" /\ run[q].notice = "delivered"
                        => told[q, "unknown"] > 0

\* The next trigger lies after every recorded one, so that claim_due never
\* violates UNIQUE(task_id, scheduled_for) and blocks the worker for good.
TriggersAdvance == \A t \in Task : task[t].state = "active" => task[t].due > task[t].last

\* A run that waits for its owner does not wait forever.
WaitsEnd == \A q \in RunId : run[q].status = "awaiting" ~> run[q].status # "awaiting"
=============================================================================
