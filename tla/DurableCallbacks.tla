-------------------------- MODULE DurableCallbacks --------------------------
(***************************************************************************)
(* One tool call on its way through the durable callbacks of               *)
(* agent/durable_callbacks.py: the turn that suspends it (oauth.py,        *)
(* approval.py), the OAuth callbacks and card clicks that reach the HTTP   *)
(* routes (events/receiver.py, oauth_callback_handler), the job that       *)
(* continues it, and the rows of one SQLite database: jobs, receipts,      *)
(* tokens, authorizations and approvals.                                   *)
(*                                                                         *)
(* The jobs are those of DurableInbox in one lane, taken by one worker.    *)
(* Browser and platform may repeat a request; requests run side by side;   *)
(* the process may die between any two steps, with every request and       *)
(* attempt in it.  A model that is asked again names its tool once: a      *)
(* call is authorized and approved at most once.                           *)
(***************************************************************************)
EXTENDS Naturals, Sequences, SequencesExt

CONSTANTS
    Request,     \* HTTP requests: callbacks and clicks
    Configs      \* tools: the wait that comes first, is it a write, does it ask for scopes late

Kind == {"authorization", "approval"}

Job == {"event"} \cup Kind

Decision == {"approve", "reject"}

ASSUME CallbacksAssumption ==
    Configs \subseteq [first : Kind, write : BOOLEAN, late : BOOLEAN]

VARIABLES
    tool,       \* the configuration of this tool
    phase,      \* [Job -> Phase]: as in DurableInbox
    queue,      \* the lane of the session
    decision,   \* what the approval job decides
    receipt,    \* agent_oauth_receipts: "none", "exchanging", "completed"
    token,      \* the user's token is stored
    row,        \* [Kind -> RowState]: authorizations and approvals
    prior,      \* the authorization carries the approval it came from
    card,       \* the kinds whose card may have reached the user
    origin,     \* the history still holds the tool call
    worker,     \* [job, at]: the attempt of the worker
    request,    \* [Request -> [at, ...]]
    exchanged,  \* history: codes sent for exchange under the state of the card
    ran,        \* history: the jobs that dispatched the tool with an effect
    recorded,   \* history: the result is in the conversation
    accepted,   \* history: decisions a click was told are accepted
    requeued    \* history: jobs an operator put back

jobVars == <<phase, queue, decision>>
rowVars == <<row, prior, origin>>
historyVars == <<exchanged, ran, recorded, accepted, requeued>>
callbackVars == <<tool, jobVars, rowVars, receipt, token, card, worker, request, historyVars>>

-----------------------------------------------------------------------------
RowState == {"none", "awaiting", "executing", "unknown", "expired", "gone"}

NoAttempt == [job |-> "event", at |-> "idle"]

CallbacksInit ==
    /\ tool \in Configs
    /\ phase = [j \in Job |-> "none"] /\ queue = <<>> /\ decision = "none"
    /\ receipt = "none" /\ token = FALSE
    /\ row = [k \in Kind |-> "none"] /\ prior = FALSE /\ card = {} /\ origin = FALSE
    /\ worker = NoAttempt /\ request = [r \in Request |-> [at |-> "new"]]
    /\ exchanged = 0 /\ ran = <<>> /\ recorded = FALSE /\ accepted = {} /\ requeued = {}

Enqueue(j) ==
    /\ phase' = [phase EXCEPT ![j] = "waiting"]
    /\ queue' = Append(queue, j)

-----------------------------------------------------------------------------
(* Requests                                                                 *)

\* The event route answers 200 only after the job is stored; a repeated event
\* finds its job.
ReceiveEvent ==
    /\ phase["event"] = "none"
    /\ Enqueue("event")
    /\ UNCHANGED <<tool, decision, rowVars, receipt, token, card, worker, request, historyVars>>

At(r, where) == request' = [request EXCEPT ![r].at = where]

\* The receipt of a state is reserved once, while its request is pending.
Reserve == receipt = "none" /\ row["authorization"] = "awaiting"

\* The browser comes back with a code.
BeginAuthorization(r) ==
    /\ request[r].at = "new" /\ "authorization" \in card
    /\ IF Reserve THEN receipt' = "exchanging" /\ At(r, "exchange")
                  ELSE At(r, "over") /\ UNCHANGED receipt
    /\ UNCHANGED <<tool, jobVars, rowVars, token, card, worker, historyVars>>

\* The code is spent, whether or not an answer and the right user come of it.
Exchange(r) ==
    /\ request[r].at = "exchange"
    /\ exchanged' = exchanged + 1
    /\ At(r, "commit") \/ At(r, "over")
    /\ UNCHANGED <<tool, jobVars, rowVars, receipt, token, card, worker, ran, recorded, accepted, requeued>>

Committable ==
    receipt = "exchanging" /\ row["authorization"] = "awaiting" /\ phase["authorization"] = "none"

\* Token, continuation and receipt are one transaction.
Commit ==
    IF Committable
    THEN token' = TRUE /\ receipt' = "completed" /\ Enqueue("authorization")
    ELSE UNCHANGED <<token, receipt, phase, queue>>

CommitAuthorization(r) ==
    /\ request[r].at = "commit" /\ At(r, "over")
    /\ Commit
    /\ UNCHANGED <<tool, decision, rowVars, card, worker, historyVars>>

\* Mutant of Agrees: a later click is told it is accepted, whatever it says.
AgreesAlways(d) == TRUE

\* The job of the approval is new, or was accepted with the same decision.
Agrees(d) == phase["approval"] = "none" \/ decision = d

\* A click is accepted while the approval is pending, the first with its job.
DispatchApproval(r, d) ==
    /\ request[r].at = "new" /\ "approval" \in card /\ At(r, "over")
    /\ IF row["approval"] = "awaiting" /\ Agrees(d)
       THEN /\ accepted' = accepted \cup {d}
            /\ IF phase["approval"] = "none" THEN Enqueue("approval") /\ decision' = d
                                            ELSE UNCHANGED jobVars
       ELSE UNCHANGED <<jobVars, accepted>>
    /\ UNCHANGED <<tool, rowVars, receipt, token, card, worker, exchanged, ran, recorded, requeued>>

-----------------------------------------------------------------------------
(* The worker                                                               *)

Working(j, at) == worker = [job |-> j, at |-> at]

Goto(at) == worker' = [worker EXCEPT !.at = at]

Row(k, state) == row' = [row EXCEPT ![k] = state]

\* The job is completed and leaves its lane.
Finish ==
    /\ phase' = [phase EXCEPT ![worker.job] = "done"]
    /\ queue' = Tail(queue)
    /\ worker' = NoAttempt

\* An exception after the effect, or the last attempt: the job waits for an operator.
Freeze ==
    /\ phase' = [phase EXCEPT ![worker.job] = "stuck"]
    /\ worker' = NoAttempt
    /\ UNCHANGED queue

Take ==
    /\ worker = NoAttempt /\ queue # <<>> /\ phase[Head(queue)] = "waiting"
    /\ phase' = [phase EXCEPT ![Head(queue)] = "working"]
    /\ worker' = [job |-> Head(queue), at |-> "start"]
    /\ UNCHANGED <<tool, queue, decision, rowVars, receipt, token, card, request, historyVars>>

\* Nothing is done yet: a failed attempt is repeated, until there are no more.
FailEarly ==
    /\ worker.at = "start"
    /\ \E state \in {"waiting", "stuck"} : phase' = [phase EXCEPT ![worker.job] = state]
    /\ worker' = NoAttempt
    /\ UNCHANGED <<tool, queue, decision, rowVars, receipt, token, card, request, historyVars>>

\* Mutant of Effective: the attempt is not marked.
NotMarked == UNCHANGED phase

\* mark_current_event_side_effect_started
Effective == phase' = [phase EXCEPT ![worker.job] = "effective"]

\* The turn of the event: the batch of the model is recorded, and the call waits for
\* the authorization or the approval it needs first.
Turn ==
    /\ Working("event", "start")
    /\ Effective
    /\ IF row[tool.first] = "none"
       THEN origin' = TRUE /\ Row(tool.first, "awaiting") /\ Goto("send")
       ELSE UNCHANGED <<origin, row>> /\ Goto("answer")
    /\ UNCHANGED <<tool, queue, decision, prior, receipt, token, card, request, historyVars>>

\* The kind an attempt asks for.
Asked ==
    CASE worker.job = "event"         -> tool.first
      [] worker.job = "authorization" -> "approval"
      [] worker.job = "approval"      -> "authorization"

\* The card of a pending row: it may reach the user although the call fails.
SendCard ==
    /\ worker.at = "send"
    /\ \/ card' = card \cup {Asked} /\ Goto("sent")
       \/ card' \in {card, card \cup {Asked}} /\ Goto("cancel")
    /\ UNCHANGED <<tool, jobVars, rowVars, receipt, token, request, historyVars>>

\* Mutant of Claimable: a row left by an attempt that died is taken up again.
ClaimableAgain(k) == row[k] \in {"awaiting", "executing"}

Claimable(k) == row[k] = "awaiting"

\* A request whose card failed is claimed and dropped; the call ends with an error.
Cancel ==
    /\ worker.at = "cancel"
    /\ IF Claimable(Asked) THEN Row(Asked, "gone") ELSE UNCHANGED row
    /\ Goto("failed")
    /\ UNCHANGED <<tool, jobVars, prior, origin, receipt, token, card, request, historyVars>>

\* What is left of an attempt whose call is settled: the rest of the turn, and the
\* row of an authorization that asked for an approval.
Answer ==
    /\ worker.at \in {"answer", "sent", "failed"}
    /\ IF worker.job = "authorization" THEN Row("authorization", "gone") ELSE UNCHANGED row
    /\ Finish
    /\ UNCHANGED <<tool, decision, prior, origin, receipt, token, card, request, historyVars>>

\* A continuation without its row is over; else it is marked before it touches the row.
Resume ==
    /\ worker.job \in Kind /\ worker.at = "start"
    /\ IF row[worker.job] \in {"none", "gone"}
       THEN Finish
       ELSE Effective /\ Goto("claim") /\ UNCHANGED queue
    /\ UNCHANGED <<tool, decision, rowVars, receipt, token, card, request, historyVars>>

\* Mutant of NeedsApproval: who authorized has consented.
NeedsNoApproval == FALSE

\* A write that was not approved before it was authorized.
NeedsApproval == worker.job = "authorization" /\ tool.write /\ ~prior

Rejected == worker.job = "approval" /\ decision = "reject"

\* The row is claimed.  A call that is gone from the history, or rejected, ends here;
\* an expired row too; a row somebody else claimed is left to an operator.
Claim ==
    /\ worker.at = "claim"
    /\ LET k == worker.job IN
       \/ /\ Claimable(k)
          /\ IF ~origin \/ Rejected THEN Row(k, "gone") /\ Goto("answer")
             ELSE Row(k, "executing") /\ Goto(IF NeedsApproval THEN "ask" ELSE "tool")
          /\ UNCHANGED jobVars
       \/ row[k] = "expired" /\ Row(k, "gone") /\ Goto("answer") /\ UNCHANGED jobVars
       \/ ~Claimable(k) /\ row[k] \in {"executing", "unknown"} /\ Freeze /\ UNCHANGED <<row, decision>>
    /\ UNCHANGED <<tool, prior, origin, receipt, token, card, request, historyVars>>

\* An authorized write asks for its approval.
Ask ==
    /\ worker.at = "ask"
    /\ Row("approval", "awaiting") /\ Goto("send")
    /\ UNCHANGED <<tool, jobVars, prior, origin, receipt, token, card, request, historyVars>>

NeedsToken == tool.late /\ ~token

\* registry.dispatch: an effect and its result, a refusal that names scopes, or an
\* exception, with an effect or without, after which the row is frozen.
Dispatch ==
    /\ worker.at = "tool"
    /\ \/ /\ NeedsToken /\ worker.job = "approval" /\ row["authorization"] = "none"
          /\ row' = [row EXCEPT !["approval"] = "gone", !["authorization"] = "awaiting"]
          /\ prior' = TRUE /\ Goto("send")
          /\ UNCHANGED <<jobVars, ran>>
       \/ /\ ~NeedsToken
          /\ ran' = Append(ran, worker.job)
          /\ Goto("result")
          /\ UNCHANGED <<jobVars, row, prior>>
       \/ /\ ran' \in {ran} \cup IF NeedsToken THEN {} ELSE {Append(ran, worker.job)}
          /\ Row(worker.job, "unknown") /\ Freeze
          /\ UNCHANGED <<decision, prior>>
    /\ UNCHANGED <<tool, origin, receipt, token, card, request, exchanged, recorded, accepted, requeued>>

\* An approval is completed before its result is in the history, an authorization
\* after it, and after the rest of the turn.
Record ==
    /\ worker.at = "result"
    /\ IF worker.job = "approval" /\ row["approval"] = "executing"
       THEN Row("approval", "gone") /\ UNCHANGED <<worker, recorded>>
       ELSE recorded' = TRUE /\ Goto("answer") /\ UNCHANGED row
    /\ UNCHANGED <<tool, jobVars, prior, origin, receipt, token, card, request, exchanged, ran, accepted, requeued>>

\* Any other step may fail: an authorization is frozen with its job, claimed or not.
FailLate ==
    /\ worker # NoAttempt /\ worker.at # "start"
    /\ IF worker.job = "authorization" /\ row["authorization"] \notin {"none", "gone"}
       THEN Row("authorization", "unknown") ELSE UNCHANGED row
    /\ Freeze
    /\ UNCHANGED <<tool, decision, prior, origin, receipt, token, card, request, historyVars>>

-----------------------------------------------------------------------------
(* The process, the user and the operator                                   *)

\* Mutant of AfterCrash: a marked attempt is repeated.
AfterCrashRetried(p) == IF p \in {"working", "effective"} THEN "waiting" ELSE p

\* The lease of a dead attempt runs out.
AfterCrash(p) == CASE p = "working" -> "waiting" [] p = "effective" -> "stuck" [] OTHER -> p

Crash ==
    /\ phase' = [j \in Job |-> AfterCrash(phase[j])]
    /\ worker' = NoAttempt
    /\ request' = [r \in Request |-> IF request[r].at = "new" THEN request[r] ELSE [at |-> "over"]]
    /\ UNCHANGED <<tool, queue, decision, rowVars, receipt, token, card, historyVars>>

Expire(k) ==
    /\ row[k] = "awaiting" /\ Row(k, "expired")
    /\ UNCHANGED <<tool, jobVars, prior, origin, receipt, token, card, worker, request, historyVars>>

\* /clear, or another turn's limit, drops the call from the history.
Clear ==
    /\ origin /\ worker = NoAttempt /\ origin' = FALSE
    /\ UNCHANGED <<tool, jobVars, row, prior, receipt, token, card, worker, request, historyVars>>

Requeue(j) ==
    /\ phase[j] = "stuck"
    /\ phase' = [phase EXCEPT ![j] = "waiting"]
    /\ requeued' = requeued \cup {j}
    /\ UNCHANGED <<tool, queue, decision, rowVars, receipt, token, card, worker, request, exchanged, ran, recorded, accepted>>

-----------------------------------------------------------------------------
RequestStep ==
    \/ ReceiveEvent
    \/ \E r \in Request : \/ BeginAuthorization(r) \/ Exchange(r) \/ CommitAuthorization(r)
                           \/ \E d \in Decision : DispatchApproval(r, d)

WorkerStep ==
    \/ Take \/ FailEarly \/ Turn \/ SendCard \/ Cancel \/ Answer \/ Resume \/ Claim \/ Ask
    \/ Dispatch \/ Record \/ FailLate

CallbacksNext ==
    \/ RequestStep \/ WorkerStep \/ Crash \/ Clear
    \/ \E k \in Kind : Expire(k)
    \/ \E j \in Job : Requeue(j)

CallbacksSpec == CallbacksInit /\ [][CallbacksNext]_callbackVars

-----------------------------------------------------------------------------
\* Whatever is repeated, dies or is put back, the tool has its effect once, and no
\* code is exchanged twice under one state.
RanOnce == Len(ran) <= 1 /\ exchanged <= 1

\* The decision that was accepted is the only one anybody was told, and a write has
\* its effect only after "approve", whether the authorization came first or last.
RunsAsDecided ==
    /\ accepted \subseteq {decision}
    /\ ran # <<>> /\ (tool.write \/ Last(ran) = "approval") => decision = "approve"

\* A continuation whose tool had its effect is not completed without the result in
\* the conversation: what a crash leaves behind is not taken for a request that
\* is over (approval.py:937).
DoneIsRecorded ==
    \A j \in ToSet(ran) : phase[j] = "done" /\ j \notin requeued => recorded

\* The jobs before j in the queue.
Before(j) == {queue[m] : m \in {i \in DOMAIN queue : \E n \in DOMAIN queue : i < n /\ queue[n] = j}}

Inbox == INSTANCE DurableInbox WITH
    Event <- Job, LaneOf <- [j \in Job |-> "session"],
    ahead <- [j \in Job |-> Before(j)]

\* The callbacks see no other inbox than the one the job store implements.
UsesInbox == Inbox!InboxSpec

=============================================================================
