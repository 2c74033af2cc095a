---------------------------- MODULE AgentTurns ----------------------------
(***************************************************************************)
(* The turns of one session of an AgentEngine (agent/loop.py, _flow.py,    *)
(* approval.py, oauth.py, summarization.py) over a session store that      *)
(* outlives the process: messages and resumed waits take the session lock  *)
(* in order, a newer private message cancels the one before it, the model  *)
(* answers or asks for a batch of tool calls, a call that needs consent    *)
(* suspends its turn, and the process may die between any two steps.       *)
(*                                                                         *)
(* A wait is an approval or an authorization: what they do to the history  *)
(* is the same.  A message of several parts is one entry per part.  The    *)
(* in-memory history of a turn is what the store holds, as no step lies    *)
(* between the two.  max_messages is 0.                                    *)
(***************************************************************************)
EXTENDS Naturals, Sequences, FiniteSetsExt, SequencesExt

CONSTANTS
    Message,     \* message events that are no commands
    CallId,      \* ids a model gives its calls
    Menu,        \* batches a model may ask for: sequences of [id, asks]
    Keep,        \* summarize_keep_recent
    Scenarios    \* chat, commands sent, and bounds: batches of all turns, resumes, deaths

\* The calls of one batch have ids of their own: whatever looks for a call asks for its id.
ASSUME TurnsAssumption ==
    /\ Keep \in Nat
    /\ Menu \subseteq Seq([id : CallId, asks : BOOLEAN])
    /\ \A calls \in Menu : \A m, n \in DOMAIN calls : calls[m].id = calls[n].id => m = n
    /\ Scenarios \subseteq [private : BOOLEAN, commands : SUBSET {"clear", "compact"},
                             batches : Nat, clicks : Nat, crashes : Nat]

VARIABLES
    scenario,    \* the scenario of this behaviour
    history,     \* messages of the session store
    batches,     \* [continuation id -> calls]: what the model asked for
    wait,        \* rows of the approval store: [Call -> state], absent calls have none
    cards,       \* calls whose card may have reached the user
    tasks,       \* the session lock: its holder, then those that wait for it
    turn,        \* [at, batch, todo]: position of the holder
    cancelled,   \* a newer message cancelled the holder
    undone,      \* messages to deliver: new, or lost with the process
    clicks, crashes,
    ran,         \* history: calls that had their effect
    ranAgain,    \* history: a call had its effect twice
    torn         \* history: a wait was resumed over calls without a result

storeVars == <<history, batches, wait, cards>>
lockVars == <<tasks, turn, cancelled>>
boundVars == <<undone, clicks, crashes>>
effectVars == <<ran, ranAgain>>
turnVars == <<scenario, storeVars, lockVars, boundVars, effectVars, torn>>

-----------------------------------------------------------------------------
(* The history                                                              *)

User(m) == [role |-> "user", of |-> m]

Batch(c) == [role |-> "assistant", of |-> c]

\* A result of call id of batch c; "note" says that it was not performed, or that
\* nobody knows.
Result(c, id, is) == [role |-> "tool", of |-> c, id |-> id, is |-> is]

Answer == [role |-> "answer"]

Summary == [role |-> "summary"]

Ids(c) == {batches[c][n].id : n \in DOMAIN batches[c]}

\* _originating_tool_messages: the batch and the results that follow it directly.
Slice(h, c) ==
    {i \in DOMAIN h : \E s \in 1..i : h[s] = Batch(c) /\ \A j \in s+1..i : h[j].role = "tool"}

ResultsOf(h, c, id) == {i \in Slice(h, c) : h[i].role = "tool" /\ h[i].id = id}

Answered(h, c, id) == ResultsOf(h, c, id) # {}

\* _record_tool_result_part: in place of the first result of the call, else at the end.
Record(h, c, id, is) ==
    LET found == ResultsOf(h, c, id) IN
    IF found # {} THEN [h EXCEPT ![Min(found)] = Result(c, id, is)]
                  ELSE Append(h, Result(c, id, is))

\* A note for each call of c that has no result; they are parts of one message.
Notes(h, c) == SetToSeq({Result(c, id, "note") : id \in {id \in Ids(c) : ~Answered(h, c, id)}})

\* _mark_awaiting_tool_results: the notes, at the end.
Marked(h, c) == h \o Notes(h, c)

\* Mutant of Recovered: a batch left without results is not repaired.
NotRecovered(h) == h

\* _recover_interrupted_tool_calls: after the results of each batch, the notes it lacks.
Missing(h, i) ==
    LET ended == {c \in DOMAIN batches : Slice(h, c) # {} /\ i = Max(Slice(h, c))} IN
    IF ended = {} THEN <<>> ELSE Notes(h, Min(ended))

Recovered(h) == FlattenSeq([i \in DOMAIN h |-> <<h[i]>> \o Missing(h, i)])

\* The calls without a result in the first n messages, told apart by their ids alone.
Open(h, n) ==
    {id \in UNION {Ids(c) : c \in DOMAIN batches} :
        \E i \in 1..n : /\ h[i].role = "assistant" /\ id \in Ids(h[i].of)
                        /\ \A j \in i+1..n : h[j].role = "tool" => h[j].id # id}

\* Mutant of Boundary: the last Keep messages are kept, whatever they answer.
PlainBoundary(h) == Max({0, Len(h) - Keep})

\* The summary ends where every call before it has its result.
Boundary(h) == Max({n \in 0..Max({0, Len(h) - Keep}) : Open(h, n) = {}})

\* summarize_history, when it succeeds.
Compacted(h) ==
    IF Boundary(h) = 0 THEN h ELSE <<Summary>> \o SubSeq(h, Boundary(h) + 1, Len(h))

-----------------------------------------------------------------------------
(* The session lock                                                         *)

MessageTask(m) == [kind |-> "message", of |-> m]

ResumeTask(call) == [kind |-> "resume", of |-> call]

NoTurn == [at |-> "start", batch |-> 0, todo |-> <<>>]

TurnsInit ==
    /\ scenario \in Scenarios
    /\ history = <<>> /\ batches = <<>> /\ wait = << >> /\ cards = {}
    /\ tasks = <<>> /\ turn = NoTurn /\ cancelled = FALSE
    /\ undone = Message \cup scenario.commands /\ clicks = 0 /\ crashes = 0
    /\ ran = {} /\ ranAgain = FALSE /\ torn = FALSE

Holds(kind, at) == tasks # <<>> /\ Head(tasks).kind = kind /\ turn.at = at /\ ~cancelled

At(at) == tasks # <<>> /\ turn.at = at /\ ~cancelled

Goto(at) == turn' = [turn EXCEPT !.at = at]

\* The lock is released to the next in line.
Release == tasks' = Tail(tasks) /\ turn' = NoTurn /\ cancelled' = FALSE

\* The message turns that hold the lock or wait for it, by position.
Messages == {n \in DOMAIN tasks : tasks[n].kind = "message"}

\* run, up to the lock: the turn of the last private message is cancelled; one that
\* still waits for the lock is gone, with its message.
Deliver(m) ==
    /\ m \in undone
    /\ undone' = undone \ {m}
    /\ LET last == IF scenario.private /\ Messages # {} THEN Max(Messages) ELSE 0 IN
       /\ tasks' = Append(IF last > 1 THEN RemoveAt(tasks, last) ELSE tasks, MessageTask(m))
       /\ cancelled' = (cancelled \/ last = 1)
    /\ UNCHANGED <<scenario, storeVars, turn, clicks, crashes, effectVars, torn>>

\* A click, or a completed authorization, while the row waits.
Click(call) ==
    /\ call \in cards /\ wait[call] = "awaiting" /\ clicks < scenario.clicks
    /\ clicks' = clicks + 1
    /\ tasks' = Append(tasks, ResumeTask(call))
    /\ UNCHANGED <<scenario, storeVars, turn, cancelled, undone, crashes, effectVars, torn>>

-----------------------------------------------------------------------------
(* A turn of a message                                                      *)

\* A message that comes again after a crash is in the history already.
Recorded(h, m) == IF Contains(h, User(m)) THEN h ELSE Append(h, User(m))

\* run, under the lock; an idle session is cleared first.
Begin(m) ==
    /\ Holds("message", "start") /\ Head(tasks).of = m
    /\ \E h \in {history, <<>>} : history' = Recorded(Recovered(h), m)
    /\ Goto("loop")
    /\ UNCHANGED <<scenario, batches, wait, cards, tasks, cancelled, boundVars, effectVars, torn>>

\* /clear and /compact do not run the model and are not recorded.
RunCommand(command) ==
    /\ Holds("message", "start") /\ Head(tasks).of = command
    /\ history' = IF command = "clear" THEN <<>> ELSE Compacted(history)
    /\ Release
    /\ UNCHANGED <<scenario, batches, wait, cards, boundVars, effectVars, torn>>

\* _loop: above its threshold the history is summarized first.
EnterLoop ==
    /\ At("loop")
    /\ history' \in {history, Compacted(history)}
    /\ Goto("model")
    /\ UNCHANGED <<scenario, batches, wait, cards, tasks, cancelled, boundVars, effectVars, torn>>

\* The model asks for a batch of tool calls.
ModelCalls ==
    /\ At("model") /\ Len(batches) < scenario.batches
    /\ \E calls \in Menu :
         /\ batches' = Append(batches, calls)
         /\ history' = Append(history, Batch(Len(batches) + 1))
         /\ turn' = [at |-> "tools", batch |-> Len(batches) + 1, todo |-> calls]
    /\ UNCHANGED <<scenario, wait, cards, tasks, cancelled, boundVars, effectVars, torn>>

\* The model answers.
ModelAnswers ==
    /\ At("model")
    /\ history' = Append(history, Answer)
    /\ Release
    /\ UNCHANGED <<scenario, batches, wait, cards, boundVars, effectVars, torn>>

\* The model fails, or has been called max_iterations times: there is no answer.
ModelFails ==
    /\ At("model")
    /\ Release
    /\ UNCHANGED <<scenario, storeVars, boundVars, effectVars, torn>>

-----------------------------------------------------------------------------
(* _dispatch_tool_calls                                                     *)

Next1 == Head(turn.todo)

Current == <<turn.batch, Next1.id>>

Effect(call) == ran' = ran \cup {call} /\ ranAgain' = (ranAgain \/ call \in ran)

\* registry.dispatch of a call that needs no consent; one that fails may have had its
\* effect.
RunTool ==
    /\ At("tools") /\ turn.todo # <<>> /\ ~Next1.asks
    /\ Effect(Current)
    /\ Goto("result")
    /\ UNCHANGED <<scenario, storeVars, tasks, cancelled, boundVars, torn>>

\* The result, or the error, of the call.
RecordResult ==
    /\ At("result")
    /\ history' = Record(history, turn.batch, Next1.id, "done")
    /\ turn' = [turn EXCEPT !.at = "tools", !.todo = Tail(@)]
    /\ UNCHANGED <<scenario, batches, wait, cards, tasks, cancelled, boundVars, effectVars, torn>>

\* request_approval, request_authorization: the row, then its card.
Ask ==
    /\ At("tools") /\ turn.todo # <<>> /\ Next1.asks
    /\ wait' = [call \in DOMAIN wait \cup {Current} |->
                   IF call = Current THEN "awaiting" ELSE wait[call]]
    /\ Goto("send")
    /\ UNCHANGED <<scenario, history, batches, cards, tasks, cancelled, boundVars, effectVars, torn>>

SendCard ==
    /\ At("send")
    /\ cards' = cards \cup {Current}
    /\ Goto("suspend")
    /\ UNCHANGED <<scenario, history, batches, wait, tasks, cancelled, boundVars, effectVars, torn>>

\* The card failed, before or after it reached the user: the row is cancelled, and
\* the turn goes on with an error.
CardFails ==
    /\ At("send")
    /\ cards' \in {cards, cards \cup {Current}}
    /\ wait' = [wait EXCEPT ![Current] = "gone"]
    /\ Goto("result")
    /\ UNCHANGED <<scenario, history, batches, tasks, cancelled, boundVars, effectVars, torn>>

\* Every call of the batch gets a note, and the turn ends.
Suspend ==
    /\ At("suspend")
    /\ history' = Marked(history, turn.batch)
    /\ Release
    /\ UNCHANGED <<scenario, batches, wait, cards, boundVars, effectVars, torn>>

\* All calls have their results: back to the model, a resumed turn through _loop.
ToolsDone ==
    /\ At("tools") /\ turn.todo = <<>>
    /\ Goto(IF Head(tasks).kind = "message" THEN "model" ELSE "loop")
    /\ UNCHANGED <<scenario, storeVars, tasks, cancelled, boundVars, effectVars, torn>>

\* The holder learns that it was cancelled: a card on its way is withdrawn, and calls
\* without a result are marked as interrupted.
Interrupt ==
    /\ tasks # <<>> /\ cancelled
    /\ history' = IF turn.at \in {"tools", "result", "send", "suspend"} THEN Marked(history, turn.batch) ELSE history
    /\ wait' = IF turn.at = "send" THEN [wait EXCEPT ![Current] = "gone"] ELSE wait
    /\ Release
    /\ UNCHANGED <<scenario, batches, cards, boundVars, effectVars, torn>>

-----------------------------------------------------------------------------
(* A wait is resumed                                                        *)

\* Where a call stands in its batch.
Place(call) == SelectInSeq(batches[call[1]], LAMBDA c : c.id = call[2])

CallOf(call) == SubSeq(batches[call[1]], Place(call), Place(call))

\* Mutant of CallsAfter: the resumed call is among those that remain.
CallsFrom(call) == SubSeq(batches[call[1]], Place(call), Len(batches[call[1]]))

\* _tool_calls_after
CallsAfter(call) == SubSeq(batches[call[1]], Place(call) + 1, Len(batches[call[1]]))

Claimable(call) == wait[call] = "awaiting"

\* The batch of the call must still be in the history, and the row unclaimed.
Resume(call) ==
    /\ Holds("resume", "start") /\ Head(tasks).of = call
    /\ IF Contains(history, Batch(call[1])) /\ Claimable(call)
       THEN /\ wait' = [wait EXCEPT ![call] = "executing"]
            /\ turn' = [at |-> "decided", batch |-> call[1], todo |-> CallOf(call)]
            /\ torn' = (torn \/ Recovered(history) # history)
            /\ UNCHANGED <<tasks, cancelled>>
       ELSE /\ wait' = [wait EXCEPT ![call] = IF @ = "awaiting" THEN "gone" ELSE @]
            /\ Release /\ UNCHANGED torn
    /\ UNCHANGED <<scenario, history, batches, cards, boundVars, effectVars>>

\* An approved call is dispatched; a rejected one is as if it had had its effect.
Decide ==
    /\ At("decided")
    /\ Effect(Current)
    /\ Goto("complete")
    /\ UNCHANGED <<scenario, storeVars, tasks, cancelled, boundVars, torn>>

\* The row is over; the result takes the place of the note, and the calls after it
\* are dispatched.
Complete ==
    /\ At("complete")
    /\ wait' = [wait EXCEPT ![Current] = "gone"]
    /\ history' = Record(history, turn.batch, Next1.id, "done")
    /\ turn' = [turn EXCEPT !.at = "tools", !.todo = CallsAfter(Current)]
    /\ UNCHANGED <<scenario, batches, cards, tasks, cancelled, boundVars, effectVars, torn>>

-----------------------------------------------------------------------------
(* The process                                                              *)

\* The tasks are gone; messages among them may come again.
Crash ==
    /\ crashes < scenario.crashes
    /\ crashes' = crashes + 1
    /\ undone' = undone \cup {tasks[n].of : n \in Messages}
    /\ tasks' = <<>> /\ turn' = NoTurn /\ cancelled' = FALSE
    /\ UNCHANGED <<scenario, storeVars, clicks, effectVars, torn>>

MessageStep ==
    \/ \E m \in Message : Deliver(m) \/ Begin(m)
    \/ \E command \in scenario.commands : Deliver(command) \/ RunCommand(command)

ModelStep == EnterLoop \/ ModelCalls \/ ModelAnswers \/ ModelFails

ToolStep ==
    \/ RunTool \/ RecordResult \/ Ask \/ SendCard \/ CardFails \/ Suspend \/ ToolsDone \/ Interrupt

ResumeStep == Decide \/ Complete \/ \E call \in DOMAIN wait : Click(call) \/ Resume(call)

TurnsNext == MessageStep \/ ModelStep \/ ToolStep \/ ResumeStep \/ Crash

TurnsSpec == TurnsInit /\ [][TurnsNext]_turnVars

-----------------------------------------------------------------------------
InHistory == {c \in DOMAIN batches : Contains(history, Batch(c))}

AllAnswered == \A c \in InHistory : \A id \in Ids(c) : Answered(history, c, id)

\* A message turn never sends the model a tool call without its result, whatever
\* turns before it were suspended, cancelled or lost with the process.
MessageTurnsWellFormed == Holds("message", "model") => AllAnswered

\* A result stands behind the batch it belongs to, once per call, although ids come
\* again in other batches and waits are resumed late; summaries cut no batch from
\* its results.  (A wait resumed over calls without a result breaks this: turns_resume.)
ResultsInBatch ==
    ~torn => \A i, j \in DOMAIN history :
        history[i].role = "tool" =>
            /\ i \in Slice(history, history[i].of)
            /\ history[j].role = "tool" /\ history[j].of = history[i].of /\ history[j].id = history[i].id => i = j

\* No call has its effect twice and no message is in the history twice: not by repeated
\* clicks, resumes that go on with the rest of a batch, messages that come again, nor
\* after a crash.
NothingTwice ==
    /\ ~ranAgain
    /\ \A i, j \in DOMAIN history : history[i].role = "user" /\ history[i] = history[j] => i = j

\* "Keep history well-formed while suspended: every tool_use in this assistant turn
\* needs a tool_result, else a later turn sends malformed history to the model."
\* (loop.py:1151)  Any turn, that of a resumed wait included.
TurnsWellFormed == At("model") => AllAnswered

=============================================================================
