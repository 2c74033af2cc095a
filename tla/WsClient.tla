------------------------------ MODULE WsClient ------------------------------
(***************************************************************************)
(* The long connection of ws/client.py: the loop of start() with its       *)
(* handshake, connection, serving, drain and reconnect delay; fragments    *)
(* put together by _reassemble; one task per whole message that            *)
(* acknowledges and dispatches it (_handle_frame); the claim of            *)
(* events/idempotency.py that EventDispatcher.dispatch makes; aclose() as  *)
(* Agent.run_ws calls it from its signal handler.                          *)
(*                                                                         *)
(* The platform is external: it sends the fragments of a message in any    *)
(* order, sends a message again until it is acknowledged, and may close    *)
(* the connection or miss an ACK at any time.  Heartbeats are left out:    *)
(* they only keep the connection open.                                     *)
(***************************************************************************)
EXTENDS Naturals, FiniteSets, Sequences, SequencesExt

CONSTANTS
    Msg,             \* events and card actions the platform delivers
    Cards,           \* those of type card.action.trigger
    Fragments,       \* [Msg -> number of fragments]
    Task,            \* bound: messages handled at a time, 1 .. n
    Configs,         \* the clients to check and the bounds of each: see conf
    MaxPartial,      \* max_partial_messages
    ReconnectCount   \* ClientConfig.reconnect_count (never -1 here)

ASSUME WsAssumption ==
    /\ Cards \subseteq Msg
    /\ Fragments \in [Msg -> Nat \ {0}]
    /\ MaxPartial \in Nat \ {0}
    /\ ReconnectCount \in Nat
    /\ IsFiniteSet(Task)

VARIABLES
    run,         \* where start() is
    stopped,     \* _stopped and _stopped_event
    attempts,    \* reconnects of this start(), which nothing resets
    socket,      \* the websocket: "none", "open" or "closed"
    fragments,   \* _fragments in insertion order: <<[msg, chunks]>>
    task,        \* [Task -> the task of a whole message and its dispatch]
    conf,        \* mode: card_ack_timeout is "none", "zero" or "some" seconds; store: the seen
                 \* store is "sqlite", "memory" or "unclaimed" (seen and mark only); the
                 \* bounds due: times a message is sent, forgets: marks that expire, crashes
    seen,        \* messages with an unexpired mark
    sending,     \* [Msg -> fragments of the current delivery still to come]
    deliveries,  \* [Msg -> deliveries begun]
    acked,       \* messages whose ACK the platform has seen
    handled,     \* [Msg -> times its handlers ran]
    cut,         \* messages whose task was cancelled or killed before it was done
    forgotten,   \* [Msg -> marks that expired or died with the process]
    crashes

client == <<run, stopped, attempts, socket>>
server == <<sending, deliveries>>
history == <<handled, cut, forgotten, crashes>>
wsVars == <<client, fragments, task, conf, seen, server, acked, history>>

-----------------------------------------------------------------------------
Idle == [at |-> "done", work |-> "done", owner |-> "frame"]

Free(t) == task[t].at = "done" /\ task[t].work = "done"

WsInit ==
    /\ run = "handshake" /\ stopped = FALSE /\ attempts = 0 /\ socket = "none"
    /\ fragments = <<>> /\ task = [t \in Task |-> Idle]
    /\ conf \in Configs
    /\ seen = {} /\ acked = {} /\ cut = {} /\ crashes = 0
    /\ sending = [m \in Msg |-> {}] /\ deliveries = [m \in Msg |-> 0]
    /\ handled = [m \in Msg |-> 0] /\ forgotten = [m \in Msg |-> 0]

-----------------------------------------------------------------------------
(* start()                                                                  *)

\* Every failure and every end of a connection counts against the same budget.
Retry ==
    IF stopped \/ attempts >= ReconnectCount
    THEN run' = "ended" /\ UNCHANGED attempts
    ELSE run' = "backoff" /\ attempts' = attempts + 1

\* _await_or_stop gives up the operation when the stop comes first.
Interrupted == stopped

Handshake ==
    /\ run = "handshake"
    /\ \/ run' = "connect" /\ UNCHANGED attempts
       \/ Retry
       \/ run' = "ended" /\ UNCHANGED attempts
    /\ UNCHANGED <<stopped, socket, fragments, task, conf, seen, server, acked, history>>

\* The connection is opened outside _await_or_stop.
Connect ==
    /\ run = "connect"
    /\ \/ run' = "serving" /\ socket' = "open" /\ UNCHANGED attempts
       \/ Retry /\ UNCHANGED socket
    /\ UNCHANGED <<stopped, fragments, task, conf, seen, server, acked, history>>

Delay ==
    /\ run = "backoff"
    /\ run' = "handshake"
    /\ UNCHANGED <<stopped, attempts, socket, fragments, task, conf, seen, server, acked, history>>

GiveUp ==
    /\ run \in {"handshake", "backoff"} /\ Interrupted
    /\ run' = "ended"
    /\ UNCHANGED <<stopped, attempts, socket, fragments, task, conf, seen, server, acked, history>>

Held == run \in {"serving", "frames", "dispatches"}

\* The host's signal handlers are there while start() runs, and call aclose() once.
Signalled == ~stopped /\ run # "ended"

\* aclose(): the loop is told to end, and a connection being served is closed.
Stop ==
    /\ Signalled
    /\ stopped' = TRUE
    /\ socket' = IF Held THEN "closed" ELSE socket
    /\ UNCHANGED <<run, attempts, fragments, task, conf, seen, server, acked, history>>

\* recv() raises ConnectionClosed.
Disconnect ==
    /\ run = "serving" /\ socket = "closed"
    /\ run' = "frames"
    /\ sending' = [m \in Msg |-> {}]
    /\ UNCHANGED <<stopped, attempts, socket, fragments, task, conf, seen, deliveries, acked, history>>

FramesDone == \A t \in Task : task[t].at = "done"

DispatchesDone == \A t \in Task : task[t].owner = "background" => task[t].work = "done"

\* The connection is left: start() ends, or tries again.
Leave == Retry /\ socket' = "none"

\* First the tasks of the messages are waited for, then the detached dispatches.
Drain ==
    /\ \/ run = "frames" /\ FramesDone /\ run' = "dispatches" /\ UNCHANGED <<attempts, socket>>
       \/ run = "dispatches" /\ DispatchesDone /\ Leave
    /\ UNCHANGED <<stopped, fragments, task, conf, seen, server, acked, history>>

\* A cancelled task leaves its dispatch alone when the dispatch is shielded.
Cancelled(r) ==
    IF r.owner = "shield" /\ r.at # "done" THEN [r EXCEPT !.at = "done", !.owner = "orphan"]
    ELSE IF r.owner = "orphan" THEN r
    ELSE Idle

\* The drain budget is spent: what still runs is cancelled.
DrainDeadline ==
    /\ \/ run = "frames" /\ ~FramesDone
       \/ run = "dispatches" /\ ~DispatchesDone
    /\ LET Late == {t \in Task : ~Free(t) /\ Cancelled(task[t]) = Idle}
       IN cut' = cut \cup {task[t].msg : t \in Late}
    /\ task' = [t \in Task |-> Cancelled(task[t])]
    /\ Leave
    /\ UNCHANGED <<stopped, fragments, conf, seen, server, acked, handled, forgotten, crashes>>

-----------------------------------------------------------------------------
(* Fragments                                                                *)

Partial(m) == {i \in 1 .. Len(fragments) : fragments[i].msg = m}

Put(chunks, k, s) == [x \in DOMAIN chunks \cup {k} |-> IF x = k THEN s ELSE chunks[x]]

\* Mutant of Stored: fragments are numbered by their arrival.
StoredByArrival(chunks, s) == Put(chunks, Cardinality(DOMAIN chunks), s)

\* A fragment is kept under its own number, whose content is named after it.
Stored(chunks, s) == Put(chunks, s, s)

\* The entry of m, new at the end of the buffer, which drops its oldest when full.
Room(m) ==
    IF Partial(m) # {} THEN fragments
    ELSE Append(IF Len(fragments) >= MaxPartial THEN Tail(fragments) ELSE fragments,
                [msg |-> m, chunks |-> <<>>])

Whole(m) == 0 .. Fragments[m] - 1

\* The task of a whole message, its payload the chunks in their order.
Spawned(m, chunks) == [msg |-> m, payload |-> chunks, at |-> "new", work |-> "none", owner |-> "frame"]

Spawn(m, chunks) ==
    \E t \in {u \in Task : Free(u)} : task' = [task EXCEPT ![t] = Spawned(m, chunks)]

\* A data frame: the message is complete with it, or its entry waits for the rest.
Receive(m, s) ==
    /\ run = "serving" /\ socket = "open" /\ s \in sending[m]
    /\ \E t \in Task : Free(t)
    /\ sending' = [sending EXCEPT ![m] = @ \ {s}]
    /\ IF Fragments[m] = 1
       THEN Spawn(m, Stored(<<>>, 0)) /\ UNCHANGED fragments
       ELSE LET buffer == Room(m)
                i      == CHOOSE j \in 1 .. Len(buffer) : buffer[j].msg = m
                chunks == Stored(buffer[i].chunks, s)
            IN IF Cardinality(DOMAIN chunks) = Fragments[m]
               THEN Spawn(m, chunks) /\ fragments' = RemoveAt(buffer, i)
               ELSE UNCHANGED task /\ fragments' = [buffer EXCEPT ![i].chunks = chunks]
    /\ UNCHANGED <<client, conf, seen, deliveries, acked, history>>

-----------------------------------------------------------------------------
(* _handle_frame: acknowledge and dispatch                                  *)

Card(t) == task[t].msg \in Cards

\* Mutant of Refused: the stop is looked at once the ACK is out.
RefusedLate(at) == stopped /\ at = "acked"

\* After aclose() a message is neither acknowledged nor dispatched.
Refused(at) == stopped /\ at = "new"

\* A card action is dispatched for its result, which the ACK carries; any other
\* event, and any card with a zero timeout, is acknowledged first.
Start(t) ==
    /\ task[t].at = "new"
    /\ task' = [task EXCEPT ![t] =
           IF Refused("new") THEN Idle
           ELSE IF ~Card(t) \/ conf.mode = "zero" THEN [@ EXCEPT !.at = "ack"]
           ELSE [@ EXCEPT !.at = "waiting", !.work = "claim",
                          !.owner = IF conf.mode = "none" THEN "frame" ELSE "shield"]]
    /\ UNCHANGED <<client, fragments, conf, seen, server, acked, history>>

\* The handler outlives the ACK timeout and the frame answers without its result.
AckTimeout(t) ==
    /\ task[t].at = "waiting" /\ task[t].owner = "shield" /\ task[t].work # "done"
    /\ task' = [task EXCEPT ![t].at = "late"]
    /\ UNCHANGED <<client, fragments, conf, seen, server, acked, history>>

\* The ACK leaves on an open connection, and may be lost with it.
Sent(m) ==
    /\ socket = "open"
    /\ acked' \in {acked, acked \cup {m}}

\* What a task does once its ACK is sent.
AfterAck(r) ==
    CASE r.at = "ack" /\ Refused("acked") -> Idle
      [] r.at = "ack" /\ r.msg \in Cards -> [r EXCEPT !.at = "done", !.work = "claim", !.owner = "background"]
      [] r.at = "ack" -> [r EXCEPT !.at = "inline", !.work = "claim"]
      [] r.at = "late" -> [r EXCEPT !.at = "done", !.owner = "background"]
      [] r.at = "waiting" -> Idle

\* A failed send ends the task; a dispatch that outlived its timeout goes on alone.
AfterFailedAck(r) ==
    IF r.at = "late" THEN [r EXCEPT !.at = "done", !.owner = "orphan"] ELSE Idle

Ack(t) ==
    /\ \/ task[t].at \in {"ack", "late"}
       \/ task[t].at = "waiting" /\ task[t].work = "done"
    /\ \/ Sent(task[t].msg) /\ task' = [task EXCEPT ![t] = AfterAck(@)]
       \/ /\ socket # "open" /\ UNCHANGED acked
          /\ task' = [task EXCEPT ![t] = AfterFailedAck(@)]
    /\ UNCHANGED <<client, fragments, conf, seen, server, history>>

\* The dispatch of a task is done: an inline one ends its task.
Finished(r) ==
    IF r.at \in {"inline", "done"} THEN Idle ELSE [r EXCEPT !.work = "done"]

\* Mutant of Claim: a store is asked first and marked afterwards.
ClaimInTwoSteps(t) ==
    /\ task[t].work \in {"claim", "mark"}
    /\ IF task[t].work = "mark"
       THEN /\ task' = [task EXCEPT ![t].work = "handle"]
            /\ seen' = seen \cup {task[t].msg}
       ELSE /\ task' = [task EXCEPT ![t] = IF @.msg \in seen THEN Finished(@) ELSE [@ EXCEPT !.work = "mark"]]
            /\ UNCHANGED seen

\* The first to claim a message handles it.  A store without claim() is asked and
\* then marked.
Claim(t) ==
    IF conf.store = "unclaimed" THEN ClaimInTwoSteps(t)
    ELSE /\ task[t].work = "claim"
         /\ task' = [task EXCEPT ![t] = IF @.msg \in seen THEN Finished(@) ELSE [@ EXCEPT !.work = "handle"]]
         /\ seen' = seen \cup {task[t].msg}

Dispatch(t) ==
    /\ Claim(t)
    /\ UNCHANGED <<client, fragments, conf, server, acked, history>>

\* Every handler runs, a failing one does not stop the next.
Handle(t) ==
    /\ task[t].work = "handle"
    /\ handled' = [handled EXCEPT ![task[t].msg] = @ + 1]
    /\ task' = [task EXCEPT ![t] = Finished(@)]
    /\ UNCHANGED <<client, fragments, conf, seen, server, acked, cut, forgotten, crashes>>

-----------------------------------------------------------------------------
(* The platform and the process                                             *)

\* The platform sends a message, again when it has seen no ACK in time.
Deliver(m) ==
    /\ socket = "open" /\ m \notin acked /\ deliveries[m] < conf.due[m]
    /\ sending' = [sending EXCEPT ![m] = Whole(m)]
    /\ deliveries' = [deliveries EXCEPT ![m] = @ + 1]
    /\ UNCHANGED <<client, fragments, task, conf, seen, acked, history>>

Drop ==
    /\ socket = "open" /\ socket' = "closed"
    /\ UNCHANGED <<run, stopped, attempts, fragments, task, conf, seen, server, acked, history>>

Forget(m) ==
    /\ m \in seen /\ FoldFunction(+, 0, forgotten) < conf.forgets
    /\ seen' = seen \ {m}
    /\ forgotten' = [forgotten EXCEPT ![m] = @ + 1]
    /\ UNCHANGED <<client, fragments, task, conf, server, acked, handled, cut, crashes>>

\* The process dies, at any point, and is started again: only a SQLite store is kept.
Crash ==
    /\ crashes < conf.crashes /\ crashes' = crashes + 1
    /\ run' = "handshake" /\ stopped' = FALSE /\ attempts' = 0 /\ socket' = "none"
    /\ fragments' = <<>> /\ task' = [t \in Task |-> Idle]
    /\ cut' = cut \cup {task[t].msg : t \in {u \in Task : ~Free(u)}}
    /\ sending' = [m \in Msg |-> {}]
    /\ IF conf.store = "sqlite" THEN UNCHANGED <<seen, forgotten>>
       ELSE seen' = {} /\ forgotten' = [m \in Msg |-> forgotten[m] + IF m \in seen THEN 1 ELSE 0]
    /\ UNCHANGED <<conf, deliveries, acked, handled>>

-----------------------------------------------------------------------------
StartStep == Handshake \/ Connect \/ Delay \/ GiveUp \/ Disconnect \/ Drain

TaskStep(t) == Start(t) \/ Ack(t) \/ Dispatch(t) \/ Handle(t)

WsNext ==
    \/ StartStep \/ Stop \/ DrainDeadline \/ Drop \/ Crash
    \/ \E m \in Msg : Deliver(m) \/ Forget(m) \/ \E s \in Whole(m) : Receive(m, s)
    \/ \E t \in Task : TaskStep(t) \/ AckTimeout(t)

\* The event loop runs start() and every task to its end.
WsFairness == WF_wsVars(StartStep) /\ \A t \in Task : WF_wsVars(TaskStep(t))

WsSpec == WsInit /\ [][WsNext]_wsVars /\ WsFairness

-----------------------------------------------------------------------------
\* A message is handled once for every mark it had: deliveries that overlap, that are
\* repeated after a lost ACK or another connection, and a SQLite store that
\* survives a crash, add none.  A store without claim() promises less.
HandledOnce ==
    conf.store # "unclaimed" => \A m \in Msg : handled[m] <= 1 + forgotten[m]

\* What is dispatched is the message as it was sent, whatever fragments of which
\* deliveries, connections and evicted entries it was put together from.
ReassembledWhole ==
    \A t \in Task : ~Free(t) => task[t].payload = [s \in Whole(task[t].msg) |-> s]

\* A message the platform will not send again is handled, by the task that
\* acknowledged it or by one that claimed it before, unless a drain or a crash
\* ended a task of it.
AckedIsHandled ==
    \A m \in Msg : m \in acked ~> (handled[m] > 0 \/ m \in cut)

\* aclose() ends start(), and closes the connection there is.
StopEnds == stopped ~> run = "ended"

=============================================================================
