# Formal models of open-feishu

open-feishu is a Python client of the Feishu/Lark API with an agent host on top of it: chat events arrive by webhook
or WebSocket, are stored in a durable inbox, and are handled by a language model that calls tools. The hard part is
the one that promises that something happens *once* and *in order*: an event is handled, a confirmed write is executed,
a one-time token is presented, a scheduled run starts, a notice is sent; with several workers, cancelled coroutines,
lapsed leases, duplicated deliveries, lost answers and processes that die. This directory holds TLA+ models of that
part, the TLC configurations that check them on small instances, and theorems about them checked by TLAPS.
`PROJECT.json` lists, for every definition, the lines it translates, and for every hazard the properties that cover it.

    tlc -config MCEventJobs.cfg MCEventJobs        # one run
    tlapm JobRunnerProofs.tla                      # the proofs of one module

## 1. Inventory

Paths are relative to `src/feishu/`. "Modelled" names the module.

| Component | State it keeps | Operations | Modelled |
| --- | --- | --- | --- |
| Event job store, `events/jobs.py` | one row per event: status, attempt, lease and its token, availability, receipt number; effects in flight | enqueue (deduplicates, purges), claim, renew, mark, complete, retry, unknown, the fenced variants, begin/end of an effect, interruption, requeue, next_wakeup | EventJobs |
| Event job runner, `events/job_runner.py` | the claimed job and three tasks: handler, heartbeat, interrupt watcher | run_once, settlement, shutdown | JobRunner |
| User tokens, `auth/user_tokens.py` | alias rows to a token record; a guard per refresh token | lookup, refresh, save, reconcile, freeze | UserTokens (the tenant path) |
| Approval engine, `agent/approval.py` | a row per approval, a replay record per idempotency key, a lock per session | request, click, cancel, dispatch, record, finish, /clear | Approvals |
| Approval and execution stores, `agent/persistence.py` | the rows of the above, and sessions | put, claim, complete, pop, expire_if_pending | inside Approvals, DurableCallbacks, ScheduledRunner |
| Scheduled tasks, `agent/scheduled.py` | tasks with their next trigger; runs with a lease, a continuation and the delivery of a notice | confirm, pause, resume, claim_due, renew, finish, record_wait, claim_resume, finish_wait, claim_delivery, record_delivery, reconcile | ScheduledStore, ScheduledRunner |
| Scheduled policy, `agent/scheduled_policy.py` | which run a turn acts for, what it may call | lease check, resume lease, withheld tools | ScheduledRunner (leases), AgentTools (tools) |
| Turn loop, `agent/loop.py`, `event_session.py` | the history of each session, its lock, the running turn | message, batch of calls, suspend, resume, supersede, /clear, /compact, repair | AgentTurns; one call of it in AgentTools |
| History, `agent/summarization.py`, `_flow.py`, `integrity.py` | none of its own | boundary of a summary, recovery, replacement of results | AgentTurns |
| Durable callbacks, `agent/durable_callbacks.py` | receipts, the continuations queued in the inbox | reserve, exchange, commit, accept a decision, continue | DurableCallbacks |
| OAuth continuation, `agent/oauth.py` | pending authorizations | exchange of a code, claim, dispatch, resume | DurableCallbacks, AgentTools |
| Tools, `agent/toolkit/`, `agent/bundles/workplace.py` | none | what each of 59 tools asks for and calls | AgentToolkit |
| Client, `client.py`, `_namespace.py`; transport, `_transport.py`; `pagination.py` | the namespaces a view caches; attempts and deadline of a request | view of a user, request, retry, pages | ApiClient |
| App and tenant tokens, `auth/tokens.py`, `auth/credentials.py` | the cached token with its end; its lock; app_ticket | get, fetch, ticket event | ApiClient |
| API wrappers, `im/`, `drive/`, `calendar/`, ... | none | 173 operations | FeishuApi, as data |
| WebSocket client, `ws/`; dispatch, `events/dispatcher.py`, `idempotency.py` | connection, fragments, tasks; ids seen | connect, receive, reassemble, acknowledge, claim, handle, reconnect, aclose | WsClient |
| Agent host, `agent/app.py` | workers and tasks | run_ws with its aclose; the rest is construction | WsClient, partly |
| Progress cards and streaming, `agent/progress.py`, `streaming/cardkit.py` | sequence number, last text, flush task | update, throttle, finish | not yet |
| Gateway and integrations, `gateway/`, `integrations/` | deduplicated alerts and external events | accept, notify | not yet |
| Shared files, `agent/shared_files.py` | grants, pins | grant, open, expire | not yet |
| Model adapters, cards, attachments, signatures, MCP server, examples | none | formatting, parsing, cryptography | no: no control to check |

How they interact. A receiver acknowledges a webhook only after `enqueue` committed; over a WebSocket a task
acknowledges its message and dispatches it, before or after, as configured. Resident workers poll `run_once` (the
Cloudflare example has none and sets its alarm to `next_wakeup`), which calls the handler (the dispatcher and the turn
loop) under a lease; the turn marks the *side effect boundary* of its job before the first call that changes anything. A
tool that writes does not run in the turn: it leaves an approval and a card, and the owner's click is a second event
that claims the approval and runs the tool. A tool that needs the user's own token looks it up through the refresh
guard, or asks for an authorization, whose callback resumes the turn. With durable callbacks, click and authorization
are themselves jobs of the inbox. Whatever a tool calls goes through one client, whose requests share the app token, its
lock and the retry policy. The scheduler polls on its own: a due task becomes a run, the run is a turn like another, and
when that turn asks for an approval the run waits, without a lease, until the owner's click takes it over or its
deadline passes.

What is hard, and what correctness means there:

- *Leases.* A lapsed lease is recovered by whoever polls next while the worker that lost it goes on. Nothing whose
  effect may have started is run again; a stale worker changes nothing; lanes stay in order.
- *Awaits.* Between reading a clock, a row or a token and using it, other coroutines and processes act. Conditional
  updates in the stores, not the readings, must decide.
- *Cancellation.* A cancelled turn unwinds at any await, while the thread of a synchronous tool goes on.
- *Crashes* between an effect, its record and the settlement of the row that caused it.
- *Retries*: redelivered webhooks and frames, second clicks, requests whose answer was lost, notices whose send has an
  unknown outcome.
- *Order*: the history sent to the model must pair every call with its result, although results arrive from waits that
  are resumed in any order, from turns that were cancelled and after processes that died.
- *Liveness.* Whoever waits on a guard, a lock, an owner or a lease must go on when the other is gone.

## 2. Modules

| Module | Content |
| --- | --- |
| EventJobs | the durable inbox as a state machine of its own (`StoreSpec`): any caller, any call, any order |
| DurableInbox | what it promises: the phase of each event and what is ahead of it in its lane; 57 lines |
| EventJobsRefinement | the mapping from the first to the second |
| JobRunner | run_once composed with EventJobs (EXTENDS) |
| DurableCallbacks | receipts, continuations and rows over a DurableInbox |
| UserTokens | token lookups and refreshes |
| Approvals | confirmed writes |
| ScheduledStore, ScheduledRunner | transactions of the scheduled task store; worker, turns, owner and callbacks composed with it |
| AgentTurns | the turns of one session and the history they share |
| FeishuApi, AgentToolkit | the operations of the API and the tools, as data |
| ApiClient | views, app token, requests, retries and pages over FeishuApi |
| AgentTools | one tool call from proposal to result, composed with ApiClient |
| WsClient | the long connection and the dispatch of its messages |
| *Proofs | theorems of the module they name (JobRunner with EventJobs, UserTokens, Approvals, DurableCallbacks, AgentTools with ApiClient, Scheduled, AgentTurns, WsClient) |
| MC* | instances for TLC; the .cfg files give the constants |

**EventJobs.** A row of `jobs` is a row of `event_jobs` joined with its ordering and control rows. One transaction of
the store is one action: `EnqueueNew`, `EnqueueDuplicate`, `ClaimJob`, `ClaimNone`, `Renew`, `MarkSideEffectStarted`,
`Complete`, `Retry`, `MarkUnknown`, `RenewFenced`, `MarkFencedStarted`, `BeginEffect`, `EndEffect`, `FinishFenced`,
`FailFenced`, `RequeueUnknown`, `RequeueFailed`. The purge every enqueue and claim begins with, and the recovery of
lapsed leases in a claim, are part of those actions (`Swept`). Time is relative: a row holds what is left of its lease
and how long ago it settled, and `Tick` moves all rows, so that no behaviour stops because a clock is used up. A caller
reads its clock *before* it waits for the store's lock; `d` is the age of that reading. `StoreNext` lets any worker
make any call with any token at any time, which covers callers no runner of this repository is.

**JobRunner.** `run` holds the local state of one `run_once` per worker. `Start` claims, `Precheck` is the check made
before the handler is entered, then handler (`Mark`, `CallBare`, `CallBracketed`, the returns, `Checkpoint`),
`Heartbeat` and `WatchInterrupt` interleave, and `Settle` writes the outcome. Leases may lapse under a worker;
`LeaseLost` cancels it when the next heartbeat finds out, `Shutdown` cancels it from outside, `Crash` removes it.
`Outside` is everybody else: deliveries and an operator. The histories of calls are kept for the properties only.

**DurableCallbacks.** One call that its turn suspends, in one database: the receipt of the OAuth state, the row of each
wait, and three jobs (the event of the turn and one continuation per kind of wait) in one lane of the inbox, kept as a
sequence whose prefixes are what DurableInbox holds to be ahead of a job. A request of the HTTP routes reserves,
exchanges, commits or dispatches a decision, with a step between any two awaits; the worker takes a job, claims the row,
asks again when a confirmation is still missing, runs the tool and records the result. Requests are repeated and run
side by side; crashes, expiries, /clear and the operator act in between.

**UserTokens.** A token response is a number; `rows` maps aliases to it, `guard` is the refresh table, `lookup` the
local state of each lookup with one step between two awaits. The user may authorize again, calls may fail with or
without having consumed the refresh token, and a caller may vanish at any point.

**Approvals.** `row`, `cached` and `lock` are the approval row, the replay record and the session lock; `turn` is the
local state of each handler of a request, click or /clear. The execution store is taken as configured. A running tool
may have written when it ends, however it ends: `ToolEnds` lets it complete, raise, or be taken to have done nothing (an
error result, a KeyError or a ToolValidationError, from before the handler or from inside it), and `denied` remembers
the last. `Expire` ends the retention of a row, the short one of an approval that waits and the long one of an approval
that executes or is frozen; what comes later for a row that is gone changes nothing (`Write`). `Cancelled` unwinds a
turn at every await, `Crash` kills a process with all its turns.

**ScheduledStore / ScheduledRunner.** `task` and `run` are the two tables, with the approval or authorization a run
waits for folded into the run's row (`ask`), since both follow the same protocol with it. `run_once` is `Begin`
(expire leases, pick a notice or list the expired waits), `ExpireWait`, `SettleWait`, `Zones`, `Claim`; a turn is
`Act`, `Acted`, `Ask`, `CardFails`, `End`; a click is `Click`, `Decide`, `Dispatch`, `Written`, and then a turn of its
own. `Interrupted` cancels an execution and leaves its tool's thread in `thread`. A worker's reading of the clock
(`age`) grows old between `Begin` and `Claim`.

**AgentTurns.** `history` is the session as the store holds it: user messages, batches of calls, results, answers,
summaries. A message turn repairs the history (`Recovered`), asks the model (`ModelCalls`, `ModelAnswers`), runs the
calls of a batch one by one, and suspends at one that needs consent; a resumed wait replaces the result that stood for
it and goes on with the rest of the batch. Call ids come again in later batches, as providers reuse them: where the
code searches "the" batch of an id, the model searches too (`Slice`, `CallOf`). A newer private message cancels the
turn at every await, in a group turns queue for the lock, and a crash loses what the store has not.

**FeishuApi, AgentToolkit.** An operation is a verb, whether it writes, who supplies the key that makes a repeated
write harmless, how its pages are followed, and whose token it sends. A tool is its *plans*: the sequences of operations
its handler may call, with the way it ends. Whether a tool needs a confirmation, an authorization or the user's client,
which permission errors become a request for authorization and which are caught, are its other fields. Both are read
off the wrappers and the handlers, one definition each.

**ApiClient.** `call` is what each task is doing: waiting for the lock of the token manager, in flight (for the
operation itself or to fetch a token), asleep before a retry, or over. The platform executes a request or not and
answers, refuses or stays silent; `Retriable`, `PastDeadline`, `AfterPage` decide what follows. `bound` is the cache of
namespaces per view, which a copied view resets slot by slot; a namespace bound to the wrong view would send the wrong
token. `clock` is real time here, since the end of a token and the deadline of a request are compared.

**AgentTools.** `turn` is one tool call of each agent: proposed, authorizing, confirming, dispatched by the loop, by an
approval or by an authorization, running, ended. The registry's checks (unknown name, policy of a scheduled turn,
schema, client of the user) are in `Dispatch`; the operations of the plan then run as calls of ApiClient, and `Return`
reads their outcome as the handler and the engine do: done, declined, another authorization, unknown, failed.

**WsClient.** `client` is the loop of `start()` with its tasks, `server` the platform. Fragments come in any order and
are kept in a bounded buffer (`Stored`, `Room`); a whole message gets a task that claims its id, acknowledges and
dispatches in the configured order and under its timeout; the connection may drop between any two frames. `conf` holds
the seen store (SQLite, memory, or one without an atomic claim) and the ACK mode.

## 3. What each run checks

Deadlock is checked in `scheduled`, where a next step always exists (time passes); in the other models it is a legal
end that all events, lookups, approvals, requests or calls are done.

| Run | Instance | Shows | States |
| --- | --- | --- | --- |
| store | 2 events of one lane, 2 workers, 2 attempts, expiring UNKNOWN rows, clock readings of age 1 | `LaneOrder`, `WaitingNeverStarted`, `WakeupIsDue` against every caller; `ImplementsInbox`: every transaction is a step of DurableInbox or a stutter | 136,000 |
| runner_protected | 2 protected runners, 2 events of one lane, requeues by an operator | `AtMostOneEffectfulAttempt`, `CallsSerialPerLane`, `CompletedIsCertain` (COMPLETED never hides an effect in flight or of unknown result), `SettledByHolder` | 909,000 |
| runner_private | 2 private messages around a callback, 2 attempts each, 2 plain runners that crash at will | `InterruptIsCurrent`: a handler is interrupted only for the message next in its lane; `Settles`: through backoff and second attempts too | 137,000 |
| user_tokens | 2 lookups, 2 aliases, 3 token responses | `RefreshedOnce`, `AliasesAgree`, `GrantNeverOlder` | 742,000 |
| approvals | 2 approvals of one key and the same arguments, 2 turns of one process that may die | `OneDecision`, `EffectIsOnRecord`, `DispatchIsCurrent` (not cleared, not replayable), `TurnsEnd` | 187,000 |
| durable_callbacks | 3 requests, a tool of each of 4 kinds | `RanOnce`, `RunsAsDecided`, `DoneIsRecorded`; `UsesInbox`: the callbacks are a client of the abstract inbox | 26,000 |
| agent_turns | 2 messages, 2 batches with the same call ids, five scenarios | `MessageTurnsWellFormed`, `ResultsInBatch`, `NothingTwice` | 161,000 |
| turns_resume | the same with a crash | finding: `TurnsWellFormed` is violated | |
| agent_tools | every operation through the client; 2 callers whose calls overlap; every tool under 3 policies | `TokenLive`, `FetchedOnce`, `WrittenOnce`, `ViewToken`; `UnconfirmedWritesNothing`, `ConfirmedWriteOnce`, `FailedWroteNothing` | 550,000 |
| scheduled | a calendar task of 2 runs with a wait, one that its owner stops, a "once" task with a crash; one worker, clock readings of age 1 | `TasksNeverOverlap` (threads of cancelled turns included), `TriggersAdvance`, `NoticeOnce`, `SettledIsQuiet`, `LossIsTold`, `WaitsEnd` | 211,000 |
| ws_client | an event, a card action, both together, in 2 fragments each and sent twice; every seen store and ACK mode | `HandledOnce`, `ReassembledWhole`, `AckedIsHandled` | 120,000 |
| ws_stop | the same with aclose() | finding: `StopEnds` is violated | |

For every property of a passing run there is a mutant of a definition of the code (a dropped guard, a lost reset, a
wrong comparison) under which the same run finds it violated; they stand in the modules next to what they mutate.

**Findings.**

- *aclose() may end nothing* (`ws_stop`, `ws/client.py:548`). The connection is opened outside `_await_or_stop`. When
  `aclose()` falls between, it finds no connection to close, and `_serve` then waits in `recv()` without looking at the
  flag: `start()` goes on until the platform closes, dropping every event, although its docstring says it returns.
- *A resumed wait is not repaired* (`turns_resume`, `approval.py:882`). Only a message turn repairs what a dead process
  left behind. After a crash between a batch and its results, a click on an approval of an earlier batch calls the model
  with a call that has no result, against what `loop.py:1151` promises.

Seen while modelling, and excepted by name in the property concerned:

- `jobs.py:831`: `next_wakeup` does not purge, `claim_next` does. Behind an UNKNOWN row whose retention is over a claim
  would find the next job of the lane (`docs/docs/guides/external-events.md:64`: the purge after 30 days lifts the
  block), but `next_wakeup` still sees the lane blocked and is None. A host that sets its alarm from it alone, as
  `examples/cloudflare/src/storage.py:233` does, is not woken for that job until something else wakes it. `WakeupIsDue`
  excepts such jobs (`BehindExpiredUnknown`); without the exception the run `store` refutes it in five steps: two
  events are received, the first is claimed, becomes UNKNOWN, and its retention ends.
- `approval.py:398` takes every KeyError and ToolValidationError out of the dispatch for one raised "BEFORE the tool
  body runs", but `tools.py:357` calls the handler there too; and `approval.py:412` takes every error result for "the
  write did not happen". A tool that wrote and then fails in one of these ways is completed as failed: the row is
  deleted, nothing is stored for a replay, and the model is told to propose the call again. `EffectIsOnRecord` excepts
  these tools (`denied`). Which tools of the bundle can do so is the subject of `FailedWroteNothing`.
- `persistence.py:681` drops an approval that is executing or frozen `execution_unknown_ttl_seconds` after it was
  created, looked at or not; `EffectIsOnRecord` holds up to then ("lapsed").
- `rooms.py:267` adds attendees after it created the event, so that a permission error there becomes another
  authorization, and a second dispatch books again, against the same comment at `approval.py:412`.

**Bounds.** MaxEpochs (insertions and requeues of one event), MaxSeq, MaxInflight, MaxCalls, MaxPairs, MaxRuns,
MaxTurns, MaxGrants, MaxPages, MaxClock, Horizon and the numbers of requests, deliveries and crashes limit how often
something may begin. Each is at least what the hazard takes: a second attempt after a lost or failed one (MaxAttempts 2
in `store`, `runner_protected` and `runner_private`), a redelivery after a purge (MaxSeq 3, MaxEpochs 2), a third token
response while a refresh of the first is out (MaxPairs 3), a run that asks, is resumed and asks again (MaxTurns 3), a
trigger after the one that ran (MaxRuns 2), a third request beside two that race (3 requests), a second fragment that
evicts the first of another message (MaxPartial 1), a batch whose ids were used before (2 batches). In `agent_tools` a
token lives for less than the offset, just it, or longer (Lives 0, 2, 4; Offset 2), requests are tried twice, and each
operation is called once, or twice when its key makes the repetition harmless; MaxClock 4 covers a grant, its end and
the retries after it. MaxLag bounds the age of a clock reading, in ticks of which a lease has one or two: in the inbox a
reading may be as old as a whole lease, in the scheduler it is younger than one. MaxTries is 1 where the code polls 101
times: a poll has no effect but to look again. `scheduled`, `agent_turns`, `ws_client` and `durable_callbacks` choose
one of several small scenarios in their initial state (`Bounds`, `Scenarios`, `Configs`), because the features multiply;
`MCScheduled.tla`, `MCAgentTurns.tla`, `MCWsClient.tla` and `MCDurableCallbacks.tla` list them. `runner_protected` keeps
UNKNOWN rows, as the runner's assumption demands. In `runner_private`, which checks liveness with three events, two
runners and two attempts, the handlers make no external call (MaxCalls 0) and completed rows may be purged at once
(CompletedTtl 0): to `Settles` a call is one more thing that ends before the handler does (`CallEnds` is fair), and a
mark alone makes a failed or lost attempt UNKNOWN; the calls are those of `runner_protected`. Symmetry (workers, events,
callers, messages) is used only in runs without liveness.

**Fairness.** It is stated per action and only for what the host's scheduling provides: workers poll again (`Start`,
`Poll`, the clock), code between two awaits goes on, and a call that is awaited ends.

- `JobRunner!FairSpec`: weak fairness of `Clock`, `Start`, `Precheck`, `CallEnds`, `HandlerEnds` and `Settle`. A handler
  that stops answering is cut off, since leases end and the HTTP client has timeouts.
- `Approvals!FairSpec`: weak fairness of `Proceed`, strong of `Enter`, since `asyncio.Lock` wakes waiters in order.
- `ScheduledRunner!LiveSpec`: weak fairness of `Poll`, `Turn`, `Answer` and `Tick`.
- `WsClient!WsFairness`: weak fairness of the loop of `start()` and of each task; the platform may stop sending.

Never assumed: that a crash does not recur, that a heartbeat beats, that an owner clicks, that an operator reconciles,
that the platform acknowledges. `Settles` therefore ends in "or waits behind a job for an operator", and
`AckedIsHandled` excepts a message whose task a drain or a crash ended.

## 4. What is proved

All theorems hold for every value of the constants that satisfies the named assumptions of the modules
(`StoreAssumption`, `RunnerAssumption`, `TokensAssumption`, `ApprovalsAssumption`, `CallbacksAssumption`,
`ScheduledAssumption`, `TurnsAssumption`, `WsAssumption`, `ClientAssumption`, `ToolsAssumption`). These give the
constants their types, the bounds their sign and the sets of tasks their finiteness; what they demand beyond that is in
section 5. Two more hypotheses belong to single theorems, because the code needs them too: `OneProcess` (the lock of a
session is an `asyncio.Lock`, so only turns of one process exclude each other) and `OneRunner` (the one scheduled worker
the guide asks for).

- **JobRunnerProofs**, the store: `StoreTypes`, `NothingReplayed` (WaitingNeverStarted), `LanesInOrder`, `LanesSerial`,
  `WakeupInTime` (WakeupIsDue, with its exception), `CompletedStays`. LaneOrder alone is not inductive: a retry that
  fails over to a waiting status must still hold its lane. `IInv` says of each row what its status implies (a waiting
  row has an attempt left and never started), that receipt numbers are unique, and that *whatever was attempted and is
  unresolved heads its lane* (`Ordered`). The actions reduce to two lemmas: a step that only drops, resolves or starts
  rows (`Follows`) keeps the order, and so does a new row with a fresh number. `InboxImplemented` is the refinement:
  every transaction, under the mapping of EventJobsRefinement, is a step of DurableInbox or a stutter. What is ahead of
  an event is read off the receipt numbers: a new row comes last in its lane although numbers are used again after a
  purge, no row changes its number while it is open, and one claim may move several events, whose leases or retention
  ended.
- **JobRunnerProofs**, the runs: `OneEffectfulAttempt`, `CompletionIsCertain`, `LaneCallsSerial` (where UNKNOWN rows do
  not expire), `HolderSettles`. `RInv` is the invariant of the store and what relates it to the runs: a run that still
  holds its job has the token of the row (`HeldOK`); attempts that marked or called in one epoch are one attempt, sealed
  by the mark of the row (`SealOK`); calls in flight and doubts are on the row (`CallsOK`, `OpenOK`, `DoubtOK`). The
  transactions are grouped by what they do to a row (`KeptRow`, `Left`, `Dropped`, `Elapses`), so that each of the
  seventeen is looked at once, and the steps of the runs rest on these groups. `InterruptsCurrent`: the verdict of
  should_interrupt, which a run caches, stays true while the run has its job, since what waits behind a running job
  stays there in its order (`ToldOK`, from the refinement). `RunnersServeInbox`: the composed system implements
  DurableInbox too, since each of its steps is one of the store or leaves it alone.
- **UserTokensProofs**: `TokensTypes`, `TokenUsedOnce` (RefreshedOnce), `TokenAliases`, `NewerGrantKept`. `IInv` says
  that one lookup is inside a guard, that a token about to be presented is unused, and that a used one is spent: frozen,
  gone from the table, or behind a guard whose owner is past the call.
- **ApprovalsProofs**: `ApprovalsTypes`, `DecidedOnce` (OneDecision), `EffectsKept` (EffectIsOnRecord, with its two
  exceptions). `IInv` says that an approval has one decider, that its row says "executing" meanwhile unless its
  retention ended, and that a dispatched write never leads back to a row that awaits. The session lock does not occur in
  it: these hold across processes. `DispatchedCurrent` (DispatchIsCurrent) does need the lock and holds for one process:
  whoever is between its check and the dispatch holds the lock that /clear and the record of a replay would need
  (`LocksOK`, `CurrentOK`).
- **DurableCallbacksProofs**: `EffectOnce` (RanOnce), `DecisionRules`, `ResultsKept`. Two rows and two jobs could each
  lead to the tool; `IInv` says why only one does: a row that could still be claimed is that of the wait which comes
  first, or that wait is over, and a dispatch leaves nothing behind that awaits (`DispatchOK`, `EffectOK`); the decision
  stands in the job before anything rests on it (`DecisionOK`), and the phase of a job tells how far its attempt is
  (`AttemptOK`, `RecordOK`). `InboxUsed` (UsesInbox) is the refinement: the lane, a sequence without repetitions of the
  jobs that are open, gives for each job the set of those ahead of it, and the worker starts at its head.
- **AgentToolsProofs**, the tokens: `FetchedUnderLock` (FetchedOnce), `PresentedWhileLive` (TokenLive). `CInv` says that
  a caller which fetches holds the lock and asked after all that was cached had expired, and that a request with an app
  token may be retried only until a time before its end; this is where the offset must cover an answer and the retries.
  The requests: `NeverWrittenTwice` (WrittenOnce) and `SentAsViewed` (ViewToken). A write that may not be repeated has
  not been applied while its call goes on, because an answer of unknown effect ends the call and only one that says
  "refused" leads to a retry (`WriteOK`); a copied view leaves no namespace bound to another view (`BoundOK`), so a
  request carries the token its view stands for (`SenderOK`).
- **AgentToolsProofs**, the tools: `WritesAreConfirmed` (UnconfirmedWritesNothing), `ConfirmationBuysOneRun`
  (ConfirmedWriteOnce), `FailureIsClean` (FailedWroteNothing). What they need of the 59 tools is proved from their
  definitions (`ToolsSound`): a tool that needs no confirmation only reads, and, but for the two exceptions of section 5
  (`Early`), no plan goes on after a write. From there, the operations left of a plan bound what the handler still
  writes (`Within`) and with most tools the last operation alone writes (`LastWrite`); a turn has written nothing until
  a run ends it, although the runs before may have ended in another authorization (`SpentOK`, `RunOK`).
- **ScheduledProofs**: `ExecutionsApart` (TasksNeverOverlap), `SettledQuietly` (SettledIsQuiet), `ToldOnce` (NoticeOnce)
  for any number of workers; `LossTold` (LossIsTold) and `NextTriggerLater` (TriggersAdvance) for one. A hand that acts
  for a run, or a thread it left behind, keeps the run occupied with the lease token the hand has, and a task has one
  occupied run (`ExecutionOK`); nothing has been told of a run that goes on or whose notice is owed, and whoever sends
  holds the last ticket (`NoticeOK`, `SenderOK`); the worker has run nothing that its own, older reading of the clock
  would not call due (`LagOK`), and nobody freezes a lapsed run while it delivers (`LossOK`). The last two are where a
  second worker breaks the code.
- **AgentTurnsProofs**: `AnsweredBeforeModel` (MessageTurnsWellFormed), `ResultsStay` (ResultsInBatch), `OnceEach`
  (NothingTwice). None of the three is inductive. `IInv` says where results may be: in the slice of their batch, so that
  a batch either has all its results or is still open at the end of the history, where a note or a result is appended
  (`HistoryOK`). A call that waits has not run, nor has any behind it in its batch, and at most one call of a batch
  waits (`WaitsOK`); that is why a click that comes late, or twice, queues nothing that ran. The turn is at one call of
  its batch: those before have their results, none from it on has run or waits (`TurnOK`). `OnlyTorn`: what
  `loop.py:1151` promises of any turn holds until a wait is resumed over a gap, so that the finding of `turns_resume` is
  the one way to break it. What the repair and the summaries yield is read off FlattenSeq, SubSeq, Min and Max without
  induction: each lemma looks at the least position where the repaired history could be otherwise.
- **WsClientProofs**: `OncePerMark` (HandledOnce) and `WholeMessages` (ReassembledWhole). HandledOnce compares two
  counters and is not inductive; `OnceOK` also counts the tasks that are past their claim: handled plus about to handle
  is never more than forgotten plus marked. `FragmentsOK` says that a buffered entry maps each number it holds to the
  fragment sent under that number, so that an entry with as many chunks as its message has fragments is the message.

Only model-checked: liveness (`Settles`, `TurnsEnd`, `WaitsEnd`, `AckedIsHandled`), which is out of the prover's reach.
Every invariant and action property that a passing run checks is proved. The two properties the runs refute are the
findings; of `TurnsWellFormed`, `OnlyTorn` proves what is left of it.

## 5. What is not modelled, and what the models assume

- *Event jobs*: payloads and their decoding (an undecodable payload is a handler that fails); the schema migration.
- *User tokens*: the older path without a tenant (`user_tokens.py:661`), whose refresh lock is that of one process.
- *Approvals*: tools that reuse one explicit key for different payloads (`persistence.py:942` overwrites the record);
  two processes that run two approvals of one key at a time (`approval.py:381` takes no lock across processes);
  a synchronous tool whose turn was cancelled and whose thread writes later: its row is executing or unknown by then.
- *Durable callbacks*: one worker and one lane; a call is authorized and approved at most once, as the model names its
  tool once; the claim and completion of a cancelled or rejected row are one step, as nothing happens between them that
  others see; the retention of old jobs and receipts is left out; the signature of a state token is taken as sound.
- *Turns*: one session in one process at a time over a store that outlives it; `max_messages` 0, i.e. the history is not
  cut (`persistence.py:451` may leave a result without its call); approvals and authorizations are one kind of wait; the
  in-memory history of a turn is that of the store; the calls of one batch have different ids (`TurnsAssumption`), as
  the model's API gives them and as every lookup by id takes for granted, while other batches may use the ids again; the
  limits of concurrent groups and `aclose()` are left out.
- *Client and tools*: the refresh offset covers a request's timeout and its retry budget (`Offset >= Timeout + Budget`,
  by default 1800 s against 30 s and 90 s); tokens granted for less than the offset are kept for `min_ttl` all the same
  (`tokens.py:241`) and excluded from `TokenLive`; a token is not revoked before its end. An agent runs one tool call,
  whose confirmation is answered at most once and by its owner (Approvals, DurableCallbacks); the platform sends a
  permission error only for a request it refused. Tools for memory and schedules call no API and are left out.
  `book_meeting_room` is excluded from `ConfirmedWriteOnce` and `FailedWroteNothing`, and `create_approval_instance`
  from the latter, because they write before their last operation. A call dispatched after an authorization is excluded
  from `FailedWroteNothing`: `oauth.py:531` reports failed where the approval engine says unknown.
- *WebSocket*: fragments of a message carry its id, unique among messages; heartbeats, malformed frames and a failing
  seen store are left out, and so are `auto_reconnect=False` and a dispatcher without a seen store, which handles what
  arrives as often as it arrives; `reconnect_count` is finite, and is not reset by a connection that succeeded, as in
  the code. A store without `claim()` checks and marks in two steps (`idempotency.py:237`); `HandledOnce` excepts it. An
  event is marked before it is handled (`idempotency.py:234`), so that a crash in between loses it where no inbox stands
  behind: `AckedIsHandled` excepts it.
- *Scheduled tasks*: drafts and their end, quarantined (`error`) rows, owner and tenant checks, the seven-day end of
  settled asks, the grants of the policy. One worker, which `docs/docs/guides/agent.md` asks for: with two, the stale
  reading of one re-creates a trigger that already has a run (`scheduled.py:590`), and the INSERT that then violates
  `UNIQUE(task_id, scheduled_for)` lies outside the quarantine. An expiry callback that raises (`scheduled.py:1039`) is
  not modelled. `Operator` acts only when the former executor has stopped, as the guide requires.
- SQLite's transactions are taken as atomic and durable; the lock of a store is fair enough not to matter, as no
  property depends on the order in which callers get it.
- Not modelled at all: see the last rows of section 1. Formatting, parsing and cryptography have no control to check;
  the gateway and the integrations are thin; streaming cards and shared files are left for later.

## 6. Plan

Done: the inbox, its promise and its workers; tokens of users and of the app; approvals; durable callbacks; scheduled
tasks; turns and their history; client, operations and tools; the long connection. What is left, in this order:

1. **Streaming cards**: sequence numbers, throttled updates and the final flush against cancelled updates.
2. **Agent host**: start, drain and close of its workers, and that close ends.
3. **Integrations**: external events and alert state; shared files with grants and pins.
