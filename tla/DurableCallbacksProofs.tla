----------------------- MODULE DurableCallbacksProofs -----------------------
(***************************************************************************)
(* Theorems about DurableCallbacks, for every number of requests and every *)
(* set of tools.                                                           *)
(*                                                                         *)
(* Two rows and two jobs could each lead to the tool.  IInv says why only  *)
(* one does: a row that could still be claimed is that of the wait which   *)
(* comes first, or the wait which comes first is over, and a dispatch      *)
(* leaves nothing behind that awaits.                                      *)
(***************************************************************************)
EXTENDS DurableCallbacks, TLAPS

Phase == {"none", "waiting", "working", "effective", "stuck", "done"}

Place == {"idle", "start", "send", "sent", "cancel", "answer", "failed", "claim", "ask", "tool", "result"}

TypesOK ==
    /\ tool \in [first : Kind, write : BOOLEAN, late : BOOLEAN]
    /\ phase \in [Job -> Phase]
    /\ queue \in Seq(Job)
    /\ decision \in Decision \cup {"none"}
    /\ receipt \in {"none", "exchanging", "completed"}
    /\ row \in [Kind -> RowState]
    /\ prior \in BOOLEAN
    /\ recorded \in BOOLEAN
    /\ worker \in [job : Job, at : Place]
    /\ request \in [Request -> [at : {"new", "exchange", "commit", "over"}]]
    /\ exchanged \in Nat
    /\ ran \in Seq(Kind)

\* The phase of the job says how far its attempt is; a continuation past its start
\* has a row.
AttemptOK ==
    /\ worker.at = "idle" => worker = NoAttempt
    /\ worker # NoAttempt => queue # <<>>
    /\ worker.at = "start" => phase[worker.job] = "working"
    /\ worker.at \notin {"idle", "start"} => phase[worker.job] = "effective"
    /\ worker.at \in {"claim", "ask", "tool", "result"} => worker.job \in Kind
    /\ worker.at \notin {"idle", "start"} =>
          /\ worker.job = "event" => row[tool.first] # "none"
          /\ worker.job \in Kind => row[worker.job] # "none"

\* The wait that comes second is opened by the one that comes first, which is over
\* by then; an approval that came first is kept with the authorization.
OrderOK ==
    /\ \A k \in Kind : k # tool.first /\ row[k] # "none" => row[tool.first] \notin {"none", "awaiting"}
    /\ prior => tool.first = "approval" /\ row["authorization"] # "none"
    /\ tool.first = "approval" /\ row["authorization"] # "none" =>
          prior /\ row["approval"] \notin {"awaiting", "executing"}
    /\ tool.first = "authorization" /\ ~tool.write => row["approval"] = "none"

\* A dispatch holds its row; so does the request for an approval.
DispatchOK ==
    /\ worker.at = "ask" =>
          /\ worker.job = "authorization" /\ tool.write /\ ~prior
          /\ row["authorization"] = "executing" /\ row["approval"] = "none"
    /\ worker.at = "tool" =>
          /\ row[worker.job] = "executing"
          /\ worker.job = tool.first => \A k \in Kind \ {tool.first} : row[k] = "none"
          /\ worker.job = "authorization" => ~tool.write \/ prior
          /\ worker.job = "approval" => decision = "approve"

\* The approval has the decision of the click that made its job.
DecisionOK ==
    /\ phase["approval"] = "none" => accepted = {} /\ decision = "none"
    /\ phase["approval"] # "none" => decision \in Decision
    /\ accepted \subseteq {decision}
    /\ prior => decision = "approve"

\* An effect leaves no wait behind.
EffectOK == ran # <<>> =>
    /\ Len(ran) = 1
    /\ \A k \in Kind : row[k] # "awaiting"
    /\ row[tool.first] # "none"
    /\ worker.at \notin {"ask", "tool"}
    /\ tool.write \/ ran[1] = "approval" => decision = "approve"

\* An effect without its result in the conversation is under way or left to an operator.
RecordOK ==
    ran # <<>> /\ ~recorded /\ ran[1] \notin requeued =>
        \/ phase[ran[1]] = "stuck"
        \/ worker = [job |-> ran[1], at |-> "result"]

\* The receipt of the state admits one request to the exchange.
ExchangeOK ==
    /\ \A r \in Request : request[r].at = "exchange" => exchanged = 0 /\ receipt # "none"
    /\ \A r, s \in Request : request[r].at = "exchange" /\ request[s].at = "exchange" => r = s
    /\ exchanged # 0 => receipt # "none"
    /\ exchanged <= 1

IInv ==
    /\ TypesOK
    /\ AttemptOK
    /\ OrderOK
    /\ DispatchOK
    /\ DecisionOK
    /\ EffectOK
    /\ RecordOK
    /\ ExchangeOK

-----------------------------------------------------------------------------
(* Every step keeps the types *)

LEMMA Kinds == Kind = {"authorization", "approval"} /\ Job = {"event", "authorization", "approval"}
BY DEF Kind, Job

LEMMA EnqueueTypes ==
    ASSUME TypesOK, NEW j \in Job, Enqueue(j)
    PROVE  /\ phase' \in [Job -> Phase] /\ queue' \in Seq(Job) /\ queue' # <<>>
           /\ phase'[j] = "waiting" /\ \A i \in Job \ {j} : phase'[i] = phase[i]
<1>1. queue' \in Seq(Job) BY DEF Enqueue, TypesOK
<1>2. Len(queue') = Len(queue) + 1 /\ Len(queue) \in Nat BY DEF Enqueue, TypesOK
<1>3. queue' # <<>> BY <1>1, <1>2
<1>4. QED BY <1>1, <1>3 DEF Enqueue, TypesOK, Phase

LEMMA AtTypes ==
    ASSUME TypesOK, NEW r \in Request, NEW where \in {"new", "exchange", "commit", "over"}, At(r, where)
    PROVE  /\ request' \in [Request -> [at : {"new", "exchange", "commit", "over"}]]
           /\ request'[r].at = where /\ \A s \in Request \ {r} : request'[s] = request[s]
BY DEF At, TypesOK

LEMMA RowTypes ==
    ASSUME TypesOK, NEW k \in Kind, NEW state \in RowState, Row(k, state)
    PROVE  /\ row' \in [Kind -> RowState]
           /\ row'[k] = state /\ \A i \in Kind \ {k} : row'[i] = row[i]
BY DEF Row, TypesOK

LEMMA GotoTypes ==
    ASSUME TypesOK, NEW at \in Place, Goto(at)
    PROVE  /\ worker' \in [job : Job, at : Place]
           /\ worker'.job = worker.job /\ worker'.at = at
           /\ worker' = [job |-> worker.job, at |-> at]
BY DEF Goto, TypesOK

LEMMA FinishTypes ==
    ASSUME TypesOK, queue # <<>>, Finish
    PROVE  /\ phase' \in [Job -> Phase] /\ queue' \in Seq(Job) /\ worker' = NoAttempt
           /\ phase'[worker.job] = "done" /\ \A i \in Job \ {worker.job} : phase'[i] = phase[i]
BY DEF Finish, TypesOK, Phase

LEMMA FreezeTypes ==
    ASSUME TypesOK, Freeze
    PROVE  /\ phase' \in [Job -> Phase] /\ queue' = queue /\ worker' = NoAttempt
           /\ phase'[worker.job] = "stuck" /\ \A i \in Job \ {worker.job} : phase'[i] = phase[i]
BY DEF Freeze, TypesOK, Phase

LEMMA EffectiveTypes ==
    ASSUME TypesOK, Effective
    PROVE  /\ phase' \in [Job -> Phase]
           /\ phase'[worker.job] = "effective" /\ \A i \in Job \ {worker.job} : phase'[i] = phase[i]
BY DEF Effective, TypesOK, Phase

LEMMA NoAttemptTypes == NoAttempt \in [job : Job, at : Place] /\ NoAttempt.at = "idle"
BY DEF NoAttempt, Job, Place

-----------------------------------------------------------------------------
(* Requests keep the invariant *)

\* A request touches no row and no attempt, and makes only a job that is new.
LEMMA RequestsApart ==
    ASSUME IInv, TypesOK',
           UNCHANGED <<tool, row, prior, worker, ran, recorded, requeued>>,
           queue' = queue \/ queue' # <<>>,
           \A i \in Job : phase'[i] = phase[i] \/ (phase[i] = "none" /\ phase'[i] = "waiting"),
           decision' = decision \/ decision = "none"
    PROVE  AttemptOK' /\ OrderOK' /\ DispatchOK' /\ EffectOK' /\ RecordOK'
<1>1. TypesOK BY DEF IInv
<1>2. worker.job \in Job /\ ran \in Seq(Kind) BY <1>1 DEF TypesOK
<1>3. AttemptOK' BY <1>2 DEF IInv, AttemptOK
<1>4. OrderOK' BY DEF IInv, OrderOK
<1>5. DispatchOK' BY DEF IInv, DispatchOK
<1>6. EffectOK' BY DEF IInv, EffectOK
<1>7. RecordOK'
  <2>1. ran # <<>> => ran[1] \in Job BY <1>2, Kinds DEF IInv, EffectOK
  <2>2. QED BY <2>1 DEF IInv, RecordOK
<1>8. QED BY <1>3, <1>4, <1>5, <1>6, <1>7

LEMMA RequestsKeep == ASSUME IInv, RequestStep PROVE IInv'
<1> USE DEF jobVars, rowVars, historyVars
<1>t. TypesOK BY DEF IInv
<1>1. CASE ReceiveEvent
  <2>1. "event" \in Job BY Kinds
  <2>2. /\ phase' \in [Job -> Phase] /\ queue' \in Seq(Job) /\ queue' # <<>>
        /\ phase["event"] = "none"
        /\ phase'["event"] = "waiting" /\ \A i \in Job \ {"event"} : phase'[i] = phase[i]
    BY <1>t, <1>1, <2>1, EnqueueTypes DEF ReceiveEvent
  <2>3. TypesOK' BY <1>t, <1>1, <2>2 DEF ReceiveEvent, TypesOK
  <2>4. /\ UNCHANGED <<tool, row, prior, worker, ran, recorded, requeued, decision, accepted>>
        /\ UNCHANGED <<request, exchanged, receipt>>
    BY <1>1 DEF ReceiveEvent
  <2>5. AttemptOK' /\ OrderOK' /\ DispatchOK' /\ EffectOK' /\ RecordOK'
    BY <2>2, <2>3, <2>4, RequestsApart
  <2>6. DecisionOK' BY <2>2, <2>4, Kinds DEF IInv, DecisionOK
  <2>7. ExchangeOK' BY <2>4 DEF IInv, ExchangeOK
  <2>8. QED BY <2>3, <2>5, <2>6, <2>7 DEF IInv
<1>2. ASSUME NEW r \in Request, BeginAuthorization(r) PROVE IInv'
  <2>1. CASE Reserve
    <3>1. /\ request' \in [Request -> [at : {"new", "exchange", "commit", "over"}]]
          /\ request'[r].at = "exchange" /\ \A s \in Request \ {r} : request'[s] = request[s]
      BY <1>t, <1>2, <2>1, AtTypes DEF BeginAuthorization
    <3>2. receipt = "none" /\ receipt' = "exchanging" BY <1>2, <2>1 DEF BeginAuthorization, Reserve
    <3>3. TypesOK' BY <1>t, <1>2, <3>1, <3>2 DEF BeginAuthorization, TypesOK
    <3>4. /\ UNCHANGED <<tool, row, prior, worker, ran, recorded, requeued, decision, accepted>>
          /\ UNCHANGED <<exchanged, phase, queue>>
      BY <1>2 DEF BeginAuthorization
    <3>5. AttemptOK' /\ OrderOK' /\ DispatchOK' /\ EffectOK' /\ RecordOK'
      BY <3>3, <3>4, RequestsApart
    <3>6. DecisionOK' BY <3>4 DEF IInv, DecisionOK
    <3>7. ExchangeOK' BY <1>t, <3>1, <3>2, <3>4 DEF IInv, ExchangeOK, TypesOK
    <3>8. QED BY <3>3, <3>5, <3>6, <3>7 DEF IInv
  <2>2. CASE ~Reserve
    <3>1. /\ request' \in [Request -> [at : {"new", "exchange", "commit", "over"}]]
          /\ request'[r].at = "over" /\ \A s \in Request \ {r} : request'[s] = request[s]
      BY <1>t, <1>2, <2>2, AtTypes DEF BeginAuthorization
    <3>2. receipt' = receipt BY <1>2, <2>2 DEF BeginAuthorization
    <3>3. TypesOK' BY <1>t, <1>2, <3>1, <3>2 DEF BeginAuthorization, TypesOK
    <3>4. /\ UNCHANGED <<tool, row, prior, worker, ran, recorded, requeued, decision, accepted>>
          /\ UNCHANGED <<exchanged, phase, queue>>
      BY <1>2 DEF BeginAuthorization
    <3>5. AttemptOK' /\ OrderOK' /\ DispatchOK' /\ EffectOK' /\ RecordOK'
      BY <3>3, <3>4, RequestsApart
    <3>6. DecisionOK' BY <3>4 DEF IInv, DecisionOK
    <3>7. ExchangeOK' BY <1>t, <3>1, <3>2, <3>4 DEF IInv, ExchangeOK, TypesOK
    <3>8. QED BY <3>3, <3>5, <3>6, <3>7 DEF IInv
  <2>3. QED BY <2>1, <2>2
<1>3. ASSUME NEW r \in Request, Exchange(r) PROVE IInv'
  <2>1. /\ request' \in [Request -> [at : {"new", "exchange", "commit", "over"}]]
        /\ request'[r].at # "exchange" /\ \A s \in Request \ {r} : request'[s] = request[s]
    BY <1>t, <1>3, AtTypes DEF Exchange
  <2>2. exchanged' = 1 /\ receipt # "none" BY <1>3 DEF Exchange, IInv, ExchangeOK
  <2>3. TypesOK' BY <1>t, <1>3, <2>1, <2>2 DEF Exchange, TypesOK
  <2>4. /\ UNCHANGED <<tool, row, prior, worker, ran, recorded, requeued, decision, accepted>>
        /\ UNCHANGED <<receipt, phase, queue>>
    BY <1>3 DEF Exchange
  <2>5. AttemptOK' /\ OrderOK' /\ DispatchOK' /\ EffectOK' /\ RecordOK'
    BY <2>3, <2>4, RequestsApart
  <2>6. DecisionOK' BY <2>4 DEF IInv, DecisionOK
  <2>7. ExchangeOK'
    <3>1. \A s \in Request : request'[s].at # "exchange"
      BY <1>3, <2>1 DEF Exchange, IInv, ExchangeOK
    <3>2. QED BY <2>2, <2>4, <3>1 DEF ExchangeOK
  <2>8. QED BY <2>3, <2>5, <2>6, <2>7 DEF IInv
<1>4. ASSUME NEW r \in Request, CommitAuthorization(r) PROVE IInv'
  <2>1. /\ request' \in [Request -> [at : {"new", "exchange", "commit", "over"}]]
        /\ request'[r].at = "over" /\ \A s \in Request \ {r} : request'[s] = request[s]
    BY <1>t, <1>4, AtTypes DEF CommitAuthorization
  <2>2. CASE Committable
    <3>1. "authorization" \in Job BY Kinds
    <3>2. /\ phase' \in [Job -> Phase] /\ queue' \in Seq(Job) /\ queue' # <<>>
          /\ phase["authorization"] = "none" /\ phase'["authorization"] = "waiting"
          /\ \A i \in Job \ {"authorization"} : phase'[i] = phase[i]
      BY <1>t, <1>4, <2>2, <3>1, EnqueueTypes DEF CommitAuthorization, Commit, Committable
    <3>3. receipt' = "completed" BY <1>4, <2>2 DEF CommitAuthorization, Commit
    <3>4. TypesOK' BY <1>t, <1>4, <2>1, <3>2, <3>3 DEF CommitAuthorization, TypesOK
    <3>5. UNCHANGED <<tool, row, prior, worker, ran, recorded, requeued, decision, accepted, exchanged>>
      BY <1>4 DEF CommitAuthorization
    <3>6. AttemptOK' /\ OrderOK' /\ DispatchOK' /\ EffectOK' /\ RecordOK'
      BY <3>2, <3>4, <3>5, RequestsApart
    <3>7. DecisionOK' BY <3>2, <3>5, Kinds DEF IInv, DecisionOK
    <3>8. ExchangeOK' BY <2>1, <3>3, <3>5 DEF IInv, ExchangeOK
    <3>9. QED BY <3>4, <3>6, <3>7, <3>8 DEF IInv
  <2>3. CASE ~Committable
    <3>1. TypesOK' BY <1>t, <1>4, <2>1, <2>3 DEF CommitAuthorization, Commit, TypesOK
    <3>2. /\ UNCHANGED <<tool, row, prior, worker, ran, recorded, requeued, decision, accepted>>
          /\ UNCHANGED <<exchanged, phase, queue, receipt>>
      BY <1>4, <2>3 DEF CommitAuthorization, Commit
    <3>3. AttemptOK' /\ OrderOK' /\ DispatchOK' /\ EffectOK' /\ RecordOK'
      BY <3>1, <3>2, RequestsApart
    <3>4. DecisionOK' BY <3>2 DEF IInv, DecisionOK
    <3>5. ExchangeOK' BY <2>1, <3>2 DEF IInv, ExchangeOK
    <3>6. QED BY <3>1, <3>3, <3>4, <3>5 DEF IInv
  <2>4. QED BY <2>2, <2>3
<1>5. ASSUME NEW r \in Request, NEW d \in Decision, DispatchApproval(r, d) PROVE IInv'
  <2>1. /\ request' \in [Request -> [at : {"new", "exchange", "commit", "over"}]]
        /\ request'[r].at = "over" /\ \A s \in Request \ {r} : request'[s] = request[s]
    BY <1>t, <1>5, AtTypes DEF DispatchApproval
  <2>2. CASE row["approval"] = "awaiting" /\ phase["approval"] = "none"
    <3>1. "approval" \in Job BY Kinds
    <3>2. accepted' = accepted \cup {d} /\ decision' = d
      BY <1>5, <2>2 DEF DispatchApproval, Agrees
    <3>3. /\ phase' \in [Job -> Phase] /\ queue' \in Seq(Job) /\ queue' # <<>>
          /\ phase'["approval"] = "waiting"
          /\ \A i \in Job \ {"approval"} : phase'[i] = phase[i]
      BY <1>t, <1>5, <2>2, <3>1, EnqueueTypes DEF DispatchApproval, Agrees
    <3>4. TypesOK' BY <1>t, <1>5, <2>1, <3>2, <3>3 DEF DispatchApproval, TypesOK
    <3>5. UNCHANGED <<tool, row, prior, worker, ran, recorded, requeued, exchanged, receipt>>
      BY <1>5 DEF DispatchApproval
    <3>6. decision = "none" /\ accepted = {} BY <2>2 DEF IInv, DecisionOK
    <3>7. AttemptOK' /\ OrderOK' /\ DispatchOK' /\ EffectOK' /\ RecordOK'
      BY <2>2, <3>3, <3>4, <3>5, <3>6, RequestsApart
    <3>8. DecisionOK' BY <3>2, <3>3, <3>5, <3>6 DEF IInv, DecisionOK
    <3>9. ExchangeOK' BY <2>1, <3>5 DEF IInv, ExchangeOK
    <3>10. QED BY <3>4, <3>7, <3>8, <3>9 DEF IInv
  <2>3. CASE ~(row["approval"] = "awaiting" /\ phase["approval"] = "none")
    <3>1. UNCHANGED jobVars /\ (accepted' = accepted \/ (accepted' = accepted \cup {d} /\ decision = d))
      BY <1>5, <2>3 DEF DispatchApproval, Agrees
    <3>2. TypesOK' BY <1>t, <1>5, <2>1, <3>1 DEF DispatchApproval, TypesOK
    <3>3. UNCHANGED <<tool, row, prior, worker, ran, recorded, requeued, exchanged, receipt>>
      BY <1>5 DEF DispatchApproval
    <3>4. AttemptOK' /\ OrderOK' /\ DispatchOK' /\ EffectOK' /\ RecordOK'
      BY <3>1, <3>2, <3>3, RequestsApart
    <3>5. DecisionOK'
      BY <3>1, <3>3 DEF IInv, DecisionOK, Decision
    <3>6. ExchangeOK' BY <2>1, <3>3 DEF IInv, ExchangeOK
    <3>7. QED BY <3>2, <3>4, <3>5, <3>6 DEF IInv
  <2>4. QED BY <2>2, <2>3
<1>6. QED BY <1>1, <1>2, <1>3, <1>4, <1>5 DEF RequestStep

-----------------------------------------------------------------------------
(* Steps of the worker keep the invariant *)

\* The worker answers to no request.
LEMMA WorkerApart ==
    ASSUME IInv, UNCHANGED <<request, exchanged, receipt>> PROVE ExchangeOK'
BY DEF IInv, ExchangeOK

\* The decision stays while no job is made.
LEMMA DecisionStays ==
    ASSUME IInv, UNCHANGED <<decision, accepted>>, prior' => prior \/ decision = "approve",
           \A i \in Job : phase'[i] = "none" <=> phase[i] = "none"
    PROVE  DecisionOK'
BY Kinds DEF IInv, DecisionOK

\* A wait is closed for good.
LEMMA Closes ==
    ASSUME IInv, UNCHANGED <<tool, prior>>, NEW k \in Kind, row[k] # "none",
           row'[k] \in {"gone", "unknown", "expired"}, \A i \in Kind \ {k} : row'[i] = row[i]
    PROVE  /\ OrderOK'
           /\ \A i \in Kind : row'[i] = "none" <=> row[i] = "none"
           /\ \A i \in Kind : row'[i] = "awaiting" => row[i] = "awaiting"
<1>1. tool.first \in Kind BY DEF IInv, TypesOK
<1>2. QED BY <1>1, Kinds DEF IInv, OrderOK

\* Nothing to say of a worker without an attempt.
LEMMA Ends ==
    ASSUME worker' = NoAttempt PROVE AttemptOK' /\ DispatchOK'
BY DEF AttemptOK, DispatchOK, NoAttempt

\* An effect stays where no wait is opened and no dispatch is reached.
LEMMA EffectStays ==
    ASSUME IInv, UNCHANGED <<ran, decision, tool>>,
           \A k \in Kind : row'[k] = "none" <=> row[k] = "none",
           \A k \in Kind : row'[k] = "awaiting" => row[k] = "awaiting",
           worker'.at \in {"ask", "tool"} => worker.at \in {"ask", "tool"}
    PROVE  EffectOK'
<1>1. tool.first \in Kind BY DEF IInv, TypesOK
<1>2. QED BY <1>1 DEF IInv, EffectOK

\* What is left to an operator stays with him.
LEMMA RecordStays ==
    ASSUME IInv, UNCHANGED <<ran, recorded, requeued>>, worker.at # "result",
           \A i \in Job : phase[i] = "stuck" => phase'[i] = "stuck"
    PROVE  RecordOK'
<1>1. ran # <<>> => ran[1] \in Job BY Kinds DEF IInv, TypesOK, EffectOK
<1>2. QED BY <1>1 DEF IInv, RecordOK

LEMMA WorkerKeeps == ASSUME IInv, WorkerStep PROVE IInv'
<1> USE DEF jobVars, rowVars, historyVars
<1>t. TypesOK BY DEF IInv
<1>j. /\ worker.job \in Job /\ worker.at \in Place /\ tool.first \in Kind /\ Kind \subseteq Job
      /\ tool.write \in BOOLEAN /\ prior \in BOOLEAN
      /\ \A k \in Kind : row[k] \in RowState
      /\ "authorization" \in Kind /\ "approval" \in Kind
  BY <1>t, Kinds DEF TypesOK
<1>e. ran # <<>> => ran[1] \in Kind BY <1>t DEF TypesOK, IInv, EffectOK
<1>n. worker # NoAttempt => queue # <<>> BY DEF IInv, AttemptOK
<1>1. CASE Take
  <2>1. Head(queue) \in Job BY <1>t, <1>1 DEF Take, TypesOK
  <2>2. /\ phase' \in [Job -> Phase] /\ phase[Head(queue)] = "waiting"
        /\ phase'[Head(queue)] = "working" /\ \A i \in Job \ {Head(queue)} : phase'[i] = phase[i]
    BY <1>t, <1>1, <2>1 DEF Take, TypesOK, Phase
  <2>3. worker' = [job |-> Head(queue), at |-> "start"] /\ worker = NoAttempt /\ queue # <<>>
    BY <1>1 DEF Take
  <2>4. /\ UNCHANGED <<tool, queue, decision, row, prior, origin, receipt, token, card, request>>
        /\ UNCHANGED <<exchanged, ran, recorded, accepted, requeued>>
    BY <1>1 DEF Take
  <2>5. TypesOK' BY <1>t, <2>1, <2>2, <2>3, <2>4 DEF TypesOK, Place
  <2>6. AttemptOK' BY <2>2, <2>3, <2>4 DEF AttemptOK, NoAttempt
  <2>7. OrderOK' BY <2>4 DEF IInv, OrderOK
  <2>8. DispatchOK' BY <2>3 DEF DispatchOK
  <2>9. DecisionOK' BY <2>2, <2>4, DecisionStays
  <2>10. EffectOK' BY <2>3, <2>4 DEF IInv, EffectOK
  <2>11. RecordOK' BY <1>e, <1>j, <2>2, <2>3, <2>4 DEF IInv, RecordOK, NoAttempt
  <2>12. QED BY <2>4, <2>5, <2>6, <2>7, <2>8, <2>9, <2>10, <2>11, WorkerApart DEF IInv
<1>2. CASE FailEarly
  <2>1. /\ phase' \in [Job -> Phase] /\ phase[worker.job] = "working"
        /\ phase'[worker.job] # "none" /\ \A i \in Job \ {worker.job} : phase'[i] = phase[i]
    BY <1>t, <1>j, <1>2 DEF FailEarly, TypesOK, Phase, IInv, AttemptOK
  <2>2. worker' = NoAttempt /\ worker.at = "start" BY <1>2 DEF FailEarly
  <2>3. /\ UNCHANGED <<tool, queue, decision, row, prior, origin, receipt, token, card, request>>
        /\ UNCHANGED <<exchanged, ran, recorded, accepted, requeued>>
    BY <1>2 DEF FailEarly
  <2>4. TypesOK' BY <1>t, <2>1, <2>2, <2>3, NoAttemptTypes DEF TypesOK
  <2>5. AttemptOK' BY <2>2, NoAttemptTypes DEF AttemptOK, NoAttempt
  <2>6. OrderOK' BY <2>3 DEF IInv, OrderOK
  <2>7. DispatchOK' BY <2>2 DEF DispatchOK, NoAttempt
  <2>8. DecisionOK' BY <2>1, <2>3, DecisionStays
  <2>9. EffectOK' BY <2>2, <2>3 DEF IInv, EffectOK, NoAttempt
  <2>10. RecordOK' BY <1>e, <1>j, <2>1, <2>2, <2>3 DEF IInv, RecordOK, NoAttempt
  <2>11. QED BY <2>3, <2>4, <2>5, <2>6, <2>7, <2>8, <2>9, <2>10, WorkerApart DEF IInv
<1>3. CASE Turn
  <2>1. /\ phase' \in [Job -> Phase] /\ phase'["event"] = "effective" /\ phase["event"] = "working"
        /\ \A i \in Job \ {"event"} : phase'[i] = phase[i]
    BY <1>t, <1>3, EffectiveTypes DEF Turn, Working, IInv, AttemptOK
  <2>2. worker = [job |-> "event", at |-> "start"] BY <1>3 DEF Turn, Working
  <2>3. /\ UNCHANGED <<tool, queue, decision, prior, receipt, token, card, request>>
        /\ UNCHANGED <<exchanged, ran, recorded, accepted, requeued>>
    BY <1>3 DEF Turn
  <2>d. DecisionOK' BY <2>1, <2>3, DecisionStays
  <2>4. CASE row[tool.first] = "none"
    <3>1. row' \in [Kind -> RowState] /\ row'[tool.first] = "awaiting"
             /\ \A k \in Kind \ {tool.first} : row'[k] = row[k]
      BY <1>t, <1>j, <1>3, <2>4, RowTypes DEF Turn, RowState
    <3>2. worker' = [job |-> "event", at |-> "send"] BY <1>t, <1>3, <2>2, <2>4, GotoTypes DEF Turn, Place
    <3>3. TypesOK' BY <1>t, <2>1, <2>3, <3>1, <3>2 DEF TypesOK, Place, Job
    <3>4. \A k \in Kind : row[k] = "none" BY <2>4 DEF IInv, OrderOK
    <3>5. AttemptOK' BY <1>j, <1>n, <2>1, <2>2, <2>3, <3>1, <3>2, Kinds DEF AttemptOK, NoAttempt
    <3>6. ~prior /\ ran = <<>> BY <2>4, <3>4, <1>j DEF IInv, OrderOK, EffectOK, DecisionOK
    <3>7. OrderOK' BY <1>j, <2>3, <3>1, <3>4, <3>6 DEF OrderOK, Kind
    <3>8. DispatchOK' BY <3>2 DEF DispatchOK
    <3>9. EffectOK' /\ RecordOK' BY <2>3, <3>6 DEF EffectOK, RecordOK
    <3>10. QED BY <2>d, <2>3, <3>3, <3>5, <3>7, <3>8, <3>9, WorkerApart DEF IInv
  <2>5. CASE row[tool.first] # "none"
    <3>1. worker' = [job |-> "event", at |-> "answer"] /\ row' = row
      BY <1>t, <1>3, <2>2, <2>5, GotoTypes DEF Turn, Place
    <3>2. TypesOK' BY <1>t, <2>1, <2>3, <3>1 DEF TypesOK, Place, Job
    <3>3. AttemptOK' BY <1>n, <2>1, <2>2, <2>3, <2>5, <3>1, Kinds DEF AttemptOK, NoAttempt
    <3>4. OrderOK' BY <2>3, <3>1 DEF IInv, OrderOK
    <3>5. DispatchOK' BY <3>1 DEF DispatchOK
    <3>6. EffectOK' BY <2>3, <3>1 DEF IInv, EffectOK
    <3>7. RecordOK' BY <1>e, <1>j, <2>1, <2>2, <2>3, <3>1 DEF IInv, RecordOK
    <3>8. QED BY <2>d, <2>3, <3>1, <3>2, <3>3, <3>4, <3>5, <3>6, <3>7, WorkerApart DEF IInv
  <2>6. QED BY <2>4, <2>5
<1>4. CASE SendCard
  <2>1. /\ worker' = [job |-> worker.job, at |-> worker'.at] /\ worker'.at \in {"sent", "cancel"}
        /\ worker.at = "send"
    BY <1>t, <1>4, GotoTypes DEF SendCard, Place
  <2>2. /\ UNCHANGED <<tool, phase, queue, decision, row, prior, origin, receipt, token, request>>
        /\ UNCHANGED <<exchanged, ran, recorded, accepted, requeued>>
    BY <1>4 DEF SendCard
  <2>3. TypesOK' BY <1>t, <1>j, <2>1, <2>2 DEF TypesOK, Place
  <2>4. AttemptOK' BY <1>n, <2>1, <2>2 DEF IInv, AttemptOK, NoAttempt
  <2>5. OrderOK' BY <2>2 DEF IInv, OrderOK
  <2>6. DispatchOK' BY <2>1 DEF DispatchOK
  <2>7. DecisionOK' BY <2>2, DecisionStays
  <2>8. EffectOK' BY <2>1, <2>2, EffectStays
  <2>9. RecordOK' BY <2>1, <2>2, RecordStays
  <2>10. QED BY <2>2, <2>3, <2>4, <2>5, <2>6, <2>7, <2>8, <2>9, WorkerApart DEF IInv
<1>5. CASE Cancel
  <2>1. worker' = [job |-> worker.job, at |-> "failed"] /\ worker.at = "cancel"
    BY <1>t, <1>5, GotoTypes DEF Cancel, Place
  <2>2. /\ UNCHANGED <<tool, phase, queue, decision, prior, origin, receipt, token, card, request>>
        /\ UNCHANGED <<exchanged, ran, recorded, accepted, requeued>>
    BY <1>5 DEF Cancel
  <2>3. Asked \in Kind BY <1>j, Kinds DEF Asked
  <2>4. /\ OrderOK' /\ row' \in [Kind -> RowState]
        /\ \A k \in Kind : row'[k] = "none" <=> row[k] = "none"
        /\ \A k \in Kind : row'[k] = "awaiting" => row[k] = "awaiting"
    <3>1. CASE Claimable(Asked)
      <4>1. row[Asked] = "awaiting" /\ Row(Asked, "gone")
        BY <1>5, <3>1 DEF Cancel, Claimable
      <4>2. row' \in [Kind -> RowState] /\ row'[Asked] = "gone"
               /\ \A i \in Kind \ {Asked} : row'[i] = row[i]
        BY <1>t, <2>3, <4>1, RowTypes DEF RowState
      <4>3. QED BY <2>2, <2>3, <4>1, <4>2, Closes
    <3>2. CASE ~Claimable(Asked)
      <4>1. row' = row BY <1>5, <3>2 DEF Cancel
      <4>2. QED BY <1>t, <2>2, <4>1 DEF IInv, OrderOK, TypesOK
    <3>3. QED BY <3>1, <3>2
  <2>5. TypesOK' BY <1>t, <1>j, <2>1, <2>2, <2>4 DEF TypesOK, Place
  <2>6. AttemptOK' BY <1>j, <1>n, <2>1, <2>2, <2>4 DEF IInv, AttemptOK, NoAttempt
  <2>7. DispatchOK' BY <2>1 DEF DispatchOK
  <2>8. DecisionOK' BY <2>2, DecisionStays
  <2>9. EffectOK' BY <2>1, <2>2, <2>4, EffectStays
  <2>10. RecordOK' BY <2>1, <2>2, RecordStays
  <2>11. QED BY <2>2, <2>4, <2>5, <2>6, <2>7, <2>8, <2>9, <2>10, WorkerApart DEF IInv
<1>6. CASE Answer
  <2>1. worker.at \in {"answer", "sent", "failed"} /\ phase[worker.job] = "effective" /\ queue # <<>>
    BY <1>n, <1>6 DEF Answer, IInv, AttemptOK, NoAttempt
  <2>2. /\ phase' \in [Job -> Phase] /\ queue' \in Seq(Job) /\ worker' = NoAttempt
        /\ phase'[worker.job] = "done" /\ \A i \in Job \ {worker.job} : phase'[i] = phase[i]
    BY <1>t, <1>6, <2>1, FinishTypes DEF Answer
  <2>3. /\ UNCHANGED <<tool, decision, prior, origin, receipt, token, card, request>>
        /\ UNCHANGED <<exchanged, ran, recorded, accepted, requeued>>
    BY <1>6 DEF Answer
  <2>4. /\ OrderOK' /\ row' \in [Kind -> RowState]
        /\ \A k \in Kind : row'[k] = "none" <=> row[k] = "none"
        /\ \A k \in Kind : row'[k] = "awaiting" => row[k] = "awaiting"
    <3>1. CASE worker.job = "authorization"
      <4>1. row["authorization"] # "none" /\ Row("authorization", "gone")
        BY <1>j, <1>6, <2>1, <3>1 DEF Answer, IInv, AttemptOK
      <4>2. row' \in [Kind -> RowState] /\ row'["authorization"] = "gone"
               /\ \A i \in Kind \ {"authorization"} : row'[i] = row[i]
        BY <1>t, <1>j, <4>1, RowTypes DEF RowState
      <4>3. QED BY <1>j, <2>3, <4>1, <4>2, Closes
    <3>2. CASE worker.job # "authorization"
      <4>1. row' = row BY <1>6, <3>2 DEF Answer
      <4>2. QED BY <1>t, <2>3, <4>1 DEF IInv, OrderOK, TypesOK
    <3>3. QED BY <3>1, <3>2
  <2>5. TypesOK' BY <1>t, <2>2, <2>3, <2>4, NoAttemptTypes DEF TypesOK
  <2>6. DecisionOK' BY <2>1, <2>2, <2>3, DecisionStays
  <2>7. EffectOK' BY <2>2, <2>3, <2>4, NoAttemptTypes, EffectStays
  <2>8. RecordOK' BY <2>1, <2>2, <2>3, RecordStays
  <2>9. QED BY <2>2, <2>3, <2>4, <2>5, <2>6, <2>7, <2>8, Ends, WorkerApart DEF IInv
<1>7. CASE Resume
  <2>1. worker.at = "start" /\ worker.job \in Kind /\ phase[worker.job] = "working" /\ queue # <<>>
    BY <1>n, <1>7 DEF Resume, IInv, AttemptOK, NoAttempt
  <2>2. /\ UNCHANGED <<tool, decision, row, prior, origin, receipt, token, card, request>>
        /\ UNCHANGED <<exchanged, ran, recorded, accepted, requeued>>
    BY <1>7 DEF Resume
  <2>3. OrderOK' BY <2>2 DEF IInv, OrderOK
  <2>4. CASE row[worker.job] \in {"none", "gone"}
    <3>1. /\ phase' \in [Job -> Phase] /\ queue' \in Seq(Job) /\ worker' = NoAttempt
          /\ phase'[worker.job] = "done" /\ \A i \in Job \ {worker.job} : phase'[i] = phase[i]
      BY <1>t, <1>7, <2>1, <2>4, FinishTypes DEF Resume
    <3>2. TypesOK' BY <1>t, <2>2, <3>1, NoAttemptTypes DEF TypesOK
    <3>3. DecisionOK' BY <2>1, <2>2, <3>1, DecisionStays
    <3>4. EffectOK' BY <2>2, <3>1, NoAttemptTypes, EffectStays
    <3>5. RecordOK' BY <2>1, <2>2, <3>1, RecordStays
    <3>6. QED BY <2>2, <2>3, <3>1, <3>2, <3>3, <3>4, <3>5, Ends, WorkerApart DEF IInv
  <2>5. CASE row[worker.job] \notin {"none", "gone"}
    <3>1. /\ phase' \in [Job -> Phase] /\ queue' = queue
          /\ phase'[worker.job] = "effective" /\ \A i \in Job \ {worker.job} : phase'[i] = phase[i]
      BY <1>t, <1>7, <2>5, EffectiveTypes DEF Resume
    <3>2. worker' = [job |-> worker.job, at |-> "claim"]
      BY <1>t, <1>7, <2>5, GotoTypes DEF Resume, Place
    <3>3. TypesOK' BY <1>t, <1>j, <2>2, <3>1, <3>2 DEF TypesOK, Place
    <3>4. AttemptOK' BY <2>1, <2>2, <2>5, <3>1, <3>2, Kinds DEF AttemptOK
    <3>5. DispatchOK' BY <3>2 DEF DispatchOK
    <3>6. DecisionOK' BY <2>1, <2>2, <3>1, DecisionStays
    <3>7. EffectOK' BY <2>2, <3>2, EffectStays
    <3>8. RecordOK' BY <2>1, <2>2, <3>1, RecordStays
    <3>9. QED BY <2>2, <2>3, <3>3, <3>4, <3>5, <3>6, <3>7, <3>8, WorkerApart DEF IInv
  <2>6. QED BY <2>4, <2>5
<1>8. CASE Claim
  <2>1. /\ worker.at = "claim" /\ worker.job \in Kind /\ phase[worker.job] = "effective" /\ queue # <<>>
        /\ worker.job \in Job
    BY <1>j, <1>n, <1>8 DEF Claim, IInv, AttemptOK, NoAttempt
  <2>2. /\ UNCHANGED <<tool, prior, origin, receipt, token, card, request>>
        /\ UNCHANGED <<exchanged, ran, recorded, accepted, requeued>>
    BY <1>8 DEF Claim
  \* The wait is over: rejected, gone or expired.
  <2>3. ASSUME row[worker.job] \in {"awaiting", "expired"}, Row(worker.job, "gone"), Goto("answer"),
               UNCHANGED <<phase, queue, decision>>
        PROVE  IInv'
    <3>1. row' \in [Kind -> RowState] /\ row'[worker.job] = "gone"
             /\ \A i \in Kind \ {worker.job} : row'[i] = row[i]
      BY <1>t, <2>1, <2>3, RowTypes DEF RowState
    <3>2. /\ OrderOK'
          /\ \A k \in Kind : row'[k] = "none" <=> row[k] = "none"
          /\ \A k \in Kind : row'[k] = "awaiting" => row[k] = "awaiting"
      BY <2>1, <2>2, <2>3, <3>1, Closes
    <3>3. worker' = [job |-> worker.job, at |-> "answer"] BY <1>t, <2>3, GotoTypes DEF Place
    <3>4. TypesOK' BY <1>t, <1>j, <2>2, <2>3, <3>1, <3>3 DEF TypesOK, Place
    <3>5. AttemptOK' BY <2>1, <2>2, <2>3, <3>2, <3>3, Kinds DEF AttemptOK
    <3>6. DispatchOK' BY <3>3 DEF DispatchOK
    <3>7. DecisionOK' BY <2>2, <2>3, DecisionStays
    <3>8. EffectOK' BY <2>2, <2>3, <3>2, <3>3, EffectStays
    <3>9. RecordOK' BY <2>1, <2>2, <2>3, RecordStays
    <3>10. QED BY <2>2, <3>2, <3>4, <3>5, <3>6, <3>7, <3>8, <3>9, WorkerApart DEF IInv
  <2>4. CASE Claimable(worker.job) /\ (~origin \/ Rejected)
    BY <1>8, <2>3, <2>4 DEF Claim, Claimable
  <2>5. CASE row[worker.job] = "expired"
    BY <1>8, <2>3, <2>5 DEF Claim, Claimable
  <2>6. CASE Claimable(worker.job) /\ ~(~origin \/ Rejected)
    <3>1. /\ row[worker.job] = "awaiting" /\ Row(worker.job, "executing")
          /\ UNCHANGED <<phase, queue, decision>>
          /\ Goto(IF NeedsApproval THEN "ask" ELSE "tool")
      BY <1>8, <2>6 DEF Claim, Claimable
    <3>2. row' \in [Kind -> RowState] /\ row'[worker.job] = "executing"
             /\ \A i \in Kind \ {worker.job} : row'[i] = row[i]
      BY <1>t, <2>1, <3>1, RowTypes DEF RowState
    <3>3. worker' = [job |-> worker.job, at |-> IF NeedsApproval THEN "ask" ELSE "tool"]
      BY <1>t, <3>1, GotoTypes DEF Place
    <3>4. TypesOK' BY <1>t, <1>j, <2>2, <3>1, <3>2, <3>3 DEF TypesOK, Place
    <3>5. AttemptOK' BY <2>1, <2>2, <3>1, <3>2, <3>3, Kinds DEF AttemptOK
    <3>6. ran = <<>> BY <2>1, <3>1 DEF IInv, EffectOK
    <3>7. OrderOK' BY <1>j, <2>1, <2>2, <3>1, <3>2, Kinds DEF IInv, OrderOK
    <3>8. worker.job = "approval" => decision = "approve"
      BY <2>1, <2>6 DEF Rejected, IInv, DecisionOK, Decision
    <3>9. worker.job = tool.first => \A k \in Kind \ {tool.first} : row[k] = "none"
      BY <3>1 DEF IInv, OrderOK
    <3>10. NeedsApproval => row["approval"] = "none"
      BY <1>j, <2>1, <3>1, <3>9, Kinds DEF NeedsApproval, IInv, OrderOK
    <3>11. DispatchOK'
      <4>1. CASE NeedsApproval
        BY <1>j, <2>2, <3>2, <3>3, <3>10, <4>1, Kinds DEF DispatchOK, NeedsApproval
      <4>2. CASE ~NeedsApproval
        <5>1. worker.job = "authorization" => ~tool.write \/ prior
          BY <4>2 DEF NeedsApproval
        <5>2. worker'.at = "tool" /\ worker'.job = worker.job /\ tool' = tool /\ decision' = decision
                 /\ prior' = prior
          BY <2>2, <3>1, <3>3, <4>2
        <5>3. QED BY <2>1, <3>2, <3>8, <3>9, <5>1, <5>2 DEF DispatchOK
      <4>3. QED BY <4>1, <4>2
    <3>12. DecisionOK' BY <2>2, <3>1, DecisionStays
    <3>13. EffectOK' /\ RecordOK' BY <2>2, <3>6 DEF EffectOK, RecordOK
    <3>14. QED BY <2>2, <3>4, <3>5, <3>7, <3>11, <3>12, <3>13, WorkerApart DEF IInv
  <2>7. CASE ~Claimable(worker.job) /\ row[worker.job] # "expired"
    <3>1. Freeze /\ UNCHANGED <<row, decision>> BY <1>8, <2>7 DEF Claim
    <3>2. /\ phase' \in [Job -> Phase] /\ queue' = queue /\ worker' = NoAttempt
          /\ phase'[worker.job] = "stuck" /\ \A i \in Job \ {worker.job} : phase'[i] = phase[i]
      BY <1>t, <3>1, FreezeTypes
    <3>3. TypesOK' BY <1>t, <2>2, <3>1, <3>2, NoAttemptTypes DEF TypesOK
    <3>4. OrderOK' BY <2>2, <3>1 DEF IInv, OrderOK
    <3>5. DecisionOK' BY <2>1, <2>2, <3>1, <3>2, DecisionStays
    <3>6. EffectOK' BY <2>2, <3>1, <3>2, NoAttemptTypes, EffectStays
    <3>7. RecordOK' BY <2>1, <2>2, <3>2, RecordStays
    <3>8. QED BY <2>2, <3>2, <3>3, <3>4, <3>5, <3>6, <3>7, Ends, WorkerApart DEF IInv
  <2>8. QED BY <2>4, <2>5, <2>6, <2>7
<1>9. CASE Ask
  <2>1. /\ worker.at = "ask" /\ worker.job = "authorization" /\ tool.write /\ ~prior
        /\ row["authorization"] = "executing" /\ row["approval"] = "none"
    BY <1>9 DEF Ask, IInv, DispatchOK
  <2>2. /\ UNCHANGED <<tool, phase, queue, decision, prior, origin, receipt, token, card, request>>
        /\ UNCHANGED <<exchanged, ran, recorded, accepted, requeued>>
    BY <1>9 DEF Ask
  <2>3. row' \in [Kind -> RowState] /\ row'["approval"] = "awaiting"
           /\ row'["authorization"] = "executing"
    BY <1>t, <1>j, <1>9, <2>1, RowTypes DEF Ask, RowState
  <2>4. worker' = [job |-> "authorization", at |-> "send"] BY <1>t, <1>9, <2>1, GotoTypes DEF Ask, Place
  <2>5. TypesOK' BY <1>t, <1>j, <2>2, <2>3, <2>4 DEF TypesOK, Place
  <2>6. AttemptOK' BY <1>n, <2>1, <2>2, <2>3, <2>4 DEF IInv, AttemptOK, NoAttempt
  <2>7. OrderOK' BY <1>j, <2>1, <2>2, <2>3, Kinds DEF IInv, OrderOK
  <2>8. DispatchOK' BY <2>4 DEF DispatchOK
  <2>9. DecisionOK' BY <2>2, DecisionStays
  <2>10. ran = <<>> BY <2>1 DEF IInv, EffectOK
  <2>11. EffectOK' /\ RecordOK' BY <2>2, <2>10 DEF EffectOK, RecordOK
  <2>12. QED BY <2>2, <2>5, <2>6, <2>7, <2>8, <2>9, <2>11, WorkerApart DEF IInv
<1>10. CASE Dispatch
  <2>1. /\ worker.at = "tool" /\ worker.job \in Kind /\ phase[worker.job] = "effective" /\ queue # <<>>
        /\ row[worker.job] = "executing" /\ worker # NoAttempt
    BY <1>n, <1>10 DEF Dispatch, IInv, AttemptOK, DispatchOK, NoAttempt
  <2>2. ran = <<>> BY <2>1 DEF IInv, EffectOK
  <2>3. /\ UNCHANGED <<tool, decision, origin, receipt, token, card, request>>
        /\ UNCHANGED <<exchanged, recorded, accepted, requeued>>
    BY <1>10 DEF Dispatch
  <2>4. CASE /\ NeedsToken /\ worker.job = "approval" /\ row["authorization"] = "none"
             /\ row' = [row EXCEPT !["approval"] = "gone", !["authorization"] = "awaiting"]
             /\ prior' = TRUE /\ Goto("send")
             /\ UNCHANGED <<jobVars, ran>>
    <3>1. row' \in [Kind -> RowState] /\ row'["approval"] = "gone" /\ row'["authorization"] = "awaiting"
      BY <1>t, <2>4 DEF TypesOK, Kind, RowState
    <3>2. worker' = [job |-> "approval", at |-> "send"] BY <1>t, <2>4, GotoTypes DEF Place
    <3>3. decision = "approve" BY <2>1, <2>4 DEF IInv, DispatchOK
    <3>4. tool.first = "approval" BY <1>j, <2>1, <2>4, Kinds DEF IInv, OrderOK
    <3>5. TypesOK' BY <1>t, <1>j, <2>3, <2>4, <3>1, <3>2 DEF TypesOK, Place
    <3>6. AttemptOK' BY <2>1, <2>4, <3>1, <3>2, Kinds DEF AttemptOK
    <3>7. OrderOK' BY <2>3, <2>4, <3>1, <3>4, Kinds DEF OrderOK
    <3>8. DispatchOK' BY <3>2 DEF DispatchOK
    <3>9. DecisionOK' BY <2>3, <2>4, <3>3, DecisionStays
    <3>10. EffectOK' /\ RecordOK' BY <2>2, <2>4 DEF EffectOK, RecordOK
    <3>11. QED BY <2>3, <3>5, <3>6, <3>7, <3>8, <3>9, <3>10, WorkerApart DEF IInv
  \* What is true of an effect when the dispatch has it.
  <2>5. /\ \A k \in Kind : row[k] # "awaiting"
        /\ row[tool.first] # "none"
        /\ tool.write \/ worker.job = "approval" => decision = "approve"
    BY <1>j, <2>1, Kinds DEF IInv, OrderOK, DispatchOK, DecisionOK
  <2>6. /\ Append(ran, worker.job) \in Seq(Kind) /\ Len(Append(ran, worker.job)) = 1
        /\ Append(ran, worker.job)[1] = worker.job
    BY <2>1, <2>2
  <2>7. CASE ran' = Append(ran, worker.job) /\ Goto("result") /\ UNCHANGED <<jobVars, row, prior>>
    <3>1. worker' = [job |-> worker.job, at |-> "result"] BY <1>t, <2>7, GotoTypes DEF Place
    <3>2. TypesOK' BY <1>t, <1>j, <2>3, <2>6, <2>7, <3>1 DEF TypesOK, Place
    <3>3. AttemptOK' BY <2>1, <2>3, <2>7, <3>1, Kinds DEF AttemptOK
    <3>4. OrderOK' BY <2>3, <2>7 DEF IInv, OrderOK
    <3>5. DispatchOK' BY <3>1 DEF DispatchOK
    <3>6. DecisionOK' BY <2>3, <2>7, DecisionStays
    <3>7. EffectOK' BY <2>3, <2>5, <2>6, <2>7, <3>1 DEF EffectOK
    <3>8. RecordOK' BY <2>6, <2>7, <3>1 DEF RecordOK
    <3>9. QED BY <2>3, <3>2, <3>3, <3>4, <3>5, <3>6, <3>7, <3>8, WorkerApart DEF IInv
  <2>8. CASE /\ ran' \in {ran, Append(ran, worker.job)}
             /\ Row(worker.job, "unknown") /\ Freeze
             /\ UNCHANGED prior
    <3>1. /\ phase' \in [Job -> Phase] /\ queue' = queue /\ worker' = NoAttempt
          /\ phase'[worker.job] = "stuck" /\ \A i \in Job \ {worker.job} : phase'[i] = phase[i]
      BY <1>t, <2>8, FreezeTypes
    <3>2. row' \in [Kind -> RowState] /\ row'[worker.job] = "unknown"
             /\ \A i \in Kind \ {worker.job} : row'[i] = row[i]
      BY <1>t, <2>1, <2>8, RowTypes DEF RowState
    <3>3. /\ OrderOK'
          /\ \A k \in Kind : row'[k] = "none" <=> row[k] = "none"
          /\ \A k \in Kind : row'[k] = "awaiting" => row[k] = "awaiting"
      BY <2>1, <2>3, <2>8, <3>2, Closes
    <3>4. ran' \in Seq(Kind) BY <1>t, <2>6, <2>8 DEF TypesOK
    <3>5. TypesOK' BY <1>t, <2>3, <2>8, <3>1, <3>2, <3>4, NoAttemptTypes DEF TypesOK
    <3>6. DecisionOK' BY <2>1, <2>3, <2>8, <3>1, DecisionStays
    <3>7. EffectOK' BY <1>j, <2>2, <2>3, <2>5, <2>6, <2>8, <3>1, <3>3 DEF EffectOK, NoAttempt
    <3>8. RecordOK' BY <2>2, <2>6, <2>8, <3>1 DEF RecordOK
    <3>9. QED BY <2>3, <3>1, <3>3, <3>5, <3>6, <3>7, <3>8, Ends, WorkerApart DEF IInv
  <2>9. QED BY <1>10, <2>4, <2>7, <2>8 DEF Dispatch
<1>11. CASE Record
  <2>1. /\ worker.at = "result" /\ worker.job \in Kind /\ phase[worker.job] = "effective" /\ queue # <<>>
        /\ row[worker.job] # "none"
    BY <1>n, <1>11 DEF Record, IInv, AttemptOK, NoAttempt
  <2>2. /\ UNCHANGED <<tool, phase, queue, decision, prior, origin, receipt, token, card, request>>
        /\ UNCHANGED <<exchanged, ran, accepted, requeued>>
    BY <1>11 DEF Record
  <2>3. DecisionOK' BY <2>2, DecisionStays
  <2>4. CASE worker.job = "approval" /\ row["approval"] = "executing"
    <3>1. Row("approval", "gone") /\ UNCHANGED <<worker, recorded>> BY <1>11, <2>4 DEF Record
    <3>2. row' \in [Kind -> RowState] /\ row'["approval"] = "gone"
             /\ \A i \in Kind \ {"approval"} : row'[i] = row[i]
      BY <1>t, <1>j, <3>1, RowTypes DEF RowState
    <3>3. /\ OrderOK'
          /\ \A k \in Kind : row'[k] = "none" <=> row[k] = "none"
          /\ \A k \in Kind : row'[k] = "awaiting" => row[k] = "awaiting"
      BY <1>j, <2>2, <2>4, <3>2, Closes
    <3>4. TypesOK' BY <1>t, <2>2, <3>1, <3>2 DEF TypesOK
    <3>5. AttemptOK' BY <1>j, <2>1, <2>2, <3>1, <3>3 DEF IInv, AttemptOK
    <3>6. DispatchOK' BY <2>1, <3>1 DEF DispatchOK
    <3>7. EffectOK' BY <2>2, <3>1, <3>3, EffectStays
    <3>8. RecordOK' BY <2>2, <3>1 DEF IInv, RecordOK
    <3>9. QED BY <2>2, <2>3, <3>3, <3>4, <3>5, <3>6, <3>7, <3>8, WorkerApart DEF IInv
  <2>5. CASE ~(worker.job = "approval" /\ row["approval"] = "executing")
    <3>1. recorded' = TRUE /\ Goto("answer") /\ row' = row BY <1>11, <2>5 DEF Record
    <3>2. worker' = [job |-> worker.job, at |-> "answer"] BY <1>t, <3>1, GotoTypes DEF Place
    <3>3. TypesOK' BY <1>t, <1>j, <2>2, <3>1, <3>2 DEF TypesOK, Place
    <3>4. AttemptOK' BY <2>1, <2>2, <3>1, <3>2, Kinds DEF AttemptOK
    <3>5. OrderOK' BY <2>2, <3>1 DEF IInv, OrderOK
    <3>6. DispatchOK' BY <3>2 DEF DispatchOK
    <3>7. EffectOK' BY <2>2, <3>1, <3>2, EffectStays
    <3>8. RecordOK' BY <3>1 DEF RecordOK
    <3>9. QED BY <2>2, <2>3, <3>3, <3>4, <3>5, <3>6, <3>7, <3>8, WorkerApart DEF IInv
  <2>6. QED BY <2>4, <2>5
<1>12. CASE FailLate
  <2>1. worker.at \notin {"idle", "start"} /\ phase[worker.job] = "effective"
    BY <1>12 DEF FailLate, IInv, AttemptOK
  <2>2. /\ phase' \in [Job -> Phase] /\ queue' = queue /\ worker' = NoAttempt
        /\ phase'[worker.job] = "stuck" /\ \A i \in Job \ {worker.job} : phase'[i] = phase[i]
    BY <1>t, <1>12, FreezeTypes DEF FailLate
  <2>3. /\ UNCHANGED <<tool, decision, prior, origin, receipt, token, card, request>>
        /\ UNCHANGED <<exchanged, ran, recorded, accepted, requeued>>
    BY <1>12 DEF FailLate
  <2>4. /\ OrderOK' /\ row' \in [Kind -> RowState]
        /\ \A k \in Kind : row'[k] = "none" <=> row[k] = "none"
        /\ \A k \in Kind : row'[k] = "awaiting" => row[k] = "awaiting"
    <3>1. CASE Row("authorization", "unknown") /\ row["authorization"] # "none"
      <4>1. row' \in [Kind -> RowState] /\ row'["authorization"] = "unknown"
               /\ \A i \in Kind \ {"authorization"} : row'[i] = row[i]
        BY <1>t, <1>j, <3>1, RowTypes DEF RowState
      <4>2. QED BY <1>j, <2>3, <3>1, <4>1, Closes
    <3>2. CASE row' = row
      BY <1>t, <2>3, <3>2 DEF IInv, OrderOK, TypesOK
    <3>3. QED BY <1>12, <3>1, <3>2 DEF FailLate
  <2>5. TypesOK' BY <1>t, <2>2, <2>3, <2>4, NoAttemptTypes DEF TypesOK
  <2>6. DecisionOK' BY <2>1, <2>2, <2>3, DecisionStays
  <2>7. EffectOK' BY <2>2, <2>3, <2>4, NoAttemptTypes, EffectStays
  <2>8. RecordOK' BY <1>e, <1>j, <2>2, <2>3 DEF IInv, RecordOK
  <2>9. QED BY <2>2, <2>3, <2>4, <2>5, <2>6, <2>7, <2>8, Ends, WorkerApart DEF IInv
<1>13. QED
  BY <1>1, <1>2, <1>3, <1>4, <1>5, <1>6, <1>7, <1>8, <1>9, <1>10, <1>11, <1>12 DEF WorkerStep

-----------------------------------------------------------------------------
(* The process, the user and the operator keep the invariant *)

LEMMA OthersKeep ==
    ASSUME IInv, Crash \/ Clear \/ (\E k \in Kind : Expire(k)) \/ (\E j \in Job : Requeue(j))
           \/ UNCHANGED callbackVars
    PROVE  IInv'
<1> USE DEF jobVars, rowVars, historyVars
<1>t. TypesOK BY DEF IInv
<1>e. ran # <<>> => ran[1] \in Job BY <1>t, Kinds DEF TypesOK, IInv, EffectOK
<1>1. CASE Crash
  <2>1. /\ UNCHANGED <<tool, queue, decision, row, prior, origin, receipt, token, card>>
        /\ UNCHANGED <<exchanged, ran, recorded, accepted, requeued>>
        /\ worker' = NoAttempt
    BY <1>1 DEF Crash
  <2>2. /\ phase' \in [Job -> Phase]
        /\ \A j \in Job : phase'[j] = "none" <=> phase[j] = "none"
        /\ \A j \in Job : phase[j] \in {"effective", "stuck"} => phase'[j] = "stuck"
    BY <1>t, <1>1 DEF Crash, AfterCrash, TypesOK, Phase
  <2>3. /\ request' \in [Request -> [at : {"new", "exchange", "commit", "over"}]]
        /\ \A r \in Request : request'[r].at # "exchange"
    BY <1>t, <1>1 DEF Crash, TypesOK
  <2>4. TypesOK' BY <1>t, <2>1, <2>2, <2>3, NoAttemptTypes DEF TypesOK
  <2>5. OrderOK' BY <2>1 DEF IInv, OrderOK
  <2>6. DecisionOK' BY <2>1, <2>2, DecisionStays
  <2>7. EffectOK' BY <2>1, NoAttemptTypes, EffectStays
  <2>8. RecordOK'
    <3>1. worker.at = "result" => phase[worker.job] = "effective" BY DEF IInv, AttemptOK
    <3>2. QED BY <1>e, <2>1, <2>2, <3>1 DEF IInv, RecordOK
  <2>9. ExchangeOK' BY <2>1, <2>3 DEF IInv, ExchangeOK
  <2>10. QED BY <2>1, <2>4, <2>5, <2>6, <2>7, <2>8, <2>9, Ends DEF IInv
<1>2. CASE Clear
  <2>1. /\ UNCHANGED <<tool, phase, queue, decision, row, prior, receipt, token, card, worker, request>>
        /\ UNCHANGED <<exchanged, ran, recorded, accepted, requeued>>
    BY <1>2 DEF Clear
  <2>2. QED
    BY <1>t, <2>1 DEF IInv, TypesOK, AttemptOK, OrderOK, DispatchOK, DecisionOK, EffectOK,
       RecordOK, ExchangeOK
<1>3. ASSUME NEW k \in Kind, Expire(k) PROVE IInv'
  <2>1. /\ UNCHANGED <<tool, phase, queue, decision, prior, origin, receipt, token, card, worker, request>>
        /\ UNCHANGED <<exchanged, ran, recorded, accepted, requeued>>
        /\ row[k] = "awaiting"
    BY <1>3 DEF Expire
  <2>2. row' \in [Kind -> RowState] /\ row'[k] = "expired" /\ \A i \in Kind \ {k} : row'[i] = row[i]
    BY <1>t, <1>3, RowTypes DEF Expire, RowState
  <2>3. /\ OrderOK'
        /\ \A i \in Kind : row'[i] = "none" <=> row[i] = "none"
        /\ \A i \in Kind : row'[i] = "awaiting" => row[i] = "awaiting"
    BY <2>1, <2>2, Closes
  <2>4. TypesOK' BY <1>t, <2>1, <2>2 DEF TypesOK
  <2>5. tool.first \in Kind BY <1>t DEF TypesOK
  <2>6. AttemptOK' BY <2>1, <2>3, <2>5 DEF IInv, AttemptOK
  <2>7. DispatchOK'
    <3>1. "authorization" \in Kind /\ "approval" \in Kind BY Kinds
    <3>2. worker.at = "tool" => worker.job \in Kind BY DEF IInv, AttemptOK
    <3>3. QED BY <2>1, <2>2, <2>3, <3>1, <3>2 DEF IInv, DispatchOK
  <2>8. DecisionOK' BY <2>1, DecisionStays
  <2>9. EffectOK' BY <2>1, <2>3, EffectStays
  <2>10. RecordOK' BY <2>1 DEF IInv, RecordOK
  <2>11. QED BY <2>1, <2>3, <2>4, <2>6, <2>7, <2>8, <2>9, <2>10, WorkerApart DEF IInv
<1>4. ASSUME NEW j \in Job, Requeue(j) PROVE IInv'
  <2>1. /\ UNCHANGED <<tool, queue, decision, row, prior, origin, receipt, token, card, worker, request>>
        /\ UNCHANGED <<exchanged, ran, recorded, accepted>>
        /\ requeued' = requeued \cup {j} /\ phase[j] = "stuck"
    BY <1>4 DEF Requeue
  <2>2. phase' \in [Job -> Phase] /\ phase'[j] = "waiting" /\ \A i \in Job \ {j} : phase'[i] = phase[i]
    BY <1>t, <1>4 DEF Requeue, TypesOK, Phase
  <2>3. TypesOK' BY <1>t, <2>1, <2>2 DEF TypesOK
  <2>4. worker.job \in Job BY <1>t DEF TypesOK
  <2>5. AttemptOK' BY <2>1, <2>2, <2>4 DEF IInv, AttemptOK
  <2>6. OrderOK' /\ DispatchOK' BY <2>1 DEF IInv, OrderOK, DispatchOK
  <2>7. DecisionOK' BY <2>1, <2>2, DecisionStays
  <2>8. EffectOK' BY <2>1, EffectStays
  <2>9. RecordOK' BY <1>e, <2>1, <2>2 DEF IInv, RecordOK
  <2>10. QED BY <2>1, <2>3, <2>5, <2>6, <2>7, <2>8, <2>9, WorkerApart DEF IInv
<1>5. CASE UNCHANGED callbackVars
  BY <1>t, <1>5 DEF callbackVars, IInv, TypesOK, AttemptOK, OrderOK, DispatchOK, DecisionOK,
     EffectOK, RecordOK, ExchangeOK
<1>6. QED BY <1>1, <1>2, <1>3, <1>4, <1>5

-----------------------------------------------------------------------------
(* The theorems *)

\* The inductive invariant of the callbacks holds in every state.
THEOREM CallbacksInvariant == CallbacksSpec => []IInv
<1>1. CallbacksInit => IInv
  <2> SUFFICES ASSUME CallbacksInit PROVE IInv OBVIOUS
  <2>1. /\ tool \in [first : Kind, write : BOOLEAN, late : BOOLEAN]
        /\ worker = NoAttempt /\ ran = <<>> /\ exchanged = 0 /\ prior = FALSE
        /\ \A k \in Kind : row[k] = "none"
        /\ \A r \in Request : request[r].at = "new"
    BY CallbacksAssumption DEF CallbacksInit
  <2>2. TypesOK
    <3>1. phase \in [Job -> Phase] BY DEF CallbacksInit, Phase
    <3>2. row \in [Kind -> RowState] BY DEF CallbacksInit, RowState
    <3>3. request \in [Request -> [at : {"new", "exchange", "commit", "over"}]] BY DEF CallbacksInit
    <3>4. queue \in Seq(Job) /\ ran \in Seq(Kind) BY DEF CallbacksInit
    <3>5. decision \in Decision \cup {"none"} /\ receipt \in {"none", "exchanging", "completed"}
          /\ exchanged \in Nat
      BY DEF CallbacksInit
    <3>6. worker \in [job : Job, at : Place] BY <2>1, NoAttemptTypes
    <3>7. recorded \in BOOLEAN /\ prior \in BOOLEAN BY DEF CallbacksInit
    <3>8. QED BY <2>1, <3>1, <3>2, <3>3, <3>4, <3>5, <3>6, <3>7 DEF TypesOK
  <2>3. AttemptOK /\ DispatchOK BY <2>1 DEF AttemptOK, DispatchOK, NoAttempt
  <2>4. OrderOK BY <2>1, Kinds DEF OrderOK
  <2>5. DecisionOK BY <2>1, Kinds DEF CallbacksInit, DecisionOK
  <2>6. EffectOK /\ RecordOK BY <2>1 DEF EffectOK, RecordOK
  <2>7. ExchangeOK BY <2>1 DEF ExchangeOK
  <2>8. QED BY <2>2, <2>3, <2>4, <2>5, <2>6, <2>7 DEF IInv
<1>2. IInv /\ [CallbacksNext]_callbackVars => IInv'
  BY RequestsKeep, WorkerKeeps, OthersKeep DEF CallbacksNext
<1>3. QED BY <1>1, <1>2, PTL DEF CallbacksSpec

\* Whatever is repeated, dies or is put back, the tool has its effect once and one code
\* is exchanged, for any number of requests.
THEOREM EffectOnce == CallbacksSpec => []RanOnce
<1>1. IInv => RanOnce
  <2>1. Len(<<>>) = 0 OBVIOUS
  <2>2. QED BY <2>1 DEF IInv, EffectOK, ExchangeOK, RanOnce
<1>2. QED BY <1>1, CallbacksInvariant, PTL

\* Nobody was told another decision than the one that counts, and a write is
\* dispatched only after "approve".
THEOREM DecisionRules == CallbacksSpec => []RunsAsDecided
<1>1. IInv => RunsAsDecided
  <2> SUFFICES ASSUME IInv PROVE RunsAsDecided OBVIOUS
  <2>1. ran # <<>> => Last(ran) = ran[1] BY DEF IInv, EffectOK, Last
  <2>2. QED BY <2>1 DEF IInv, EffectOK, DecisionOK, RunsAsDecided
<1>2. QED BY <1>1, CallbacksInvariant, PTL

\* A continuation whose tool had its effect is not completed without the result in
\* the conversation, unless an operator put it back.
THEOREM ResultsKept == CallbacksSpec => []DoneIsRecorded
<1>1. IInv => DoneIsRecorded
  <2> SUFFICES ASSUME IInv, NEW j \in ToSet(ran), phase[j] = "done", j \notin requeued
               PROVE  recorded
    BY DEF DoneIsRecorded
  <2>1. ran # <<>> /\ j = ran[1]
    BY DEF IInv, TypesOK, EffectOK, ToSet
  <2>2. worker.at = "result" => phase[worker.job] = "effective" BY DEF IInv, AttemptOK
  <2>3. QED BY <2>1, <2>2 DEF IInv, RecordOK
<1>2. QED BY <1>1, CallbacksInvariant, PTL

-----------------------------------------------------------------------------
(* The callbacks use an inbox *)

\* The queue holds the unresolved jobs, each once, and the worker is at its head.
QueueOK ==
    /\ \A j \in Job : phase[j] \in Inbox!Open <=> \E n \in DOMAIN queue : queue[n] = j
    /\ \A m, n \in DOMAIN queue : queue[m] = queue[n] => m = n
    /\ worker # NoAttempt => queue # <<>> /\ worker.job = queue[1]

\* A step that leaves the queue alone: no job begins or ends, and who starts is its head.
Moved ==
    /\ queue' = queue
    /\ \A j \in Job :
          /\ phase'[j] \in Inbox!Moves[phase[j]]
          /\ phase[j] = "none" <=> phase'[j] = "none"
          /\ phase[j] \in Inbox!Open <=> phase'[j] \in Inbox!Open
          /\ phase[j] = "waiting" /\ phase'[j] = "working" => queue # <<>> /\ j = queue[1]
    /\ worker' # NoAttempt => queue # <<>> /\ worker'.job = queue[1]

Arrived(j) ==
    /\ phase[j] = "none" /\ phase'[j] = "waiting"
    /\ \A i \in Job \ {j} : phase'[i] = phase[i]
    /\ queue' = Append(queue, j) /\ worker' = worker

Left(j) ==
    /\ phase[j] \in {"working", "effective"} /\ phase'[j] = "done"
    /\ \A i \in Job \ {j} : phase'[i] = phase[i]
    /\ queue # <<>> /\ j = queue[1] /\ queue' = Tail(queue) /\ worker' = NoAttempt

LEMMA PhaseFacts ==
    /\ Inbox!Open = Phase \ {"none", "done"}
    /\ Inbox!Moves["none"] = {"none", "waiting"}
    /\ Inbox!Moves["waiting"] = {"waiting", "working"}
    /\ Inbox!Moves["working"] = {"working", "effective", "waiting", "stuck", "done"}
    /\ Inbox!Moves["effective"] = {"effective", "stuck", "done"}
    /\ Inbox!Moves["stuck"] = {"stuck", "waiting"}
    /\ Inbox!Moves["done"] = {"done"}
BY DEF Inbox!Open, Inbox!Moves, Phase

\* A step of the inbox, said of the queue.
LEMMA StepFacts ==
    ASSUME TypesOK, TypesOK', NEW arrived \in {{}} \cup {{e} : e \in Job},
           \A j \in Job :
              /\ phase'[j] \in Inbox!Moves[phase[j]]
              /\ phase[j] = "none" /\ phase'[j] # "none" <=> j \in arrived
              /\ phase[j] = "waiting" /\ phase'[j] = "working" => Before(j)' = {}
              /\ phase'[j] \notin Inbox!Open => Before(j)' = {}
              /\ phase'[j] \in Inbox!Open =>
                    Before(j)' = {f \in IF j \in arrived THEN Job ELSE Before(j) :
                                     phase[f] \in Inbox!Open /\ phase'[f] \in Inbox!Open}
    PROVE  Inbox!InboxNext
<1> DEFINE lane == [j \in Job |-> "session"]
<1>1. phase = [e \in Job |-> phase[e]] /\ phase' = [e \in Job |-> phase'[e]] BY DEF TypesOK
<1>2. \A j \in Job : {f \in Job : lane[f] = lane[j]} = Job OBVIOUS
<1>3. \A j \in Job : [i \in Job |-> Before(i)']  = [i \in Job |-> Before(i)]' OBVIOUS
<1>4. \A j \in Job : Before(j) \subseteq Job /\ [i \in Job |-> Before(i)][j] = Before(j)
  BY DEF Before, TypesOK
<1>5. Inbox!Step({}, arrived)
  BY <1>1, <1>2, <1>4 DEF Inbox!Step
<1>6. QED BY <1>5 DEF Inbox!InboxNext

LEMMA MovedSimulated ==
    ASSUME TypesOK, TypesOK', QueueOK, Moved
    PROVE  QueueOK' /\ Inbox!InboxNext
<1>1. \A j \in Job : Before(j)' = Before(j) BY DEF Moved, Before
<1>2. QueueOK' BY DEF QueueOK, Moved
<1>3. \A j \in Job : phase'[j] \notin Inbox!Open => Before(j) = {}
  BY DEF Moved, QueueOK, Before
<1>4. \A j \in Job : phase[j] = "waiting" /\ phase'[j] = "working" => Before(j) = {}
  <2> SUFFICES ASSUME NEW j \in Job, j = queue[1], queue # <<>> PROVE Before(j) = {} BY DEF Moved
  <2>1. \A n \in DOMAIN queue : queue[n] = j => n = 1 BY DEF QueueOK, TypesOK
  <2>2. QED BY <2>1 DEF Before, TypesOK
<1>5. \A j \in Job : \A f \in Before(j) : f \in Job /\ phase[f] \in Inbox!Open /\ phase'[f] \in Inbox!Open
  <2> SUFFICES ASSUME NEW n \in DOMAIN queue
               PROVE  queue[n] \in Job /\ phase[queue[n]] \in Inbox!Open /\ phase'[queue[n]] \in Inbox!Open
    BY DEF Before
  <2>1. queue[n] \in Job BY DEF TypesOK
  <2>2. QED BY <2>1 DEF QueueOK, Moved
<1>6. \A j \in Job :
          /\ phase'[j] \in Inbox!Moves[phase[j]]
          /\ ~(phase[j] = "none" /\ phase'[j] # "none")
          /\ phase[j] = "waiting" /\ phase'[j] = "working" => Before(j)' = {}
          /\ phase'[j] \notin Inbox!Open => Before(j)' = {}
          /\ Before(j)' = {f \in Before(j) : phase[f] \in Inbox!Open /\ phase'[f] \in Inbox!Open}
  <2> SUFFICES ASSUME NEW j \in Job
               PROVE  Before(j) = {f \in Before(j) : phase[f] \in Inbox!Open /\ phase'[f] \in Inbox!Open}
    BY <1>1, <1>3, <1>4 DEF Moved
  <2>1. QED BY <1>5
<1>7. QED BY <1>2, <1>6, StepFacts

LEMMA ArrivedSimulated ==
    ASSUME TypesOK, TypesOK', QueueOK, NEW j \in Job, Arrived(j)
    PROVE  QueueOK' /\ Inbox!InboxNext
<1>1. /\ Len(queue) \in Nat /\ Len(queue') = Len(queue) + 1 /\ queue'[Len(queue) + 1] = j
      /\ DOMAIN queue = 1 .. Len(queue) /\ DOMAIN queue' = 1 .. Len(queue) + 1
      /\ \A n \in DOMAIN queue : queue'[n] = queue[n] /\ queue[n] \in Job
  BY DEF TypesOK, Arrived
<1>2. \A n \in DOMAIN queue : queue[n] # j BY PhaseFacts DEF QueueOK, Arrived
<1>3. QueueOK'
  <2>1. \A i \in Job : phase'[i] \in Inbox!Open <=> \E n \in DOMAIN queue' : queue'[n] = i
    <3>1. CASE TRUE
      <4> SUFFICES ASSUME NEW i \in Job
                   PROVE  phase'[i] \in Inbox!Open <=> \E n \in DOMAIN queue' : queue'[n] = i
        OBVIOUS
      <4>1. CASE i = j BY <1>1, <4>1, PhaseFacts DEF Arrived, Phase
      <4>2. CASE i # j
        <5>1. phase'[i] = phase[i] BY <4>2 DEF Arrived
        <5>2. (\E n \in DOMAIN queue' : queue'[n] = i) <=> \E n \in DOMAIN queue : queue[n] = i
          BY <1>1, <4>2
        <5>3. QED BY <5>1, <5>2 DEF QueueOK
      <4>3. QED BY <4>1, <4>2
    <3>2. QED BY <3>1
  <2>2. \A m, n \in DOMAIN queue' : queue'[m] = queue'[n] => m = n
    BY <1>1, <1>2 DEF QueueOK
  <2>3. worker' # NoAttempt => queue' # <<>> /\ worker'.job = queue'[1]
    BY <1>1 DEF QueueOK, Arrived, TypesOK
  <2>4. QED BY <2>1, <2>2, <2>3 DEF QueueOK
<1>4. \A i \in Job \ {j} : Before(i)' = Before(i)
  <2> SUFFICES ASSUME NEW i \in Job \ {j}, NEW f PROVE f \in Before(i)' <=> f \in Before(i) OBVIOUS
  <2>1. f \in Before(i)' <=> \E m \in DOMAIN queue' : queue'[m] = f /\ \E n \in DOMAIN queue' : m < n /\ queue'[n] = i
    BY DEF Before
  <2>2. f \in Before(i) <=> \E m \in DOMAIN queue : queue[m] = f /\ \E n \in DOMAIN queue : m < n /\ queue[n] = i
    BY DEF Before
  <2>3. QED BY <1>1, <2>1, <2>2
<1>5. Before(j)' = {f \in Job : phase[f] \in Inbox!Open}
  <2> SUFFICES ASSUME NEW f \in Job
               PROVE  f \in Before(j)' <=> \E n \in DOMAIN queue : queue[n] = f
    <3>1. Before(j)' \subseteq Job BY DEF Before, TypesOK
    <3>2. QED BY <3>1 DEF QueueOK
  <2>1. f \in Before(j)' <=> \E m \in DOMAIN queue' : queue'[m] = f /\ \E n \in DOMAIN queue' : m < n /\ queue'[n] = j
    BY DEF Before
  <2>2. \A m, n \in DOMAIN queue' : m < n /\ queue'[n] = j <=> n = Len(queue) + 1 /\ m \in DOMAIN queue
    BY <1>1, <1>2
  <2>3. QED BY <1>1, <2>1, <2>2
<1>6. \A i \in Job : phase[i] \notin Inbox!Open => Before(i) = {} BY DEF QueueOK, Before
<1>7. \A i \in Job : \A f \in Before(i) : f \in Job /\ phase[f] \in Inbox!Open
  BY <1>1 DEF Before, QueueOK
<1>8. phase[j] \notin Inbox!Open /\ phase'[j] \in Inbox!Open BY PhaseFacts DEF Arrived, Phase
<1>9. \A i \in Job : phase[i] \in Inbox!Open => phase'[i] \in Inbox!Open
  BY <1>8 DEF Arrived
<1>10. \A i \in Job : phase'[i] \in Inbox!Moves[phase[i]]
  <2>1. \A i \in Job : phase[i] \in Inbox!Moves[phase[i]] BY PhaseFacts DEF TypesOK, Phase
  <2>2. QED BY <2>1, PhaseFacts DEF Arrived
<1>11. \A i \in Job :
          /\ phase[i] = "none" /\ phase'[i] # "none" <=> i \in {j}
          /\ ~(phase[i] = "waiting" /\ phase'[i] = "working")
          /\ phase'[i] \notin Inbox!Open => Before(i)' = {}
  BY <1>4, <1>6, <1>8, <1>9 DEF Arrived
<1>12. \A i \in Job : phase'[i] \in Inbox!Open =>
          Before(i)' = {f \in IF i \in {j} THEN Job ELSE Before(i) :
                           phase[f] \in Inbox!Open /\ phase'[f] \in Inbox!Open}
  <2> SUFFICES ASSUME NEW i \in Job
               PROVE  Before(i)' = {f \in IF i \in {j} THEN Job ELSE Before(i) :
                                       phase[f] \in Inbox!Open /\ phase'[f] \in Inbox!Open}
    OBVIOUS
  <2>1. CASE i = j BY <1>5, <1>9, <2>1
  <2>2. CASE i # j BY <1>4, <1>7, <1>9, <2>2
  <2>3. QED BY <2>1, <2>2
<1>13. {j} \in {{}} \cup {{e} : e \in Job} OBVIOUS
<1>14. QED BY <1>3, <1>10, <1>11, <1>12, <1>13, StepFacts

LEMMA LeftSimulated ==
    ASSUME TypesOK, TypesOK', QueueOK, NEW j \in Job, Left(j)
    PROVE  QueueOK' /\ Inbox!InboxNext
<1>1. /\ Len(queue) \in Nat \ {0} /\ Len(queue') = Len(queue) - 1 /\ queue[1] = j
      /\ DOMAIN queue = 1 .. Len(queue) /\ DOMAIN queue' = 1 .. Len(queue) - 1
      /\ \A n \in DOMAIN queue' : queue'[n] = queue[n + 1]
      /\ \A n \in DOMAIN queue : queue[n] \in Job
  BY DEF TypesOK, Left
<1>2. \A n \in DOMAIN queue : queue[n] = j => n = 1 BY <1>1 DEF QueueOK
<1>3. \A i : (\E n \in DOMAIN queue' : queue'[n] = i) <=> i # j /\ \E n \in DOMAIN queue : queue[n] = i
  <2> SUFFICES ASSUME NEW i
               PROVE  (\E n \in DOMAIN queue' : queue'[n] = i) <=> i # j /\ \E n \in DOMAIN queue : queue[n] = i
    OBVIOUS
  <2>1. ASSUME NEW n \in DOMAIN queue', queue'[n] = i PROVE i # j /\ \E m \in DOMAIN queue : queue[m] = i
    <3>1. n + 1 \in DOMAIN queue /\ n + 1 # 1 /\ queue[n + 1] = i BY <1>1, <2>1
    <3>2. QED BY <1>2, <3>1
  <2>2. ASSUME i # j, NEW n \in DOMAIN queue, queue[n] = i PROVE \E m \in DOMAIN queue' : queue'[m] = i
    <3>1. n # 1 BY <1>1, <2>2
    <3>2. n - 1 \in DOMAIN queue' /\ queue'[n - 1] = i BY <1>1, <2>2, <3>1
    <3>3. QED BY <3>2
  <2>3. QED BY <2>1, <2>2
<1>4. QueueOK'
  <2>1. \A i \in Job : phase'[i] \in Inbox!Open <=> \E n \in DOMAIN queue' : queue'[n] = i
    BY <1>3, PhaseFacts DEF QueueOK, Left
  <2>2. \A m, n \in DOMAIN queue' : queue'[m] = queue'[n] => m = n
    <3> SUFFICES ASSUME NEW m \in DOMAIN queue', NEW n \in DOMAIN queue', queue'[m] = queue'[n] PROVE m = n
      OBVIOUS
    <3>1. m + 1 \in DOMAIN queue /\ n + 1 \in DOMAIN queue /\ queue[m + 1] = queue[n + 1] BY <1>1
    <3>2. m + 1 = n + 1 BY <3>1 DEF QueueOK
    <3>3. QED BY <1>1, <3>2
  <2>3. QED BY <2>1, <2>2 DEF QueueOK, Left
<1>5. \A i \in Job : Before(i)' = IF i = j THEN {} ELSE Before(i) \ {j}
  <2> SUFFICES ASSUME NEW i \in Job, NEW f
               PROVE  f \in Before(i)' <=> i # j /\ f # j /\ f \in Before(i)
    OBVIOUS
  <2>1. f \in Before(i)' <=> \E m, n \in DOMAIN queue' : queue'[m] = f /\ m < n /\ queue'[n] = i
    BY DEF Before
  <2>2. f \in Before(i) <=> \E m, n \in DOMAIN queue : queue[m] = f /\ m < n /\ queue[n] = i
    BY DEF Before
  <2>3. ASSUME NEW m \in DOMAIN queue', NEW n \in DOMAIN queue', queue'[m] = f, m < n, queue'[n] = i
        PROVE  i # j /\ f # j /\ f \in Before(i)
    <3>1. /\ m + 1 \in DOMAIN queue /\ n + 1 \in DOMAIN queue /\ m + 1 < n + 1
          /\ queue[m + 1] = f /\ queue[n + 1] = i
      BY <1>1, <2>3
    <3>2. i # j /\ f # j BY <1>3, <2>3
    <3>3. QED BY <2>2, <3>1, <3>2
  <2>4. ASSUME i # j, f # j, NEW m \in DOMAIN queue, NEW n \in DOMAIN queue, queue[m] = f, m < n, queue[n] = i
        PROVE  f \in Before(i)'
    <3>1. m # 1 /\ n # 1 BY <1>1, <2>4
    <3>2. /\ m - 1 \in DOMAIN queue' /\ n - 1 \in DOMAIN queue' /\ m - 1 < n - 1
          /\ queue'[m - 1] = f /\ queue'[n - 1] = i
      BY <1>1, <2>4, <3>1
    <3>3. QED BY <2>1, <3>2
  <2>5. QED BY <2>1, <2>2, <2>3, <2>4
<1>6. \A i \in Job : phase[i] \notin Inbox!Open => Before(i) = {} BY DEF QueueOK, Before
<1>7. \A i \in Job : \A f \in Before(i) : f \in Job /\ phase[f] \in Inbox!Open
  BY <1>1 DEF Before, QueueOK
<1>8. phase'[j] \notin Inbox!Open /\ \A i \in Job \ {j} : phase'[i] = phase[i]
  BY PhaseFacts DEF Left
<1>9. \A i \in Job : phase'[i] \in Inbox!Moves[phase[i]]
  BY PhaseFacts DEF Left, TypesOK, Phase
<1>10. \A i \in Job :
          /\ ~(phase[i] = "none" /\ phase'[i] # "none")
          /\ ~(phase[i] = "waiting" /\ phase'[i] = "working")
          /\ phase'[i] \notin Inbox!Open => Before(i)' = {}
  BY <1>5, <1>6, <1>8 DEF Left
<1>11. \A i \in Job : phase'[i] \in Inbox!Open =>
          Before(i)' = {f \in Before(i) : phase[f] \in Inbox!Open /\ phase'[f] \in Inbox!Open}
  BY <1>5, <1>7, <1>8
<1>12. QED BY <1>4, <1>9, <1>10, <1>11, StepFacts

LEMMA StepsSimulated ==
    ASSUME IInv, TypesOK', QueueOK, [CallbacksNext]_callbackVars
    PROVE  QueueOK' /\ [Inbox!InboxNext]_(Inbox!inboxVars)
<1> USE DEF jobVars
<1>t. TypesOK BY DEF IInv
<1>j. worker.job \in Job BY <1>t DEF TypesOK
<1>w. worker # NoAttempt =>
         /\ queue # <<>> /\ worker.job = queue[1]
         /\ worker.at = "start" => phase[worker.job] = "working"
         /\ worker.at # "start" => phase[worker.job] = "effective"
  BY DEF IInv, AttemptOK, QueueOK
<1>n. NoAttempt.at = "idle" BY DEF NoAttempt
<1>p. \A i \in Job : phase[i] \in Phase /\ phase[i] \in Inbox!Moves[phase[i]]
  BY <1>t, PhaseFacts DEF TypesOK, Phase
\* A step that leaves the jobs alone.
<1>s. ASSUME UNCHANGED <<phase, queue>>, worker' = NoAttempt \/ (worker # NoAttempt /\ worker'.job = worker.job) \/ worker' = worker
      PROVE  Moved
  BY <1>p, <1>s DEF Moved, QueueOK
\* A step of the attempt that moves its own job.
<1>m. ASSUME worker # NoAttempt, queue' = queue,
             phase'[worker.job] \in {"working", "effective", "waiting", "stuck"},
             phase[worker.job] = "effective" => phase'[worker.job] \in {"effective", "stuck"},
             \A i \in Job \ {worker.job} : phase'[i] = phase[i],
             worker' = NoAttempt \/ worker'.job = worker.job
      PROVE  Moved
  <2>1. phase[worker.job] \in {"working", "effective"} BY <1>w, <1>m
  <2>2. \A i \in Job : i = worker.job \/ (phase'[i] = phase[i]) BY <1>m
  <2>3. phase'[worker.job] \in Inbox!Moves[phase[worker.job]] /\ phase'[worker.job] # "none"
        /\ phase[worker.job] \in Inbox!Open /\ phase'[worker.job] \in Inbox!Open
    BY <1>m, <2>1, PhaseFacts DEF Phase
  <2>4. worker' # NoAttempt => queue # <<>> /\ worker'.job = queue[1] BY <1>w, <1>m
  <2>5. QED BY <1>p, <1>m, <2>1, <2>2, <2>3, <2>4 DEF Moved
\* The attempt that ends well.
<1>f. ASSUME worker # NoAttempt, Finish PROVE Left(worker.job)
  BY <1>t, <1>j, <1>w, <1>f, FinishTypes DEF Finish, Left
<1>1. CASE RequestStep
  <2>1. CASE ReceiveEvent
    <3>1. "event" \in Job BY Kinds
    <3>2. Arrived("event")
      BY <1>t, <2>1, <3>1, EnqueueTypes DEF ReceiveEvent, Enqueue, Arrived
    <3>3. QED BY <1>t, <3>1, <3>2, ArrivedSimulated
  <2>2. ASSUME NEW r \in Request, BeginAuthorization(r) \/ Exchange(r) PROVE Moved
    BY <1>s, <2>2 DEF BeginAuthorization, Exchange
  <2>3. ASSUME NEW r \in Request, CommitAuthorization(r) PROVE Moved \/ Arrived("authorization")
    <3>1. "authorization" \in Job BY Kinds
    <3>2. CASE Committable
      BY <1>t, <2>3, <3>1, <3>2, EnqueueTypes DEF CommitAuthorization, Commit, Committable, Enqueue, Arrived
    <3>3. CASE ~Committable
      BY <1>s, <2>3, <3>3 DEF CommitAuthorization, Commit
    <3>4. QED BY <3>2, <3>3
  <2>4. ASSUME NEW r \in Request, NEW d \in Decision, DispatchApproval(r, d) PROVE Moved \/ Arrived("approval")
    <3>1. "approval" \in Job BY Kinds
    <3>2. CASE row["approval"] = "awaiting" /\ Agrees(d) /\ phase["approval"] = "none"
      BY <1>t, <2>4, <3>1, <3>2, EnqueueTypes DEF DispatchApproval, Enqueue, Arrived
    <3>3. CASE ~(row["approval"] = "awaiting" /\ Agrees(d) /\ phase["approval"] = "none")
      BY <1>s, <2>4, <3>3 DEF DispatchApproval
    <3>4. QED BY <3>2, <3>3
  <2>5. "authorization" \in Job /\ "approval" \in Job BY Kinds
  <2>6. QED
    BY <1>1, <1>t, <2>1, <2>2, <2>3, <2>4, <2>5, MovedSimulated, ArrivedSimulated DEF RequestStep
<1>2. CASE WorkerStep
  <2>1. CASE Take
    <3>1. queue # <<>> /\ Head(queue) = queue[1] /\ queue[1] \in Job /\ phase[queue[1]] = "waiting"
      BY <1>t, <2>1 DEF Take, TypesOK
    <3>2. /\ phase'[queue[1]] = "working" /\ \A i \in Job \ {queue[1]} : phase'[i] = phase[i]
          /\ queue' = queue /\ worker'.job = queue[1]
      BY <1>t, <2>1, <3>1 DEF Take, TypesOK
    <3>3. Moved
      <4>1. \A i \in Job : i = queue[1] \/ phase'[i] = phase[i] BY <3>2
      <4>2. /\ phase'[queue[1]] \in Inbox!Moves[phase[queue[1]]]
            /\ phase[queue[1]] \in Inbox!Open /\ phase'[queue[1]] \in Inbox!Open
        BY <3>1, <3>2, PhaseFacts DEF Phase
      <4>3. QED BY <1>p, <3>1, <3>2, <4>1, <4>2 DEF Moved
    <3>4. QED BY <1>t, <3>3, MovedSimulated
  <2>2. CASE FailEarly
    <3>1. worker # NoAttempt /\ phase[worker.job] = "working" BY <1>n, <1>w, <2>2 DEF FailEarly
    <3>2. /\ phase'[worker.job] \in {"waiting", "stuck"} /\ \A i \in Job \ {worker.job} : phase'[i] = phase[i]
          /\ queue' = queue /\ worker' = NoAttempt
      BY <1>t, <1>j, <2>2 DEF FailEarly, TypesOK
    <3>3. Moved BY <1>m, <3>1, <3>2
    <3>4. QED BY <1>t, <3>3, MovedSimulated
  <2>3. CASE Turn
    <3>1. worker # NoAttempt BY <1>n, <2>3 DEF Turn, Working
    <3>2. phase'[worker.job] = "effective" /\ \A i \in Job \ {worker.job} : phase'[i] = phase[i]
      BY <1>t, <2>3, EffectiveTypes DEF Turn
    <3>3. queue' = queue /\ worker'.job = worker.job
      BY <1>t, <2>3 DEF Turn, Goto, TypesOK
    <3>4. Moved BY <1>m, <3>1, <3>2, <3>3
    <3>5. QED BY <1>t, <3>4, MovedSimulated
  <2>4. CASE SendCard \/ Cancel \/ Ask \/ Record
    <3>1. worker # NoAttempt BY <1>n, <2>4 DEF SendCard, Cancel, Ask, Record
    <3>2. UNCHANGED <<phase, queue>> BY <2>4 DEF SendCard, Cancel, Ask, Record
    <3>3. worker'.job = worker.job
      BY <1>t, <2>4 DEF SendCard, Cancel, Ask, Record, Goto, TypesOK
    <3>4. Moved BY <1>s, <3>1, <3>2, <3>3
    <3>5. QED BY <1>t, <3>4, MovedSimulated
  <2>5. CASE Answer
    <3>1. worker # NoAttempt /\ Finish BY <1>n, <2>5 DEF Answer
    <3>2. QED BY <1>t, <1>j, <1>f, <3>1, LeftSimulated
  <2>6. CASE Resume
    <3>1. worker # NoAttempt /\ phase[worker.job] = "working" BY <1>n, <1>w, <2>6 DEF Resume
    <3>2. CASE row[worker.job] \in {"none", "gone"}
      BY <1>t, <1>j, <1>f, <2>6, <3>1, <3>2, LeftSimulated DEF Resume
    <3>3. CASE row[worker.job] \notin {"none", "gone"}
      <4>1. phase'[worker.job] = "effective" /\ \A i \in Job \ {worker.job} : phase'[i] = phase[i]
        BY <1>t, <2>6, <3>3, EffectiveTypes DEF Resume
      <4>2. queue' = queue /\ worker'.job = worker.job
        BY <1>t, <2>6, <3>3 DEF Resume, Goto, TypesOK
      <4>3. Moved BY <1>m, <3>1, <4>1, <4>2
      <4>4. QED BY <1>t, <4>3, MovedSimulated
    <3>4. QED BY <3>2, <3>3
  <2>7. CASE Claim \/ Dispatch \/ FailLate
    <3>1. worker # NoAttempt BY <1>n, <2>7 DEF Claim, Dispatch, FailLate
    <3>2. CASE Freeze
      <4>1. /\ queue' = queue /\ worker' = NoAttempt
            /\ phase'[worker.job] = "stuck" /\ \A i \in Job \ {worker.job} : phase'[i] = phase[i]
        BY <1>t, <3>2, FreezeTypes
      <4>2. Moved BY <1>m, <3>1, <4>1
      <4>3. QED BY <1>t, <4>2, MovedSimulated
    <3>3. CASE UNCHANGED <<phase, queue>> /\ \E at : Goto(at)
      <4>1. worker'.job = worker.job BY <1>t, <3>3 DEF Goto, TypesOK
      <4>2. Moved BY <1>s, <3>1, <3>3, <4>1
      <4>3. QED BY <1>t, <4>2, MovedSimulated
    <3>4. (UNCHANGED <<phase, queue>> /\ \E at : Goto(at)) \/ Freeze
      <4>1. CASE Claim BY <4>1 DEF Claim
      <4>2. CASE Dispatch BY <4>2 DEF Dispatch
      <4>3. CASE FailLate BY <4>3 DEF FailLate
      <4>4. QED BY <2>7, <4>1, <4>2, <4>3
    <3>5. QED BY <3>2, <3>3, <3>4
  <2>8. QED BY <1>2, <2>1, <2>2, <2>3, <2>4, <2>5, <2>6, <2>7 DEF WorkerStep
<1>3. CASE Crash
  <2>1. /\ queue' = queue /\ worker' = NoAttempt
        /\ \A i \in Job : phase'[i] = AfterCrash(phase[i])
    BY <1>3 DEF Crash
  <2>2. \A i \in Job :
           /\ phase'[i] \in Inbox!Moves[phase[i]]
           /\ phase[i] = "none" <=> phase'[i] = "none"
           /\ phase[i] \in Inbox!Open <=> phase'[i] \in Inbox!Open
           /\ phase'[i] # "working"
    BY <1>p, <2>1, PhaseFacts DEF AfterCrash, Phase
  <2>3. Moved BY <2>1, <2>2 DEF Moved
  <2>4. QED BY <1>t, <2>3, MovedSimulated
<1>4. CASE Clear \/ (\E k \in Kind : Expire(k))
  <2>1. Moved BY <1>s, <1>4 DEF Clear, Expire
  <2>2. QED BY <1>t, <2>1, MovedSimulated
<1>5. ASSUME NEW j \in Job, Requeue(j) PROVE QueueOK' /\ Inbox!InboxNext
  <2>1. /\ queue' = queue /\ worker' = worker /\ phase[j] = "stuck" /\ phase'[j] = "waiting"
        /\ \A i \in Job : i = j \/ phase'[i] = phase[i]
    BY <1>t, <1>5 DEF Requeue, TypesOK
  <2>2. phase'[j] \in Inbox!Moves[phase[j]] /\ phase[j] \in Inbox!Open /\ phase'[j] \in Inbox!Open
    BY <2>1, PhaseFacts DEF Phase
  <2>3. Moved BY <1>p, <1>w, <2>1, <2>2 DEF Moved
  <2>4. QED BY <1>t, <2>3, MovedSimulated
<1>6. CASE UNCHANGED callbackVars
  <2>1. UNCHANGED <<phase, queue, worker>> BY <1>6 DEF callbackVars
  <2>2. QueueOK' BY <2>1 DEF QueueOK
  <2>3. UNCHANGED Inbox!inboxVars BY <2>1 DEF Inbox!inboxVars, Before
  <2>4. QED BY <2>2, <2>3
<1>7. QED BY <1>1, <1>2, <1>3, <1>4, <1>5, <1>6 DEF CallbacksNext

\* The jobs of the callbacks keep every promise of the inbox: with the theorem about the
\* job store they are served by an inbox that it implements.
THEOREM InboxUsed == CallbacksSpec => UsesInbox
<1>1. CallbacksInit => QueueOK /\ Inbox!InboxInit
  BY PhaseFacts DEF CallbacksInit, QueueOK, Inbox!InboxInit, Before, NoAttempt
<1>2. IInv /\ IInv' /\ QueueOK /\ [CallbacksNext]_callbackVars =>
         QueueOK' /\ [Inbox!InboxNext]_(Inbox!inboxVars)
  BY StepsSimulated DEF IInv
<1>3. QED BY <1>1, <1>2, CallbacksInvariant, PTL DEF CallbacksSpec, UsesInbox, Inbox!InboxSpec

=============================================================================
