----------------------------- MODULE AgentTools ----------------------------
(***************************************************************************)
(* What an agent does with one tool call of the model, from the proposal   *)
(* to its result: the authorization and the confirmation that are asked    *)
(* for first (loop.py _dispatch_tool_calls, oauth.py, approval.py), the    *)
(* policy of a scheduled turn (scheduled_policy.py), and the dispatch of   *)
(* the tool, whose operations run through the client of ApiClient.  The    *)
(* tools are those of AgentToolkit.                                        *)
(*                                                                         *)
(* An authorization or a confirmation is answered at most once and by its  *)
(* owner (Approvals, DurableCallbacks); of the turn only this call is kept *)
(* (AgentTurns has the others).  The platform sends a permission error     *)
(* only for a request it refused.                                          *)
(***************************************************************************)
EXTENDS AgentToolkit, ApiClient, FiniteSets

CONSTANTS
    Agents,    \* callers that run a tool call
    Tools,     \* names of tools the model may propose
    Policies   \* "interactive", or the policy of a scheduled task

ASSUME ToolsAssumption ==
    /\ Agents \subseteq Caller
    /\ Tools \subseteq DOMAIN Registry
    /\ Policies \subseteq {"interactive", "read_only", "confirm_writes"}

VARIABLE turn   \* [Agents -> the tool call of each]

agentVars == <<clientVars, turn>>

-----------------------------------------------------------------------------
Quiet == [tool |-> "none", policy |-> "none", at |-> "idle", by |-> "loop", prior |-> FALSE,
          confirmed |-> FALSE, end |-> "none", wrote |-> 0, touched |-> FALSE, answer |-> "none"]

AgentInit ==
    /\ ClientInit
    /\ turn = [c \in Agents |-> Quiet]

ToolOf(t) == Registry[t.tool]

\* The names a turn of this policy knows (ScheduledPolicyRegistry.get).
Offered(t) == t.policy = "read_only" => ToolOf(t).effect = "read"

NeedsConfirmation(t) ==
    ToolOf(t).confirm \/ (t.policy # "interactive" /\ ToolOf(t).effect # "read")

\* The approval a dispatch carries: that of the decision it follows, or the one the
\* authorization was asked for under.
Approved(t) == t.by = "approval" \/ (t.by = "oauth" /\ t.prior)

\* ScheduledPolicyRegistry.dispatch raises ScheduledToolBlocked.
Withheld(t) ==
    /\ t.policy # "interactive"
    /\ ToolOf(t).effect # "read" \/ ToolOf(t).confirm
    /\ (t.policy = "read_only" /\ ToolOf(t).effect # "read") \/ ~Approved(t)

Ended(t, answer) == [t EXCEPT !.at = "ended", !.end = "none", !.answer = answer]

\* request_authorization and _request_approval suspend the turn, unless no card can be sent.
Authorizing(t, prior) == {[t EXCEPT !.at = "authorizing", !.prior = prior], Ended(t, "failed")}

Confirming(t) == {[t EXCEPT !.at = "confirming"], Ended(t, "failed")}

Dispatching(t, by) == {[t EXCEPT !.at = "dispatch", !.by = by]}

ConfirmedFirst(t, by) == IF NeedsConfirmation(t) THEN Confirming(t) ELSE Dispatching(t, by)

-----------------------------------------------------------------------------
\* The model proposes a tool; an unknown one is answered with an error.
Propose(c) ==
    /\ turn[c].at = "idle"
    /\ menu[c] = {}
    /\ \E tool \in Tools, policy \in Policies, authorized \in BOOLEAN :
          LET t == [turn[c] EXCEPT !.tool = tool, !.policy = policy] IN
          \E next \in CASE ~Offered(t) -> {Ended(t, "failed")}
                        [] Offered(t) /\ ToolOf(t).scoped /\ ~authorized -> Authorizing(t, FALSE)
                        [] OTHER -> ConfirmedFirst(t, "loop") :
             turn' = [turn EXCEPT ![c] = next]
    /\ UNCHANGED clientVars

\* Mutant of Authorize: what was authorized is dispatched without its confirmation.
AuthorizeAtOnce(c) ==
    /\ turn[c].at = "authorizing"
    /\ \E next \in Dispatching(turn[c], "oauth") : turn' = [turn EXCEPT ![c] = next]
    /\ UNCHANGED clientVars

\* The OAuth callback of the owner (resume_authorization).
Authorize(c) ==
    /\ turn[c].at = "authorizing"
    /\ \E next \in IF turn[c].prior THEN Dispatching(turn[c], "oauth") ELSE ConfirmedFirst(turn[c], "oauth") :
          turn' = [turn EXCEPT ![c] = next]
    /\ UNCHANGED clientVars

\* The owner confirms; the grant of the decision covers one dispatch.
Confirm(c) ==
    /\ turn[c].at = "confirming"
    /\ turn' = [turn EXCEPT ![c] = [@ EXCEPT !.at = "dispatch", !.by = "approval", !.confirmed = TRUE]]
    /\ UNCHANGED clientVars

\* The owner rejects, or the wait expires or is superseded.
Decline(c) ==
    /\ turn[c].at \in {"authorizing", "confirming"}
    /\ turn' = [turn EXCEPT ![c] = Ended(@, "rejected")]
    /\ UNCHANGED clientVars

\* Mutant of Outcomes: a dispatch that raised is taken for one that was not run.
OutcomesAlwaysFailed(t, outcome) ==
    CASE outcome = "completed" -> {Ended(t, "done")}
      [] outcome = "needs_auth" /\ t.by # "oauth" -> Authorizing(t, t.by = "approval")
      [] OTHER -> {Ended(t, "failed")}

\* What the agent does with the result of a dispatch: a missing authorization is asked
\* for, under the approval if there is one; only after an approval is an exception
\* told apart from a failure; what is missing after an authorization is reported.
Outcomes(t, outcome) ==
    CASE outcome = "completed" -> {Ended(t, "done")}
      [] outcome = "needs_auth" /\ t.by # "oauth" -> Authorizing(t, t.by = "approval")
      [] outcome = "raised" /\ t.by = "approval" -> {Ended(t, "unknown")}
      [] OTHER -> {Ended(t, "failed")}

\* registry.dispatch: blocked by the policy, arguments that do not fit the schema, no
\* client for the user, or the plan of the handler.
Dispatch(c) ==
    /\ turn[c].at = "dispatch"
    /\ LET t == turn[c]
           tool == ToolOf(t)
           Answered(outcome) ==
              /\ \E next \in Outcomes(t, outcome) : turn' = [turn EXCEPT ![c] = next]
              /\ UNCHANGED clientVars
       IN
       \/ Withheld(t) /\ Answered("raised")
       \/ ~Withheld(t) /\ Answered("invalid")
       \/ ~Withheld(t) /\ tool.view = "user" /\ Answered("needs_auth")
       \/ \E plan \in tool.plans :
             /\ ~Withheld(t)
             /\ plan.ops = <<>>
             /\ Answered(plan.end)
       \/ \E plan \in tool.plans :
             /\ ~Withheld(t)
             /\ plan.ops # <<>>
             /\ Access(tool.view, plan.ops[1].ns)
             /\ call' = [call EXCEPT ![c] =
                   WithToken([Starting(@, tool.view, plan.ops, FALSE, 0) EXCEPT !.left = 0])]
             /\ turn' = [turn EXCEPT ![c] = [@ EXCEPT !.at = "running", !.end = plan.end]]
             /\ UNCHANGED <<clock, menu, isv, ticket, cache, lock, grants>>

\* Mutant of ResultOf: every error asks for another authorization.
ResultOfAnyError(t, s) ==
    CASE s.result = "ok" -> t.end
      [] s.result # "ok" /\ ToolOf(t).wrapped -> "needs_auth"
      [] OTHER -> "raised"

\* What the handler makes of the end of its operations (reauth_on_permission_error).
ResultOf(t, s) ==
    CASE s.result = "ok" -> t.end
      [] s.result # "ok" /\ Op(s) \in ToolOf(t).caught -> "declined"
      [] s.result = "permission" /\ Op(s) \notin ToolOf(t).caught /\ ToolOf(t).wrapped -> "needs_auth"
      [] OTHER -> "raised"

\* The handler returns or raises.
Return(c) ==
    /\ turn[c].at = "running"
    /\ call[c].at = "over"
    /\ LET t == [turn[c] EXCEPT !.wrote = @ + call[c].writes, !.touched = @ \/ call[c].touched] IN
       \E next \in Outcomes(t, ResultOf(t, call[c])) : turn' = [turn EXCEPT ![c] = next]
    /\ call' = [call EXCEPT ![c] = Idle]
    /\ UNCHANGED <<clock, menu, isv, ticket, bound, cache, lock, grants>>

AgentStep(c) ==
    Propose(c) \/ Authorize(c) \/ Confirm(c) \/ Decline(c) \/ Dispatch(c) \/ Return(c)

AgentNext == (\E c \in Agents : AgentStep(c)) \/ (ClientNext /\ UNCHANGED turn)

AgentSpec == AgentInit /\ [][AgentNext]_agentVars

-----------------------------------------------------------------------------
\* The writes, of a verb that may not be repeated, applied for a tool call.
Written(c) == turn[c].wrote + (IF turn[c].at = "running" THEN call[c].writes ELSE 0)

\* Whether any write was.
Touched(c) == turn[c].touched \/ (turn[c].at = "running" /\ call[c].touched)

\* The writes of one way through the handler.
Intended(plan) == Cardinality({i \in DOMAIN plan.ops : Once(plan.ops[i])})

(***************************************************************************)
(* Nothing is written for a tool call that nobody has confirmed, whichever *)
(* of the three ways leads to its dispatch, and whatever the policy of the *)
(* turn: the loop's, a resumed authorization, a decided approval (loop.py, *)
(* oauth.py resume, scheduled_policy.py).                                  *)
(***************************************************************************)
UnconfirmedWritesNothing ==
    \A c \in Agents : Touched(c) => turn[c].confirmed

(***************************************************************************)
(* One confirmation buys the writes of one run of the tool, although a     *)
(* missing authorization dispatches it again (approval.py, oauth.py): what *)
(* was dispatched before was refused and wrote nothing.  Booking a room is *)
(* left out: its second write may be refused after its first was applied   *)
(* (rooms.py), and both are then applied again.                            *)
(***************************************************************************)
ConfirmedWriteOnce ==
    \A c \in Agents : turn[c].tool \notin {"none", "book_meeting_room"} =>
        \E plan \in ToolOf(turn[c]).plans : Written(c) <= Intended(plan)

(***************************************************************************)
(* When a confirmed call is reported as failed, and not as unknown, the    *)
(* model may propose it again: nothing was written (approval.py). Rooms    *)
(* and forms with files write before their last operation and are left     *)
(* out, and so is a call dispatched after an authorization (oauth.py).     *)
(***************************************************************************)
FailedWroteNothing ==
    \A c \in Agents :
        /\ turn[c].answer = "failed"
        /\ turn[c].by = "approval"
        /\ turn[c].tool \notin {"book_meeting_room", "create_approval_instance"}
        => Written(c) = 0
=============================================================================
