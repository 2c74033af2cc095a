--------------------------- MODULE DurableInbox ----------------------------
(***************************************************************************)
(* What the durable event inbox promises its callers: events queue up in   *)
(* lanes in the order of their receipt, an attempt starts only at the head *)
(* of a lane, an attempt that reached its side effect is never given back  *)
(* to the queue, and a stuck event holds its place until an operator or    *)
(* the retention lets it go.  Attempts, leases, tokens, clocks and rows    *)
(* are the business of the implementation (EventJobs).                     *)
(***************************************************************************)
CONSTANTS Event, LaneOf   \* LaneOf[e] is the lane of e

VARIABLES
    phase,   \* [Event -> Phase]
    ahead    \* [Event -> SUBSET Event]: what was received before it in its lane, unresolved

inboxVars == <<phase, ahead>>

Phase == {"none", "waiting", "working", "effective", "stuck", "done"}

Open == {"waiting", "working", "effective", "stuck"}

\* Where one step may take an event.
Moves == [none      |-> {"none", "waiting"},
          waiting   |-> {"waiting", "working"},
          working   |-> {"working", "effective", "waiting", "stuck", "done"},
          effective |-> {"effective", "stuck", "done"},
          stuck     |-> {"stuck", "waiting"},
          done      |-> {"done"}]

\* The retention of some settled events ends, at most one event arrives, and
\* every event moves; whoever starts is at the head of its lane.
Step(forgotten, arrived) ==
    LET old     == [e \in Event |-> IF e \in forgotten THEN "none" ELSE phase[e]]
        lane(e) == {f \in Event : LaneOf[f] = LaneOf[e]}
    IN
    /\ \A e \in forgotten : phase[e] \in {"stuck", "done"}
    /\ phase' = [e \in Event |-> phase'[e]]
    /\ \A e \in Event :
          /\ phase'[e] \in Moves[old[e]]
          /\ old[e] = "none" /\ phase'[e] # "none" <=> e \in arrived
          /\ old[e] = "waiting" /\ phase'[e] = "working" => ahead'[e] = {}
    /\ ahead' = [e \in Event |->
          IF phase'[e] \notin Open THEN {}
          ELSE {f \in IF e \in arrived THEN lane(e) ELSE ahead[e] :
                    old[f] \in Open /\ phase'[f] \in Open}]

InboxInit ==
    /\ phase = [e \in Event |-> "none"]
    /\ ahead = [e \in Event |-> {}]

InboxNext ==
    \E forgotten \in SUBSET Event, arrived \in {{}} \cup {{e} : e \in Event} :
        Step(forgotten, arrived)

InboxSpec == InboxInit /\ [][InboxNext]_inboxVars

=============================================================================
