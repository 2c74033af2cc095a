--------------------------- MODULE MCAgentTurns ---------------------------
(* Small instances of AgentTurns for TLC. *)
EXTENDS AgentTurns, TLC

Asks(id) == [id |-> id, asks |-> TRUE]

Plain(id) == [id |-> id, asks |-> FALSE]

\* A batch that waits before its second call and one that waits at it, with the same ids.
MCMenu == {<<Asks("c1"), Plain("c2")>>, <<Plain("c1"), Asks("c2")>>}

Scenario(p, cmds, k, c) ==
    [private |-> p, commands |-> cmds, batches |-> 2, clicks |-> k, crashes |-> c]

\* A private chat; a group with repeated clicks, or whose history is compacted or
\* cleared; a group whose process dies.
MCScenarios ==
    {Scenario(TRUE, {}, 1, 0), Scenario(FALSE, {}, 2, 0), Scenario(FALSE, {"compact"}, 1, 0),
     Scenario(FALSE, {"clear"}, 1, 0), Scenario(FALSE, {}, 1, 1)}

MCCrashScenario == {Scenario(FALSE, {}, 1, 1)}

MessageSymmetry == {f \in Permutations(Message) : TRUE}

=============================================================================
