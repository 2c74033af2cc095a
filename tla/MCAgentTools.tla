--------------------------- MODULE MCAgentTools ----------------------------
(* A small instance of AgentTools, and of the client below it, for TLC. *)
EXTENDS AgentTools

CONSTANTS c1, c2

Of(a, b) == [c \in {c1, c2} |-> IF c = c1 THEN a ELSE b]

HasKey(f) == Len(f) > 0 /\ f[1].key # "none"

\* Every operation and helper called once, those with a uuid twice; two callers whose
\* calls overlap; and the tool calls of an agent.
MCMenus ==
    {[flows |-> Of({f}, {}), calls |-> Of(IF HasKey(f) THEN 2 ELSE 1, 0), isv |-> {FALSE}] : f \in Flows}
    \cup {[flows |-> Of({<<im_get>>}, {<<im_patch>>}), calls |-> Of(1, 1), isv |-> BOOLEAN],
          [flows |-> Of({}, {}), calls |-> Of(0, 0), isv |-> {FALSE}]}

MCTools == DOMAIN Registry

=============================================================================
