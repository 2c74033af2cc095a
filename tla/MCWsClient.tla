---------------------------- MODULE MCWsClient -----------------------------
(* A small instance of WsClient for TLC. *)
EXTENDS WsClient

CONSTANTS e1, c1

\* Both messages come in two fragments.
MCFragments == [m \in {e1, c1} |-> 2]

Due(m, n) == [x \in {e1, c1} |-> IF x = m THEN n ELSE 0]

\* An event or a card action sent twice under every seen store and ACK timeout, and the
\* two together, whose fragments compete for one entry of the buffer.
MCConfigs ==
    {[mode |-> "none", store |-> s, due |-> Due(e1, 2), forgets |-> 1, crashes |-> 1] :
        s \in {"sqlite", "memory", "unclaimed"}}
    \cup {[mode |-> o, store |-> "sqlite", due |-> Due(c1, 2), forgets |-> 1, crashes |-> 1] :
        o \in {"none", "zero", "some"}}
    \cup {[mode |-> "some", store |-> "memory", due |-> [x \in {e1, c1} |-> IF x = e1 THEN 2 ELSE 1], forgets |-> 0, crashes |-> 0]}

\* A client that serves one event without a crash.
MCStopConfigs ==
    {[mode |-> "none", store |-> "memory", due |-> Due(e1, 1), forgets |-> 0, crashes |-> 0]}

=============================================================================
