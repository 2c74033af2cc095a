------------------------ MODULE MCDurableCallbacks -------------------------
(* A small instance of DurableCallbacks for TLC. *)
EXTENDS DurableCallbacks

\* A read that is authorized, a write that is authorized and then approved, and a
\* write that is approved, with and without a refusal that asks for scopes.
MCConfigs ==
    {[first |-> "authorization", write |-> w, late |-> FALSE] : w \in BOOLEAN}
    \cup {[first |-> "approval", write |-> TRUE, late |-> l] : l \in BOOLEAN}

=============================================================================
