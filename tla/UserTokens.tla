---------------------------- MODULE UserTokens -----------------------------
(***************************************************************************)
(* User access tokens of one user of one tenant: the alias table and the   *)
(* refresh guard of SqliteOAuthTokenStore, and the lookups of              *)
(* UserTokenProvider._valid_record_for_tenant that refresh an expiring     *)
(* token through them (feishu/auth/user_tokens.py).                        *)
(*                                                                         *)
(* A token response is a number, its pair: the access token, the refresh   *)
(* token and the record stored for them.  A refresh token works once, so   *)
(* a lost response costs the user the grant unless nobody presents it      *)
(* again.  A lookup may run in any process; what it awaits separates its   *)
(* actions, and it may be cancelled or die between any two of them.        *)
(***************************************************************************)
EXTENDS Naturals

CONSTANTS
    Alias,       \* identity keys of the user: open_id, union_id, user_id
    Primary,     \* the alias every user_info response carries (open_id)
    Caller,      \* concurrent lookups, in any process
    MaxTries,    \* times a busy guard is polled before giving up (101 in the code)
    MaxPairs     \* bound: token responses of the authorization server

ASSUME TokensAssumption ==
    /\ Primary \in Alias
    /\ MaxTries \in Nat
    /\ MaxPairs \in Nat

VARIABLES
    rows,      \* [Alias -> 0..MaxPairs]: oauth_tenant_tokens, 0 for no row
    guard,     \* [Pair -> Guard]: oauth_tenant_refresh, keyed by the refresh token
    pairs,     \* the pairs issued so far, with what their record says
    uses,      \* [Pair -> Nat]: times the refresh token was presented
    lookup     \* [Caller -> Lookup]: the local state of each lookup

tokenVars == <<rows, guard, pairs, uses, lookup>>

-----------------------------------------------------------------------------
Pair == 1..MaxPairs

\* user_keys, the authorization a pair descends from, whether it has a refresh
\* token, and whether the access token is within refresh_skew_seconds of its end.
Issued == [keys: SUBSET Alias, grant: 0..MaxPairs, renewable: BOOLEAN, expiring: BOOLEAN]

NotIssued == [keys |-> {}, grant |-> 0, renewable |-> FALSE, expiring |-> FALSE]

Guard == {"free", "active", "frozen"}

InGuard == {"recheck", "call", "save", "final", "release"}

Lookup == [pc: {"idle", "wait", "fallback"} \cup InGuard, who: SUBSET Alias,
           old: 0..MaxPairs, new: 0..MaxPairs, tries: 0..MaxTries]

Idle == [pc |-> "idle", who |-> {}, old |-> 0, new |-> 0, tries |-> 0]

Fresh(n) == \A m \in Pair : pairs[m] # NotIssued => m < n

\* The records a set of aliases leads to; more than one is a conflict.
Found(keys) == {rows[a] : a \in keys} \ {0}

Conflict(keys) == \E m, n \in Found(keys) : m # n

\* Mutant of Stored: aliases the new grant no longer carries are left behind.
StoredKeepingStale(n, keys) == [a \in Alias |-> IF a \in keys THEN n ELSE rows[a]]

\* Replace the record the new keys lead to, stale aliases included.
Stored(n, keys) ==
    LET stale == keys \cup UNION {pairs[m].keys : m \in Found(keys)} IN
    [a \in Alias |-> IF a \in keys THEN n ELSE IF a \in stale THEN 0 ELSE rows[a]]

Goto(c, pc) == lookup' = [lookup EXCEPT ![c].pc = pc]
Return(c)   == lookup' = [lookup EXCEPT ![c] = Idle]

\* An exception inside the guard freezes the refresh token.
Freeze(c) == guard' = [guard EXCEPT ![lookup[c].old] = "frozen"]

Fail(c) == Freeze(c) /\ Goto(c, "fallback")

-----------------------------------------------------------------------------
(* A lookup, from await to await *)

Look(c, who) ==
    /\ lookup[c].pc = "idle"
    /\ \/ /\ Conflict(who)
          /\ lookup' = [lookup EXCEPT ![c].pc = "fallback", ![c].who = who]
       \/ \E n \in Found(who) :
             /\ ~Conflict(who)
             /\ pairs[n].renewable /\ pairs[n].expiring
             /\ lookup' = [lookup EXCEPT ![c] =
                    [Idle EXCEPT !.pc = "wait", !.who = who, !.old = n]]
    /\ UNCHANGED <<rows, guard, pairs, uses>>

Acquire(c) ==
    LET n == lookup[c].old IN
    /\ lookup[c].pc = "wait"
    /\ \/ /\ guard[n] = "free"
          /\ guard' = [guard EXCEPT ![n] = "active"]
          /\ Goto(c, "recheck")
       \/ /\ guard[n] = "active" /\ lookup[c].tries < MaxTries
          /\ lookup' = [lookup EXCEPT ![c].tries = @ + 1]
          /\ UNCHANGED guard
       \/ /\ guard[n] = "frozen" \/ (guard[n] = "active" /\ lookup[c].tries = MaxTries)
          /\ Goto(c, "fallback")
          /\ UNCHANGED guard
    /\ UNCHANGED <<rows, pairs, uses>>

\* Mutant of Recheck: the record read before the guard is trusted.
RecheckTrusting(c) ==
    /\ lookup[c].pc = "recheck"
    /\ Goto(c, "call")
    /\ UNCHANGED <<rows, guard, pairs, uses>>

\* The record is read again under the guard: another lookup, or the user, may
\* have replaced it.
Recheck(c) ==
    LET who == lookup[c].who IN
    /\ lookup[c].pc = "recheck"
    /\ \/ Conflict(who) /\ Fail(c)
       \/ /\ ~Conflict(who)
          /\ IF Found(who) = {lookup[c].old} THEN Goto(c, "call") ELSE Goto(c, "final")
          /\ UNCHANGED guard
    /\ UNCHANGED <<rows, pairs, uses>>

\* client.oauth.refresh: a new pair, or an exception although the server may
\* have consumed the refresh token.
CallReturns(c, n, renewable) ==
    LET old == lookup[c].old IN
    /\ lookup[c].pc = "call"
    /\ uses[old] = 0
    /\ Fresh(n)
    /\ pairs' = [pairs EXCEPT ![n] = [pairs[old] EXCEPT !.renewable = renewable, !.expiring = FALSE]]
    /\ uses' = [uses EXCEPT ![old] = @ + 1]
    /\ lookup' = [lookup EXCEPT ![c].pc = "save", ![c].new = n]
    /\ UNCHANGED <<rows, guard>>

CallRaises(c) ==
    /\ lookup[c].pc = "call"
    /\ uses' = [uses EXCEPT ![lookup[c].old] = @ + 1]
    /\ Fail(c)
    /\ UNCHANGED <<rows, pairs>>

\* Mutant of Save: the expected tokens are not compared.
SaveUnconditionally(c) ==
    /\ lookup[c].pc = "save"
    /\ rows' = Stored(lookup[c].new, pairs[lookup[c].old].keys)
    /\ Goto(c, "final")
    /\ UNCHANGED <<guard, pairs, uses>>

\* save_for_tenant with the expected tokens, one transaction.
Save(c) ==
    LET old == lookup[c].old  keys == pairs[old].keys IN
    /\ lookup[c].pc = "save"
    /\ \/ /\ Found(keys) = {old}
          /\ rows' = Stored(lookup[c].new, keys)
          /\ Goto(c, "final")
          /\ UNCHANGED guard
       \/ /\ Found(keys) # {old}
          /\ Fail(c)
          /\ UNCHANGED rows
    /\ UNCHANGED <<pairs, uses>>

\* The last read, still under the guard.
Final(c) ==
    /\ lookup[c].pc = "final"
    /\ IF Conflict(lookup[c].who) THEN Fail(c) ELSE Goto(c, "release") /\ UNCHANGED guard
    /\ UNCHANGED <<rows, pairs, uses>>

Release(c) ==
    /\ lookup[c].pc = "release"
    /\ guard' = [guard EXCEPT ![lookup[c].old] = "free"]
    /\ Return(c)
    /\ UNCHANGED <<rows, pairs, uses>>

\* The stored record, whatever it is by now.
Fallback(c) ==
    /\ lookup[c].pc = "fallback"
    /\ Return(c)
    /\ UNCHANGED <<rows, guard, pairs, uses>>

Cancel(c) ==
    /\ lookup[c].pc # "idle"
    /\ IF lookup[c].pc \in InGuard THEN Freeze(c) ELSE UNCHANGED guard
    /\ Return(c)
    /\ UNCHANGED <<rows, pairs, uses>>

\* The process dies; a guard it held stays active for good.
Crash(c) ==
    /\ lookup[c].pc # "idle"
    /\ Return(c)
    /\ UNCHANGED <<rows, guard, pairs, uses>>

-----------------------------------------------------------------------------
(* The user, and time *)

\* complete_authorization_for_tenant: a new grant replaces the stored record.
Authorize(n, keys, renewable) ==
    /\ Primary \in keys
    /\ Fresh(n)
    /\ ~Conflict(keys)
    /\ pairs' = [pairs EXCEPT ![n] = [keys |-> keys, grant |-> n,
                                      renewable |-> renewable, expiring |-> FALSE]]
    /\ rows' = Stored(n, keys)
    /\ UNCHANGED <<guard, uses, lookup>>

Expire(n) ==
    /\ pairs[n] # NotIssued
    /\ ~pairs[n].expiring
    /\ pairs' = [pairs EXCEPT ![n].expiring = TRUE]
    /\ UNCHANGED <<rows, guard, uses, lookup>>

-----------------------------------------------------------------------------
Init ==
    /\ rows = [a \in Alias |-> 0]
    /\ guard = [n \in Pair |-> "free"]
    /\ pairs = [n \in Pair |-> NotIssued]
    /\ uses = [n \in Pair |-> 0]
    /\ lookup = [c \in Caller |-> Idle]

Proceed(c) ==
    \/ Acquire(c) \/ Recheck(c) \/ CallRaises(c) \/ Save(c)
    \/ Final(c) \/ Release(c) \/ Fallback(c)
    \/ \E n \in Pair, renewable \in BOOLEAN : CallReturns(c, n, renewable)

Next ==
    \/ \E c \in Caller :
         \/ \E who \in SUBSET Alias : Look(c, who)
         \/ Proceed(c) \/ Cancel(c) \/ Crash(c)
    \/ \E n \in Pair :
         \/ Expire(n)
         \/ \E keys \in SUBSET Alias, renewable \in BOOLEAN : Authorize(n, keys, renewable)

Spec == Init /\ [][Next]_tokenVars

-----------------------------------------------------------------------------
(* Properties *)

TypeOK ==
    /\ rows \in [Alias -> 0..MaxPairs]
    /\ guard \in [Pair -> Guard]
    /\ pairs \in [Pair -> Issued]
    /\ uses \in [Pair -> Nat]
    /\ lookup \in [Caller -> Lookup]

\* A refresh token is presented once, by whichever process: the provider's
\* "one-time rotated refresh_token" is never raced, nor retried in doubt.
RefreshedOnce == \A n \in Pair : uses[n] <= 1

\* A refresh never undoes a newer authorization: what an alias leads to only
\* moves to the same grant or a later one (expected_refresh_token).
GrantNeverOlder ==
    [][\A a \in Alias : rows[a] # 0 /\ rows'[a] # 0
          => pairs'[rows'[a]].grant >= pairs[rows[a]].grant]_tokenVars

\* Every alias of the stored record leads to it, and nothing else is stored:
\* a re-authorization with fewer aliases leaves no alias on the old record.
AliasesAgree ==
    \A a \in Alias : rows[a] # 0 =>
        \A b \in Alias : rows[b] = IF b \in pairs[rows[a]].keys THEN rows[a] ELSE 0

=============================================================================
