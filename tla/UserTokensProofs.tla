------------------------- MODULE UserTokensProofs -------------------------
(***************************************************************************)
(* Theorems about UserTokens, for every set of aliases and of concurrent   *)
(* lookups and every number of polls.                                      *)
(*                                                                         *)
(* IInv says why a refresh token is presented once: a used token is spent, *)
(* that is frozen, gone from the alias table, or behind a guard whose      *)
(* owner is past the call; and the lookup about to call is the only one    *)
(* inside its guard.                                                       *)
(***************************************************************************)
EXTENDS UserTokens, TLAPS

Known(n) == pairs[n] # NotIssued

Inside(c) == lookup[c].pc \in InGuard

\* A token that was presented cannot be presented again.
Spent(n) ==
    \/ guard[n] = "frozen"
    \/ \A a \in Alias : rows[a] # n
    \/ /\ guard[n] = "active"
       /\ \A c \in Caller : Inside(c) /\ lookup[c].old = n => lookup[c].pc = "save"

\* Records, guards and lookups only speak of pairs that were issued.
PairsOK ==
    /\ \A n \in Pair : Known(n) => Primary \in pairs[n].keys /\ pairs[n].grant <= n
    /\ \A n \in Pair : uses[n] # 0 => Known(n)

RowsOK == \A a \in Alias : rows[a] # 0 => Known(rows[a])

LookupsOK ==
    \A c \in Caller :
        /\ lookup[c].old # 0 => Known(lookup[c].old)
        /\ Inside(c) \/ lookup[c].pc = "wait" => lookup[c].old # 0

\* A guard is held by one lookup, and the lookup about to call has a fresh token.
GuardsOK ==
    /\ \A c \in Caller : Inside(c) => guard[lookup[c].old] = "active"
    /\ \A c, d \in Caller :
          Inside(c) /\ Inside(d) /\ lookup[c].old = lookup[d].old => c = d
    /\ \A c \in Caller : lookup[c].pc = "call" => uses[lookup[c].old] = 0

\* A pair waiting to be saved is known to nobody else.
Pending(c) ==
    LET n == lookup[c].new  old == lookup[c].old IN
    /\ n # 0
    /\ pairs[n].keys = pairs[old].keys /\ pairs[n].grant = pairs[old].grant
    /\ Known(n) /\ uses[n] = 0
    /\ \A a \in Alias : rows[a] # n
    /\ \A d \in Caller : lookup[d].old # n
    /\ \A d \in Caller : lookup[d].pc = "save" /\ lookup[d].new = n => d = c

SavesOK == \A c \in Caller : lookup[c].pc = "save" => Pending(c)

UsesOK == \A n \in Pair : uses[n] # 0 => uses[n] = 1 /\ Spent(n)

IInv ==
    /\ TypeOK
    /\ PairsOK
    /\ RowsOK
    /\ LookupsOK
    /\ GuardsOK
    /\ SavesOK
    /\ UsesOK
    /\ AliasesAgree

-----------------------------------------------------------------------------
(* The alias table *)

\* What saving a record does to each alias.
LEMMA StoredRows ==
    ASSUME TypeOK, NEW n \in Pair, NEW keys \in SUBSET Alias
    PROVE  /\ Stored(n, keys) \in [Alias -> 0..MaxPairs]
           /\ \A a \in keys : Stored(n, keys)[a] = n
           /\ \A a \in Alias \ keys : Stored(n, keys)[a] \in {0, rows[a]}
           /\ \A a \in Alias \ keys, b \in keys :
                 rows[b] # 0 /\ a \in pairs[rows[b]].keys => Stored(n, keys)[a] = 0
<1> DEFINE stale == keys \cup UNION {pairs[m].keys : m \in Found(keys)}
<1>1. Stored(n, keys) =
         [a \in Alias |-> IF a \in keys THEN n ELSE IF a \in stale THEN 0 ELSE rows[a]]
  BY DEF Stored
<1>2. \A b \in keys : rows[b] # 0 => rows[b] \in Found(keys) BY DEF Found
<1>3. \A b \in keys : rows[b] # 0 => pairs[rows[b]].keys \subseteq stale BY <1>2
<1> HIDE DEF stale
<1>4. n \in 0..MaxPairs BY TokensAssumption DEF Pair
<1>5. \A a \in Alias : rows[a] \in 0..MaxPairs /\ 0 \in 0..MaxPairs
  BY TokensAssumption DEF TypeOK
<1>6. QED BY <1>1, <1>3, <1>4, <1>5

\* A set of aliases without conflict leads to one record at most.
LEMMA OneRecord ==
    ASSUME NEW keys \in SUBSET Alias, ~Conflict(keys),
           NEW a \in keys, NEW b \in keys, rows[a] # 0, rows[b] # 0
    PROVE  rows[a] = rows[b]
BY DEF Conflict, Found

\* Types of the parts, and of the steps that only move a lookup or its guard.
LEMMA Types ==
    ASSUME TypeOK
    PROVE  /\ 0 \in 0..MaxPairs /\ Pair = (0..MaxPairs) \ {0}
           /\ \A n \in Pair : pairs[n] \in Issued /\ guard[n] \in Guard /\ uses[n] \in Nat
           /\ \A c \in Caller : /\ lookup[c] \in Lookup
                               /\ lookup[c].old \in 0..MaxPairs
                               /\ lookup[c].new \in 0..MaxPairs
           /\ \A a \in Alias : rows[a] \in 0..MaxPairs
BY TokensAssumption DEF TypeOK, Pair, Lookup

LEMMA TypesKept == ASSUME IInv, [Next]_tokenVars PROVE TypeOK'
<1> USE DEF TypeOK
<1>a. TypeOK BY DEF IInv
<1>b. \A c \in Caller : Inside(c) => lookup[c].old \in Pair
  BY <1>a, Types DEF IInv, LookupsOK
<1>0. Idle \in Lookup BY TokensAssumption DEF Idle, Lookup
<1>1. ASSUME NEW c \in Caller, NEW who \in SUBSET Alias, Look(c, who) PROVE TypeOK'
  <2>1. \A n \in Found(who) : n \in 0..MaxPairs BY <1>a, Types DEF Found
  <2>2. \A n \in 0..MaxPairs : [Idle EXCEPT !.pc = "wait", !.who = who, !.old = n] \in Lookup
    BY <1>0 DEF Lookup
  <2>3. [lookup EXCEPT ![c].pc = "fallback", ![c].who = who] \in [Caller -> Lookup]
    BY <1>a, ZenonT(40) DEF Lookup
  <2>4. CASE Conflict(who)
    BY <1>1, <1>a, <2>3, <2>4 DEF Look
  <2>5. CASE ~Conflict(who)
    <3>1. PICK n \in Found(who) :
             lookup' = [lookup EXCEPT ![c] = [Idle EXCEPT !.pc = "wait", !.who = who, !.old = n]]
      BY <1>1, <2>5 DEF Look
    <3>2. QED BY <1>1, <1>a, <2>1, <2>2, <3>1 DEF Look
  <2>6. QED BY <2>4, <2>5
<1>2. ASSUME NEW c \in Caller, Acquire(c) PROVE TypeOK'
  BY <1>2, <1>a, Types, TokensAssumption DEF Acquire, Goto, Lookup, InGuard, Guard
<1>3. ASSUME NEW c \in Caller, Recheck(c) PROVE TypeOK'
  BY <1>3, <1>a, Types DEF Recheck, Fail, Freeze, Goto, Lookup, InGuard, Guard
<1>4. ASSUME NEW c \in Caller, NEW n \in Pair, NEW renewable \in BOOLEAN,
             CallReturns(c, n, renewable)
      PROVE TypeOK'
  <2> DEFINE old == lookup[c].old
             new == [pairs[old] EXCEPT !.renewable = renewable, !.expiring = FALSE]
  <2>1. old \in Pair BY <1>b, <1>4 DEF CallReturns, Inside, InGuard
  <2>2. uses[old] + 1 \in Nat BY <2>1, <1>a
  <2>3. new \in Issued BY <2>1, <1>a, ZenonT(40) DEF Issued
  <2>4. lookup' \in [Caller -> Lookup]
    <3>1. [lookup[c] EXCEPT !.pc = "save", !.new = n] \in Lookup
      BY <1>a, Types DEF Lookup, InGuard
    <3>2. lookup' = [lookup EXCEPT ![c] = [lookup[c] EXCEPT !.pc = "save", !.new = n]]
      BY <1>4 DEF CallReturns
    <3>3. QED BY <1>a, <3>1, <3>2
  <2>5. QED BY <1>4, <1>a, <2>2, <2>3, <2>4 DEF CallReturns
<1>5. ASSUME NEW c \in Caller, CallRaises(c) PROVE TypeOK'
  <2>1. lookup[c].old \in Pair BY <1>b, <1>5 DEF CallRaises, Inside, InGuard
  <2>2. uses[lookup[c].old] + 1 \in Nat BY <2>1, <1>a
  <2>3. QED
    BY <1>5, <1>a, <2>2, Types DEF CallRaises, Fail, Freeze, Goto, Lookup, Guard
<1>6. ASSUME NEW c \in Caller, Save(c) PROVE TypeOK'
  <2>1. lookup[c].old \in Pair BY <1>b, <1>6 DEF Save, Inside, InGuard
  <2>2. lookup[c].new \in Pair BY <1>6, <1>a, Types DEF Save, IInv, SavesOK, Pending
  <2>3. pairs[lookup[c].old].keys \in SUBSET Alias BY <2>1, <1>a DEF Issued
  <2>4. Stored(lookup[c].new, pairs[lookup[c].old].keys) \in [Alias -> 0..MaxPairs]
    BY <2>2, <2>3, <1>a, StoredRows
  <2>5. rows' \in [Alias -> 0..MaxPairs] BY <1>6, <1>a, <2>4 DEF Save
  <2>6. guard' \in [Pair -> Guard] BY <1>6, <1>a DEF Save, Fail, Freeze, Guard
  <2>7. lookup' \in [Caller -> Lookup] BY <1>6, <1>a DEF Save, Fail, Goto, Lookup, InGuard
  <2>8. QED BY <1>6, <1>a, <2>5, <2>6, <2>7 DEF Save
<1>7. ASSUME NEW c \in Caller, Final(c) PROVE TypeOK'
  BY <1>7, <1>a, Types DEF Final, Fail, Freeze, Goto, Lookup, InGuard, Guard
<1>8. ASSUME NEW c \in Caller, Release(c) \/ Fallback(c) \/ Cancel(c) \/ Crash(c)
      PROVE TypeOK'
  BY <1>0, <1>8, <1>a, Types DEF Release, Fallback, Cancel, Crash, Return, Freeze, Guard
<1>9. ASSUME NEW n \in Pair, NEW keys \in SUBSET Alias, NEW renewable \in BOOLEAN,
             Authorize(n, keys, renewable)
      PROVE TypeOK'
  BY <1>9, <1>a, Types, StoredRows DEF Authorize, Issued
<1>10. ASSUME NEW n \in Pair, Expire(n) PROVE TypeOK'
  BY <1>10, <1>a, Types DEF Expire, Issued
<1>11. CASE UNCHANGED tokenVars BY <1>11, <1>a DEF tokenVars
<1>12. QED
  BY <1>1, <1>2, <1>3, <1>4, <1>5, <1>6, <1>7, <1>8, <1>9, <1>10, <1>11 DEF Next, Proceed
-----------------------------------------------------------------------------
(* Steps of a lookup *)

\* What a step of lookup c leaves of the other lookups.
Others(c) == \A d \in Caller \ {c} : lookup'[d] = lookup[d]

LEMMA Going ==
    ASSUME TypeOK, NEW c \in Caller, NEW pc, Goto(c, pc)
    PROVE  /\ Others(c)
           /\ lookup'[c].pc = pc
           /\ lookup'[c].old = lookup[c].old
           /\ lookup'[c].new = lookup[c].new
BY DEF Goto, Others, TypeOK, Lookup

LEMMA Returning ==
    ASSUME TypeOK, NEW c \in Caller, Return(c)
    PROVE  Others(c) /\ lookup'[c].pc = "idle" /\ lookup'[c].old = 0
BY DEF Return, Others, TypeOK, Idle

LEMMA Freezing ==
    ASSUME TypeOK, NEW c \in Caller, Freeze(c)
    PROVE  \A n \in Pair : guard'[n] = IF n = lookup[c].old THEN "frozen" ELSE guard[n]
BY DEF Freeze, TypeOK

\* The part of IInv about lookups and guards.
Guarded == LookupsOK /\ GuardsOK /\ SavesOK /\ UsesOK

\* A lookup that stops, freezing its guard or not, releases nothing.
LEMMA Stops ==
    ASSUME IInv, NEW c \in Caller, Others(c), UNCHANGED <<rows, pairs, uses>>,
           lookup'[c].pc \in {"idle", "fallback"},
           lookup'[c].old \in {0, lookup[c].old},
           \A n \in Pair : \/ guard'[n] = guard[n]
                           \/ n = lookup[c].old /\ Inside(c) /\ guard'[n] = "frozen"
    PROVE  Guarded'
<1> USE DEF IInv
<1>1. LookupsOK' BY DEF Others, LookupsOK, Inside, InGuard, Known
<1>2. GuardsOK'
  BY Types DEF Others, GuardsOK, LookupsOK, Inside, InGuard
<1>3. SavesOK' BY Types DEF Others, SavesOK, Pending, Known
<1>4. UsesOK' BY DEF Others, UsesOK, Spent, Inside, InGuard
<1>5. QED BY <1>1, <1>2, <1>3, <1>4 DEF Guarded

LEMMA FailStops ==
    ASSUME IInv, NEW c \in Caller, Inside(c), Fail(c), UNCHANGED <<rows, pairs, uses>>
    PROVE  Guarded'
<1>1. TypeOK BY DEF IInv
<1>2. Goto(c, "fallback") /\ Freeze(c) BY DEF Fail
<1>3. QED BY <1>1, <1>2, Going, Freezing, Stops

\* A lookup that moves on, holding what it held.
LEMMA Proceeds ==
    ASSUME IInv, NEW c \in Caller, Others(c), UNCHANGED <<rows, pairs, uses, guard>>,
           lookup'[c].old = lookup[c].old,
           lookup'[c].pc \in InGuard \ {"call", "save"},
           Inside(c), lookup[c].pc # "save"
    PROVE  Guarded'
<1> USE DEF IInv
<1>1. LookupsOK' BY DEF Others, LookupsOK, Inside, InGuard, Known
<1>2. GuardsOK' BY Types DEF Others, GuardsOK, LookupsOK, Inside, InGuard
<1>3. SavesOK' BY Types DEF Others, SavesOK, Pending, Known
<1>4. UsesOK' BY DEF Others, UsesOK, Spent, Inside, InGuard
<1>5. QED BY <1>1, <1>2, <1>3, <1>4 DEF Guarded
-----------------------------------------------------------------------------
(* The steps that leave the records and the uses alone *)

LEMMA QuietSteps ==
    ASSUME IInv, NEW c \in Caller,
           \/ \E who \in SUBSET Alias : Look(c, who)
           \/ Acquire(c) \/ Recheck(c) \/ Final(c) \/ Release(c)
           \/ Fallback(c) \/ Cancel(c) \/ Crash(c)
    PROVE  Guarded'
<1>a. TypeOK /\ PairsOK /\ RowsOK /\ LookupsOK /\ GuardsOK /\ SavesOK /\ UsesOK
  BY DEF IInv
<1>b. \A d \in Caller : Inside(d) => lookup[d].old \in Pair
  BY <1>a, Types DEF LookupsOK
<1>1. ASSUME NEW who \in SUBSET Alias, Look(c, who) PROVE Guarded'
  <2>1. UNCHANGED <<rows, guard, pairs, uses>> /\ lookup[c].pc = "idle" BY <1>1 DEF Look
  <2>2. CASE Conflict(who)
    <3>1. lookup' = [lookup EXCEPT ![c].pc = "fallback", ![c].who = who]
      BY <1>1, <2>2 DEF Look
    <3>2. Others(c) /\ lookup'[c].pc = "fallback" /\ lookup'[c].old = lookup[c].old
      BY <3>1, <1>a DEF Others, TypeOK, Lookup
    <3>3. QED BY <2>1, <3>2, Stops
  <2>3. CASE ~Conflict(who)
    <3>1. PICK n \in Found(who) :
             lookup' = [lookup EXCEPT ![c] = [Idle EXCEPT !.pc = "wait", !.who = who, !.old = n]]
      BY <1>1, <2>3 DEF Look
    <3>2. Others(c) /\ lookup'[c].pc = "wait" /\ lookup'[c].old = n
      BY <3>1, <1>a DEF Others, TypeOK, Idle
    <3>3. n # 0 /\ Known(n) /\ \E a \in Alias : rows[a] = n BY <1>a DEF Found, RowsOK
    <3>4. LookupsOK' BY <1>a, <2>1, <3>2, <3>3 DEF Others, LookupsOK, Inside, InGuard, Known
    <3>5. GuardsOK' BY <1>a, <2>1, <3>2 DEF Others, GuardsOK, Inside, InGuard
    <3>6. SavesOK' BY <1>a, <2>1, <3>2, <3>3 DEF Others, SavesOK, Pending, Known
    <3>7. UsesOK' BY <1>a, <2>1, <3>2 DEF Others, UsesOK, Spent, Inside, InGuard
    <3>8. QED BY <3>4, <3>5, <3>6, <3>7 DEF Guarded
  <2>4. QED BY <2>2, <2>3
<1>2. CASE Acquire(c)
  <2> DEFINE n == lookup[c].old
  <2>1. /\ UNCHANGED <<rows, pairs, uses>>
        /\ lookup[c].pc = "wait" /\ n \in Pair
    BY <1>2, <1>a, Types DEF Acquire, LookupsOK
  <2>2. CASE guard[n] = "free" /\ guard' = [guard EXCEPT ![n] = "active"] /\ Goto(c, "recheck")
    <3>1. /\ Others(c) /\ lookup'[c].pc = "recheck" /\ lookup'[c].old = n
      BY <2>2, <1>a, Going
    <3>2. \A m \in Pair : guard'[m] = IF m = n THEN "active" ELSE guard[m]
      BY <2>2, <1>a DEF TypeOK
    <3>3. LookupsOK' BY <1>a, <2>1, <3>1 DEF Others, LookupsOK, Inside, InGuard, Known
    <3>4. \A d \in Caller : Inside(d) => lookup[d].old # n
      BY <1>a, <2>2 DEF GuardsOK
    <3>5. GuardsOK'
      BY <1>a, <1>b, <2>1, <3>1, <3>2, <3>4 DEF Others, GuardsOK, Inside, InGuard
    <3>6. SavesOK' BY <1>a, <2>1, <3>1 DEF Others, SavesOK, Pending, Known
    <3>7. UsesOK'
      BY <1>a, <2>1, <2>2, <3>1, <3>2 DEF Others, UsesOK, Spent, Inside, InGuard
    <3>8. QED BY <3>3, <3>5, <3>6, <3>7 DEF Guarded
  <2>3. CASE UNCHANGED guard /\ lookup' = [lookup EXCEPT ![c].tries = @ + 1]
    <3>1. /\ Others(c) /\ lookup'[c].pc = "wait" /\ lookup'[c].old = n
          /\ lookup'[c].new = lookup[c].new
      BY <2>1, <2>3, <1>a DEF Others, TypeOK, Lookup
    <3>2. LookupsOK' BY <1>a, <2>1, <3>1 DEF Others, LookupsOK, Inside, InGuard, Known
    <3>3. GuardsOK' BY <1>a, <2>1, <2>3, <3>1 DEF Others, GuardsOK, Inside, InGuard
    <3>4. SavesOK' BY <1>a, <2>1, <3>1 DEF Others, SavesOK, Pending, Known
    <3>5. UsesOK' BY <1>a, <2>1, <2>3, <3>1 DEF Others, UsesOK, Spent, Inside, InGuard
    <3>6. QED BY <3>2, <3>3, <3>4, <3>5 DEF Guarded
  <2>4. CASE UNCHANGED guard /\ Goto(c, "fallback")
    BY <1>a, <2>1, <2>4, Going, Stops
  <2>5. QED BY <1>2, <2>2, <2>3, <2>4 DEF Acquire
<1>3. CASE Recheck(c)
  <2>1. UNCHANGED <<rows, pairs, uses>> /\ lookup[c].pc = "recheck" /\ Inside(c)
    BY <1>3 DEF Recheck, Inside, InGuard
  <2>2. CASE Fail(c) BY <2>1, <2>2, FailStops
  <2>3. CASE UNCHANGED guard /\ Goto(c, "final")
    BY <1>a, <2>1, <2>3, Going, Proceeds DEF InGuard
  <2>4. CASE /\ Found(lookup[c].who) = {lookup[c].old}
             /\ UNCHANGED guard /\ Goto(c, "call")
    <3>1. Others(c) /\ lookup'[c].pc = "call" /\ lookup'[c].old = lookup[c].old
      BY <1>a, <2>4, Going
    <3>2. \E a \in Alias : rows[a] = lookup[c].old
      BY <1>a, <2>4 DEF Found, TypeOK, Lookup
    <3>3. guard[lookup[c].old] = "active" BY <1>a, <2>1 DEF GuardsOK
    <3>4. uses[lookup[c].old] = 0
      BY <1>a, <1>b, <2>1, <3>2, <3>3 DEF UsesOK, Spent
    <3>5. LookupsOK' BY <1>a, <2>1, <3>1 DEF Others, LookupsOK, Inside, InGuard, Known
    <3>6. GuardsOK' BY <1>a, <2>1, <2>4, <3>1, <3>4 DEF Others, GuardsOK, Inside, InGuard
    <3>7. SavesOK' BY <1>a, <2>1, <3>1 DEF Others, SavesOK, Pending, Known
    <3>8. UsesOK' BY <1>a, <2>1, <2>4, <3>1 DEF Others, UsesOK, Spent, Inside, InGuard
    <3>9. QED BY <3>5, <3>6, <3>7, <3>8 DEF Guarded
  <2>5. QED BY <1>3, <2>2, <2>3, <2>4 DEF Recheck
<1>4. CASE Final(c)
  <2>1. UNCHANGED <<rows, pairs, uses>> /\ lookup[c].pc = "final" /\ Inside(c)
    BY <1>4 DEF Final, Inside, InGuard
  <2>2. CASE Fail(c) BY <2>1, <2>2, FailStops
  <2>3. CASE UNCHANGED guard /\ Goto(c, "release")
    BY <1>a, <2>1, <2>3, Going, Proceeds DEF InGuard
  <2>4. QED BY <1>4, <2>2, <2>3 DEF Final
<1>5. CASE Release(c)
  <2> DEFINE n == lookup[c].old
  <2>1. /\ UNCHANGED <<rows, pairs, uses>> /\ Return(c)
        /\ lookup[c].pc = "release" /\ Inside(c)
    BY <1>5 DEF Release, Inside, InGuard
  <2>2. Others(c) /\ lookup'[c].pc = "idle" /\ lookup'[c].old = 0
    BY <1>a, <2>1, Returning
  <2>3. \A m \in Pair : guard'[m] = IF m = n THEN "free" ELSE guard[m]
    BY <1>5, <1>a DEF Release, TypeOK
  <2>4. LookupsOK' BY <1>a, <2>1, <2>2 DEF Others, LookupsOK, Inside, InGuard, Known
  <2>5. GuardsOK' BY <1>a, <1>b, <2>1, <2>2, <2>3 DEF Others, GuardsOK, Inside, InGuard
  <2>6. SavesOK' BY <1>a, <2>1, <2>2 DEF Others, SavesOK, Pending, Known
  <2>7. guard[n] = "active" BY <1>a, <2>1 DEF GuardsOK
  <2>8. \A m \in Pair : uses[m] # 0 => uses[m] = 1 /\ Spent(m)' 
    BY <1>a, <2>1, <2>2, <2>3, <2>7 DEF Others, UsesOK, Spent, Inside, InGuard
  <2>9. UsesOK' BY <2>1, <2>8 DEF UsesOK
  <2>10. QED BY <2>4, <2>5, <2>6, <2>9 DEF Guarded
<1>6. CASE Fallback(c) \/ Crash(c)
  <2>1. UNCHANGED <<rows, guard, pairs, uses>> /\ Return(c) BY <1>6 DEF Fallback, Crash
  <2>2. QED BY <1>a, <2>1, Returning, Stops
<1>7. CASE Cancel(c)
  <2>1. UNCHANGED <<rows, pairs, uses>> /\ Return(c) BY <1>7 DEF Cancel
  <2>2. (Inside(c) /\ Freeze(c)) \/ UNCHANGED guard BY <1>7 DEF Cancel, Inside
  <2>3. QED BY <1>a, <2>1, <2>2, Returning, Freezing, Stops
<1>8. QED BY <1>1, <1>2, <1>3, <1>4, <1>5, <1>6, <1>7
-----------------------------------------------------------------------------
(* The steps that write records or use a token *)

\* Issuing a pair that replaces nothing yet.
LEMMA FreshUnknown ==
    ASSUME TypeOK, NEW n \in Pair, Fresh(n)
    PROVE  ~Known(n) /\ \A m \in Pair : Known(m) => m < n
BY DEF Fresh, Known, Pair

LEMMA CallSteps ==
    ASSUME IInv, NEW c \in Caller, NEW n \in Pair, NEW renewable \in BOOLEAN,
           CallReturns(c, n, renewable)
    PROVE  PairsOK' /\ RowsOK' /\ AliasesAgree' /\ Guarded'
<1> DEFINE old == lookup[c].old
<1>a. TypeOK /\ PairsOK /\ RowsOK /\ LookupsOK /\ GuardsOK /\ SavesOK /\ UsesOK /\ AliasesAgree
  BY DEF IInv
<1>b. /\ lookup[c].pc = "call" /\ Inside(c) /\ uses[old] = 0 /\ Fresh(n)
      /\ UNCHANGED <<rows, guard>>
  BY DEF CallReturns, Inside, InGuard
<1>c. old \in Pair /\ Known(old) /\ guard[old] = "active"
  BY <1>a, <1>b, Types DEF LookupsOK, GuardsOK
<1>d. ~Known(n) /\ \A m \in Pair : Known(m) => m < n BY <1>a, <1>b, FreshUnknown
<1>1. /\ pairs'[n].keys = pairs[old].keys /\ pairs'[n].grant = pairs[old].grant
      /\ \A m \in Pair \ {n} : pairs'[m] = pairs[m]
  BY <1>a, <1>c DEF CallReturns, TypeOK, Issued
<1>2. \A m \in Pair : uses'[m] = IF m = old THEN 1 ELSE uses[m]
  BY <1>a, <1>b, <1>c DEF CallReturns, TypeOK
<1>3. /\ Others(c) /\ lookup'[c].pc = "save" /\ lookup'[c].old = old /\ lookup'[c].new = n
  BY <1>a DEF CallReturns, Others, TypeOK, Lookup
<1>4. Known(n)' /\ \A m \in Pair : Known(m) => Known(m)'
  BY <1>a, <1>c, <1>1 DEF Known, NotIssued, PairsOK
<1>5. PairsOK'
  <2>1. \A m \in Pair : pairs[m].grant \in Nat BY <1>a, TokensAssumption DEF TypeOK, Issued
  <2>2. pairs'[n].grant <= n /\ Primary \in pairs'[n].keys
    BY <1>a, <1>c, <1>d, <1>1, <2>1 DEF PairsOK, Pair
  <2>3. \A m \in Pair \ {n} : Known(m)' => Known(m) BY <1>1 DEF Known
  <2>4. QED BY <1>a, <1>c, <1>1, <1>2, <1>4, <2>2, <2>3 DEF PairsOK
<1>6. \A a \in Alias : rows[a] # n BY <1>a, <1>d, Types DEF RowsOK, Known
<1>7. RowsOK' BY <1>a, <1>b, <1>4, Types DEF RowsOK
<1>8. AliasesAgree' BY <1>a, <1>b, <1>1, <1>6, Types DEF AliasesAgree
<1>9. \A d \in Caller : lookup[d].old # n BY <1>a, <1>d DEF LookupsOK, Pair
<1>10. LookupsOK'
  BY <1>a, <1>b, <1>c, <1>3, <1>4, Types DEF Others, LookupsOK, Inside, InGuard
<1>11. GuardsOK'
  BY <1>a, <1>b, <1>c, <1>2, <1>3, Types DEF Others, GuardsOK, LookupsOK, Inside, InGuard
<1>12. ASSUME NEW d \in Caller, lookup'[d].pc = "save" PROVE Pending(d)'
  <2>1. CASE d = c
    <3>1. \A x \in Caller : lookup'[x].old # n BY <1>3, <1>9 DEF Others
    <3>2. \A x \in Caller \ {c} : lookup'[x].pc = "save" => lookup'[x].new # n
      BY <1>3, <1>a, <1>d, Types DEF Others, SavesOK, Pending
    <3>3. uses'[n] = 0 BY <1>2, <1>a, <1>c, <1>d DEF PairsOK
    <3>4. pairs'[old] = pairs[old] BY <1>1, <1>c, <1>d
    <3>5. QED BY <2>1, <1>1, <1>3, <1>4, <1>6, <1>b, <3>1, <3>2, <3>3, <3>4 DEF Pending, Pair
  <2>2. CASE d # c
    <3>1. lookup'[d] = lookup[d] /\ Pending(d) BY <1>a, <1>3, <1>12, <2>2 DEF Others, SavesOK
    <3>2. lookup[d].new # n /\ lookup[d].new # old /\ lookup[d].old # n
          /\ lookup[d].new \in Pair
      BY <3>1, <1>a, <1>d, <1>9, Types DEF Pending
    <3>3. /\ pairs'[lookup[d].new] = pairs[lookup[d].new]
          /\ lookup[d].old \in Pair => pairs'[lookup[d].old] = pairs[lookup[d].old]
      BY <3>2, <1>1
    <3>4. lookup[d].old \in Pair
      BY <1>a, <1>3, <1>12, <2>2, Types DEF Others, LookupsOK, Inside, InGuard
    <3>5. QED
      BY <3>1, <3>2, <3>3, <3>4, <1>b, <1>2, <1>3, <1>4 DEF Pending, Others
  <2>3. QED BY <2>1, <2>2
<1>13. UsesOK'
  <2>1. \A m \in Pair : m = old => Spent(m)'
    BY <1>a, <1>b, <1>c, <1>3 DEF Spent, Others, GuardsOK, Inside, InGuard
  <2>2. \A m \in Pair \ {old} : Spent(m) => Spent(m)'
    BY <1>b, <1>3 DEF Spent, Others, Inside, InGuard
  <2>3. QED BY <1>a, <1>2, <2>1, <2>2 DEF UsesOK
<1>14. QED BY <1>5, <1>7, <1>8, <1>10, <1>11, <1>12, <1>13 DEF Guarded, SavesOK

LEMMA RaiseSteps ==
    ASSUME IInv, NEW c \in Caller, CallRaises(c)
    PROVE  PairsOK' /\ RowsOK' /\ AliasesAgree' /\ Guarded'
<1> DEFINE old == lookup[c].old
<1>a. TypeOK /\ PairsOK /\ RowsOK /\ LookupsOK /\ GuardsOK /\ SavesOK /\ UsesOK /\ AliasesAgree
  BY DEF IInv
<1>b. /\ lookup[c].pc = "call" /\ Inside(c) /\ uses[old] = 0
      /\ UNCHANGED <<rows, pairs>> /\ Freeze(c) /\ Goto(c, "fallback")
  BY <1>a DEF CallRaises, Inside, InGuard, Fail, GuardsOK
<1>c. old \in Pair /\ Known(old)
  BY <1>a, <1>b, Types DEF LookupsOK
<1>1. Others(c) /\ lookup'[c].pc = "fallback" /\ lookup'[c].old = old
  BY <1>a, <1>b, Going
<1>2. \A m \in Pair : guard'[m] = IF m = old THEN "frozen" ELSE guard[m]
  BY <1>a, <1>b, Freezing
<1>3. \A m \in Pair : uses'[m] = IF m = old THEN 1 ELSE uses[m]
  BY <1>a, <1>b, <1>c DEF CallRaises, TypeOK
<1>4. PairsOK' /\ RowsOK' /\ AliasesAgree'
  BY <1>a, <1>b, <1>c, <1>3 DEF PairsOK, RowsOK, AliasesAgree, Known
<1>5. LookupsOK' BY <1>a, <1>b, <1>1 DEF Others, LookupsOK, Inside, InGuard, Known
<1>6. GuardsOK'
  BY <1>a, <1>b, <1>1, <1>2, <1>3, Types DEF Others, GuardsOK, LookupsOK, Inside, InGuard
<1>7. SavesOK'
  BY <1>a, <1>b, <1>1, <1>3, Types DEF Others, SavesOK, Pending, Known
<1>8. UsesOK' BY <1>a, <1>b, <1>1, <1>2, <1>3 DEF Others, UsesOK, Spent, Inside, InGuard
<1>9. QED BY <1>4, <1>5, <1>6, <1>7, <1>8 DEF Guarded
LEMMA SaveSteps ==
    ASSUME IInv, NEW c \in Caller, Save(c)
    PROVE  /\ PairsOK' /\ RowsOK' /\ AliasesAgree' /\ Guarded'
           /\ \A a \in Alias : rows[a] # 0 /\ rows'[a] # 0
                 => pairs'[rows'[a]].grant = pairs[rows[a]].grant
<1> DEFINE old == lookup[c].old
           new == lookup[c].new
           keys == pairs[old].keys
<1>a. TypeOK /\ PairsOK /\ RowsOK /\ LookupsOK /\ GuardsOK /\ SavesOK /\ UsesOK /\ AliasesAgree
  BY DEF IInv
<1>b. lookup[c].pc = "save" /\ Inside(c) /\ UNCHANGED <<pairs, uses>>
  BY DEF Save, Inside, InGuard
<1>1. CASE Fail(c) /\ UNCHANGED rows
  <2>1. Guarded' BY <1>b, <1>1, FailStops
  <2>2. PairsOK' /\ RowsOK' /\ AliasesAgree'
    BY <1>a, <1>b, <1>1 DEF PairsOK, RowsOK, AliasesAgree, Known
  <2>3. QED BY <1>b, <1>1, <2>1, <2>2
<1>2. CASE /\ Found(keys) = {old}
           /\ rows' = Stored(new, keys)
           /\ Goto(c, "final")
           /\ UNCHANGED guard
  <2>1. Others(c) /\ lookup'[c].pc = "final" /\ lookup'[c].old = old
    BY <1>a, <1>2, Going
  <2>2. Pending(c) /\ new \in Pair /\ old \in Pair /\ Known(old)
    BY <1>a, <1>b, Types DEF SavesOK, Pending, LookupsOK
  <2>3. keys \in SUBSET Alias BY <1>a, <2>2 DEF TypeOK, Issued
  <2>4. /\ \A a \in keys : rows'[a] = new
        /\ \A a \in Alias \ keys : rows'[a] \in {0, rows[a]}
    BY <1>a, <1>2, <2>2, <2>3, StoredRows
  <2>5. \A a \in keys : rows[a] \in {0, old} BY <1>2, <2>3 DEF Found
  <2>6. \E a \in keys : rows[a] = old BY <1>2, <2>2 DEF Found
  <2>7. \A a \in Alias \ keys : rows[a] = 0
    <3>1. PICK b \in keys : rows[b] = old BY <2>6
    <3>2. b \in Alias /\ rows[b] # 0 /\ pairs[rows[b]].keys = keys
      BY <1>a, <2>2, <2>3, <3>1, Types
    <3>3. QED BY <1>a, <3>2 DEF AliasesAgree
  <2>8. \A a \in Alias : rows'[a] = IF a \in keys THEN new ELSE 0 BY <2>4, <2>7
  <2>9. pairs[new].keys = keys /\ pairs[new].grant = pairs[old].grant /\ Known(new)
        /\ uses[new] = 0
    BY <2>2 DEF Pending
  <2>10. PairsOK' BY <1>a, <1>b DEF PairsOK, Known
  <2>11. RowsOK' BY <1>b, <2>8, <2>9 DEF RowsOK, Known
  <2>12. AliasesAgree' BY <1>b, <2>8, <2>9 DEF AliasesAgree
  <2>13. LookupsOK' BY <1>a, <1>b, <2>1 DEF Others, LookupsOK, Inside, InGuard, Known
  <2>14. GuardsOK'
    BY <1>a, <1>b, <1>2, <2>1, Types DEF Others, GuardsOK, LookupsOK, Inside, InGuard
  <2>15. ASSUME NEW d \in Caller, lookup'[d].pc = "save" PROVE Pending(d)'
    <3>1. d # c /\ lookup'[d] = lookup[d] /\ Pending(d)
      BY <1>a, <2>1, <2>15 DEF Others, SavesOK
    <3>2. lookup[d].new # new BY <1>b, <2>2, <3>1 DEF Pending
    <3>3. \A a \in Alias : rows'[a] # lookup[d].new BY <2>8, <3>1, <3>2 DEF Pending
    <3>4. \A x \in Caller : lookup'[x].old = lookup[x].old BY <2>1 DEF Others
    <3>5. \A x \in Caller : lookup'[x].pc = "save" => lookup'[x] = lookup[x]
      BY <2>1 DEF Others
    <3>6. QED BY <1>b, <3>1, <3>3, <3>4, <3>5 DEF Pending, Known
  <2>16. ASSUME NEW m \in Pair, uses'[m] # 0 PROVE uses'[m] = 1 /\ Spent(m)'
    <3>1. uses[m] = 1 /\ Spent(m) /\ m # new BY <1>a, <1>b, <2>9, <2>16 DEF UsesOK
    <3>2. CASE \A a \in Alias : rows[a] # m
      BY <1>b, <2>8, <3>1, <3>2, Types, <1>a DEF Spent
    <3>3. CASE guard[m] = "frozen" BY <1>2, <1>b, <3>1, <3>3 DEF Spent
    <3>4. CASE m = old
      BY <1>b, <2>2, <2>8, <3>1, <3>4, Types, <1>a DEF Spent
    <3>5. CASE /\ m # old /\ guard[m] = "active"
               /\ \A d \in Caller : Inside(d) /\ lookup[d].old = m => lookup[d].pc = "save"
      BY <1>b, <1>2, <2>1, <3>1, <3>5 DEF Spent, Others, Inside
    <3>6. QED BY <3>1, <3>2, <3>3, <3>4, <3>5 DEF Spent
  <2>17. UsesOK' BY <2>16 DEF UsesOK
  <2>18. ASSUME NEW a \in Alias, rows[a] # 0, rows'[a] # 0
         PROVE  pairs'[rows'[a]].grant = pairs[rows[a]].grant
    BY <1>b, <2>5, <2>8, <2>9, <2>18
  <2>19. QED
    BY <2>10, <2>11, <2>12, <2>13, <2>14, <2>15, <2>17, <2>18 DEF Guarded, SavesOK
<1>3. QED BY <1>1, <1>2 DEF Save

LEMMA AuthorizeSteps ==
    ASSUME IInv, NEW n \in Pair, NEW keys \in SUBSET Alias, NEW renewable \in BOOLEAN,
           Authorize(n, keys, renewable)
    PROVE  /\ PairsOK' /\ RowsOK' /\ AliasesAgree' /\ Guarded'
           /\ \A a \in Alias : rows[a] # 0 /\ rows'[a] # 0
                 => pairs'[rows'[a]].grant >= pairs[rows[a]].grant
<1>a. TypeOK /\ PairsOK /\ RowsOK /\ LookupsOK /\ GuardsOK /\ SavesOK /\ UsesOK /\ AliasesAgree
  BY DEF IInv
<1>b. /\ Primary \in keys /\ Fresh(n) /\ ~Conflict(keys)
      /\ rows' = Stored(n, keys) /\ UNCHANGED <<guard, uses, lookup>>
  BY DEF Authorize
<1>c. ~Known(n) /\ \A m \in Pair : Known(m) => m < n BY <1>a, <1>b, FreshUnknown
<1>1. /\ pairs'[n].keys = keys /\ pairs'[n].grant = n
      /\ \A m \in Pair \ {n} : pairs'[m] = pairs[m]
  BY <1>a DEF Authorize, TypeOK
<1>2. Known(n)' /\ (\A m \in Pair \ {n} : Known(m)' <=> Known(m))
  BY <1>b, <1>1 DEF Known, NotIssued
<1>3. /\ \A a \in keys : rows'[a] = n
      /\ \A a \in Alias \ keys : rows'[a] \in {0, rows[a]}
      /\ \A a \in Alias \ keys, b \in keys :
            rows[b] # 0 /\ a \in pairs[rows[b]].keys => rows'[a] = 0
  BY <1>a, <1>b, StoredRows
<1>4. \A a \in Alias : rows[a] # n BY <1>a, <1>c, Types DEF RowsOK, Known
<1>5. \A a \in Alias : rows'[a] = IF a \in keys THEN n ELSE 0
  <2> SUFFICES ASSUME NEW a \in Alias \ keys, rows[a] # 0 PROVE rows'[a] = 0
    BY <1>3
  <2>1. rows[a] \in Pair /\ Primary \in pairs[rows[a]].keys
    BY <1>a, Types DEF RowsOK, PairsOK
  <2>2. a \in pairs[rows[a]].keys /\ rows[Primary] = rows[a]
    BY <1>a, <2>1, TokensAssumption DEF AliasesAgree
  <2>3. QED BY <1>b, <1>3, <2>2
<1>6. PairsOK'
  <2>1. n <= n /\ \A m \in Pair : uses'[m] = uses[m] BY <1>b DEF Pair
  <2>2. QED BY <1>a, <1>b, <1>1, <1>2, <2>1 DEF PairsOK
<1>7. RowsOK' BY <1>2, <1>5 DEF RowsOK, Known
<1>8. AliasesAgree' BY <1>1, <1>5 DEF AliasesAgree
<1>9. LookupsOK'
  BY <1>a, <1>b, <1>1, <1>c, Types, <1>2 DEF LookupsOK, Inside, Known
<1>10. GuardsOK' BY <1>a, <1>b DEF GuardsOK, Inside
<1>11. ASSUME NEW d \in Caller, lookup'[d].pc = "save" PROVE Pending(d)'
  <2>1. Pending(d) BY <1>a, <1>b, <1>11 DEF SavesOK
  <2>2. /\ lookup[d].new \in Pair \ {n} /\ lookup[d].old \in Pair \ {n}
    BY <1>a, <1>b, <1>c, <1>11, <2>1, Types DEF Pending, LookupsOK, Inside, InGuard, Known
  <2>3. \A a \in Alias : rows'[a] # lookup[d].new BY <1>5, <2>1, <2>2 DEF Pending
  <2>4. QED BY <1>b, <1>1, <2>1, <2>2, <2>3 DEF Pending, Known
<1>12. UsesOK'
  <2>1. \A m \in Pair : uses[m] # 0 => m # n BY <1>a, <1>c DEF PairsOK
  <2>2. \A m \in Pair \ {n} : Spent(m) => Spent(m)'
    BY <1>b, <1>5, Types, <1>a DEF Spent, Inside
  <2>3. QED BY <1>a, <1>b, <2>1, <2>2 DEF UsesOK
<1>13. ASSUME NEW a \in Alias, rows[a] # 0, rows'[a] # 0
       PROVE  pairs'[rows'[a]].grant >= pairs[rows[a]].grant
  <2>1. rows'[a] = n BY <1>5, <1>13
  <2>2. rows[a] \in Pair /\ Known(rows[a]) BY <1>a, <1>13, Types DEF RowsOK
  <2>3. pairs[rows[a]].grant <= rows[a] /\ rows[a] < n BY <1>a, <1>c, <2>2 DEF PairsOK
  <2>4. pairs[rows[a]].grant \in Nat BY <1>a, <2>2, TokensAssumption DEF TypeOK, Issued
  <2>5. QED BY <1>1, <2>1, <2>2, <2>3, <2>4 DEF Pair
<1>14. QED
  BY <1>6, <1>7, <1>8, <1>9, <1>10, <1>11, <1>12, <1>13 DEF Guarded, SavesOK

LEMMA ExpireSteps ==
    ASSUME IInv, NEW n \in Pair, Expire(n)
    PROVE  /\ PairsOK' /\ RowsOK' /\ AliasesAgree' /\ Guarded'
           /\ \A m \in Pair : pairs'[m].grant = pairs[m].grant
<1>a. TypeOK /\ PairsOK /\ RowsOK /\ LookupsOK /\ GuardsOK /\ SavesOK /\ UsesOK /\ AliasesAgree
  BY DEF IInv
<1>b. UNCHANGED <<rows, guard, uses, lookup>> BY DEF Expire
<1>1. \A m \in Pair : pairs'[m].keys = pairs[m].keys /\ pairs'[m].grant = pairs[m].grant
  BY <1>a DEF Expire, TypeOK, Issued
<1>2. \A m \in Pair : Known(m) => pairs[m].keys # {} BY <1>a DEF PairsOK
<1>3. \A m \in Pair \ {n} : pairs'[m] = pairs[m] BY <1>a DEF Expire, TypeOK
<1>4. \A m \in Pair : Known(m)' <=> Known(m)
  <2>1. Known(n) BY DEF Expire, Known
  <2>2. Known(n)' BY <1>1, <1>2, <2>1 DEF Known, NotIssued
  <2>3. QED BY <1>3, <2>1, <2>2 DEF Known
<1>5. PairsOK' BY <1>a, <1>b, <1>1, <1>4 DEF PairsOK
<1>6. RowsOK' BY <1>a, <1>b, <1>4, Types DEF RowsOK, Known
<1>7. AliasesAgree' BY <1>a, <1>b, <1>1, Types DEF AliasesAgree
<1>8. LookupsOK' BY <1>a, <1>b, <1>4, Types DEF LookupsOK, Inside, Known
<1>9. GuardsOK' BY <1>a, <1>b DEF GuardsOK, Inside
<1>10. ASSUME NEW d \in Caller, lookup'[d].pc = "save" PROVE Pending(d)'
  <2>1. Pending(d) BY <1>a, <1>b, <1>10 DEF SavesOK
  <2>2. lookup[d].new \in Pair /\ lookup[d].old \in Pair
    BY <1>a, <1>b, <1>10, <2>1, Types DEF Pending, LookupsOK, Inside, InGuard
  <2>3. QED BY <1>b, <1>1, <1>4, <2>1, <2>2 DEF Pending, Known
<1>11. UsesOK' BY <1>a, <1>b DEF UsesOK, Spent, Inside
<1>12. QED BY <1>1, <1>5, <1>6, <1>7, <1>8, <1>9, <1>10, <1>11 DEF Guarded, SavesOK
-----------------------------------------------------------------------------
(* The invariant, and what follows from it *)

LEMMA InitHolds == ASSUME Init PROVE IInv
<1> USE DEF Init
<1>1. TypeOK
  <2>1. NotIssued \in Issued BY TokensAssumption DEF NotIssued, Issued
  <2>2. Idle \in Lookup BY TokensAssumption DEF Idle, Lookup
  <2>3. 0 \in 0..MaxPairs /\ "free" \in Guard /\ 0 \in Nat BY TokensAssumption DEF Guard
  <2>4. QED BY <2>1, <2>2, <2>3 DEF TypeOK
<1>2. PairsOK /\ UsesOK BY DEF PairsOK, UsesOK, Known
<1>3. RowsOK /\ AliasesAgree BY DEF RowsOK, AliasesAgree
<1>4. LookupsOK /\ GuardsOK /\ SavesOK
  BY DEF LookupsOK, GuardsOK, SavesOK, Inside, InGuard, Idle
<1>5. QED BY <1>1, <1>2, <1>3, <1>4 DEF IInv

\* What a step does, in the cases of the lemmas above.
LEMMA StepCases ==
    ASSUME [Next]_tokenVars
    PROVE  \/ \E c \in Caller : /\ UNCHANGED <<rows, pairs, uses>>
                               /\ \/ \E who \in SUBSET Alias : Look(c, who)
                                  \/ Acquire(c) \/ Recheck(c) \/ Final(c) \/ Release(c)
                                  \/ Fallback(c) \/ Cancel(c) \/ Crash(c)
           \/ \E c \in Caller, n \in Pair, renewable \in BOOLEAN : CallReturns(c, n, renewable)
           \/ \E c \in Caller : CallRaises(c)
           \/ \E c \in Caller : Save(c)
           \/ \E n \in Pair, keys \in SUBSET Alias, renewable \in BOOLEAN :
                 Authorize(n, keys, renewable)
           \/ \E n \in Pair : Expire(n)
           \/ UNCHANGED tokenVars
BY DEF Next, Proceed, Look, Acquire, Recheck, Final, Release, Fallback, Cancel, Crash

LEMMA StepHolds == ASSUME IInv, [Next]_tokenVars PROVE IInv'
<1>a. TypeOK /\ PairsOK /\ RowsOK /\ LookupsOK /\ GuardsOK /\ SavesOK /\ UsesOK /\ AliasesAgree
  BY DEF IInv
<1>1. TypeOK' BY TypesKept
<1>2. PairsOK' /\ RowsOK' /\ AliasesAgree' /\ Guarded'
  <2>1. ASSUME NEW c \in Caller, UNCHANGED <<rows, pairs, uses>>,
               \/ \E who \in SUBSET Alias : Look(c, who)
               \/ Acquire(c) \/ Recheck(c) \/ Final(c) \/ Release(c)
               \/ Fallback(c) \/ Cancel(c) \/ Crash(c)
        PROVE PairsOK' /\ RowsOK' /\ AliasesAgree' /\ Guarded'
    BY <1>a, <2>1, QuietSteps DEF PairsOK, RowsOK, AliasesAgree, Known
  <2>2. CASE UNCHANGED tokenVars
    <3>1. PairsOK' /\ RowsOK' /\ AliasesAgree' /\ LookupsOK'
      BY <1>a, <2>2 DEF tokenVars, PairsOK, RowsOK, AliasesAgree, LookupsOK, Known, Inside
    <3>2. GuardsOK' /\ UsesOK' BY <1>a, <2>2 DEF tokenVars, GuardsOK, UsesOK, Spent, Inside
    <3>3. SavesOK' BY <1>a, <2>2 DEF tokenVars, SavesOK, Pending, Known
    <3>4. QED BY <3>1, <3>2, <3>3 DEF Guarded
  <2>3. QED
    BY <2>1, <2>2, StepCases, CallSteps, RaiseSteps, SaveSteps, AuthorizeSteps, ExpireSteps
<1>3. QED BY <1>1, <1>2 DEF IInv, Guarded

\* The invariant holds of every behaviour of the provider.
THEOREM TokensInvariant == Spec => []IInv
<1>1. Init => IInv BY InitHolds
<1>2. IInv /\ [Next]_tokenVars => IInv' BY StepHolds
<1>3. QED BY <1>1, <1>2, PTL DEF Spec

\* Rows, guards, pairs and lookups keep their types, polls stay bounded.
THEOREM TokensTypes == Spec => []TypeOK
<1>1. IInv => TypeOK BY DEF IInv
<1>2. QED BY <1>1, TokensInvariant, PTL

\* No refresh token is ever presented twice, however many processes share the
\* store, whenever they are cancelled or die (refresh_guard_for_tenant).
THEOREM TokenUsedOnce == Spec => []RefreshedOnce
<1>1. IInv => RefreshedOnce
  <2>1. ASSUME IInv, NEW n \in Pair PROVE uses[n] <= 1
    <3>1. uses[n] \in Nat BY <2>1, Types DEF IInv
    <3>2. uses[n] # 0 => uses[n] = 1 BY <2>1 DEF IInv, UsesOK
    <3>3. QED BY <3>1, <3>2
  <2>2. QED BY <2>1 DEF RefreshedOnce
<1>2. QED BY <1>1, TokensInvariant, PTL

\* All aliases of a stored record lead to it, and no other alias to anything.
THEOREM TokenAliases == Spec => []AliasesAgree
<1>1. IInv => AliasesAgree BY DEF IInv
<1>2. QED BY <1>1, TokensInvariant, PTL

\* A refresh that ends late never replaces the tokens of a newer authorization
\* (the expected tokens of save_for_tenant).
THEOREM NewerGrantKept == Spec => GrantNeverOlder
<1> DEFINE Newer == \A a \in Alias : rows[a] # 0 /\ rows'[a] # 0
                       => pairs'[rows'[a]].grant >= pairs[rows[a]].grant
<1>1. ASSUME IInv, [Next]_tokenVars PROVE Newer
  <2>a. TypeOK /\ RowsOK BY <1>1 DEF IInv
  <2>b. IInv' BY <1>1, StepHolds
  <2>c. \A m \in Pair : pairs[m].grant \in Nat /\ pairs'[m].grant \in Nat
    BY <2>a, <2>b, TokensAssumption DEF IInv, TypeOK, Issued
  <2>d. \A a \in Alias : rows[a] # 0 => rows[a] \in Pair /\ Known(rows[a])
    BY <2>a, Types DEF RowsOK
  <2>1. CASE UNCHANGED <<rows, pairs>> BY <2>1, <2>c, <2>d
  <2>2. ASSUME NEW c \in Caller, NEW n \in Pair, NEW renewable \in BOOLEAN,
               CallReturns(c, n, renewable)
        PROVE Newer
    <3>1. ~Known(n) BY <2>a, <2>2, FreshUnknown DEF CallReturns
    <3>2. rows' = rows /\ \A m \in Pair \ {n} : pairs'[m] = pairs[m]
      BY <2>2, <2>a DEF CallReturns, TypeOK
    <3>3. \A a \in Alias : rows[a] # 0 => rows[a] # n BY <2>d, <3>1 DEF Known
    <3>4. QED BY <2>c, <2>d, <3>2, <3>3
  <2>3. ASSUME NEW c \in Caller, Save(c) PROVE Newer
    BY <1>1, <2>3, <2>c, <2>d, SaveSteps
  <2>4. ASSUME NEW n \in Pair, NEW keys \in SUBSET Alias, NEW renewable \in BOOLEAN,
               Authorize(n, keys, renewable)
        PROVE Newer
    BY <1>1, <2>4, AuthorizeSteps
  <2>5. ASSUME NEW n \in Pair, Expire(n) PROVE Newer
    <3>1. rows' = rows BY <2>5 DEF Expire
    <3>2. QED BY <1>1, <2>5, <2>c, <2>d, <3>1, ExpireSteps
  <2>6. ASSUME NEW c \in Caller, CallRaises(c) PROVE Newer
    BY <2>6, <2>1 DEF CallRaises
  <2>7. UNCHANGED tokenVars => UNCHANGED <<rows, pairs>> BY DEF tokenVars
  <2>8. QED BY <1>1, <2>1, <2>2, <2>3, <2>4, <2>5, <2>6, <2>7, StepCases
<1>2. IInv /\ [Next]_tokenVars => [Newer]_tokenVars BY <1>1
<1>3. QED BY <1>2, TokensInvariant, PTL DEF Spec, GrantNeverOlder

=============================================================================
