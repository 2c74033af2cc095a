-------------------------- MODULE AgentTurnsProofs --------------------------
(***************************************************************************)
(* Theorems about AgentTurns, for any messages, menus, bounds and any      *)
(* summarize_keep_recent, with any number of clicks and crashes.           *)
(*                                                                         *)
(* The inductive invariant IInv relates the history, the waits and the     *)
(* turn that holds the lock.  Results are in the slice of their batch, so  *)
(* that a batch is whole or still open at the end of the history           *)
(* (HistoryOK, AnsweredTo).  A call that waits has not run, nor has what   *)
(* comes behind it in its batch (WaitsOK): nothing of that can be queued   *)
(* twice.  The turn is at one call of its batch: those before it have      *)
(* their results, none from it on has run, and none but it waits (Reached).*)
(*                                                                         *)
(* The repair and the summaries are defined with FlattenSeq, SubSeq, Min   *)
(* and Max.  The provers have no induction; what these operators yield is  *)
(* shown from the first position at which it could be otherwise (Least).   *)
(***************************************************************************)
EXTENDS AgentTurns, FiniteSetTheorems, SequenceTheorems, WellFoundedInduction, TLAPS

Call == [id : CallId, asks : BOOLEAN]

CallName == Nat \X CallId

Entry ==
    {User(m) : m \in Message} \cup {Batch(c) : c \in Nat} \cup {Answer, Summary}
    \cup {Result(c, id, is) : c \in Nat, id \in CallId, is \in {"done", "note"}}

TaskRecord ==
    {MessageTask(m) : m \in Message \cup {"clear", "compact"}} \cup {ResumeTask(call) : call \in CallName}

Working == {"tools", "result", "send", "suspend"}

Deciding == {"decided", "complete"}

\* Batches and their results are known, and no message or batch comes twice.
EntriesOK(h) ==
    /\ \A i \in DOMAIN h : h[i].role \in {"assistant", "tool"} => h[i].of \in DOMAIN batches
    /\ \A i \in DOMAIN h : h[i].role = "tool" => h[i].id \in Ids(h[i].of)
    /\ \A i, j \in DOMAIN h : h[i].role \in {"user", "assistant"} /\ h[i] = h[j] => i = j

\* Results are in the slice of their batch, one for each call.
Placed(h) ==
    \A i, j \in DOMAIN h : h[i].role = "tool" =>
        /\ i \in Slice(h, h[i].of)
        /\ h[j].role = "tool" /\ h[j].of = h[i].of /\ h[j].id = h[i].id => i = j

\* Only a wait resumed over a gap puts a result elsewhere.
HistoryOK(h) == h \in Seq(Entry) /\ EntriesOK(h) /\ (~torn => Placed(h))

\* Every call of c has a result, or that of every other batch has.
Done(h, c) == \A id \in Ids(c) : Answered(h, c, id)

Others(h, c) == \A d \in DOMAIN batches \ {c} : Contains(h, Batch(d)) => Done(h, d)

\* A result of c appended to h is in the slice of c.
EndsIn(h, c) == Len(h) \in Slice(h, c)

Name(c, n) == <<c, batches[c][n].id>>

Awaits(c, n) == Name(c, n) \in DOMAIN wait /\ wait[Name(c, n)] = "awaiting"

\* A call that waits has not run, nor has what comes after it in its batch.
WaitsOK ==
    /\ wait \in [DOMAIN wait -> {"awaiting", "executing", "gone"}]
    /\ DOMAIN wait \cup ran \subseteq CallName
    /\ \A call \in DOMAIN wait \cup ran : call[1] \in DOMAIN batches /\ call[2] \in Ids(call[1])
    /\ \A c \in DOMAIN batches : \A n \in DOMAIN batches[c] : Awaits(c, n) =>
          /\ \A m \in DOMAIN batches[c] : m >= n => Name(c, m) \notin ran
          /\ \A m \in DOMAIN batches[c] : Awaits(c, m) => m = n
    /\ ~ranAgain

\* The turn is at call k of its batch.
Reached(k) ==
    LET calls == batches[turn.batch] IN
    /\ k \in 1 .. Len(calls) + 1
    /\ turn.at # "tools" => k <= Len(calls)
    /\ turn.todo = SubSeq(calls, k, IF turn.at \in Deciding THEN k ELSE Len(calls))
    /\ \A m \in k .. Len(calls) : Name(turn.batch, m) \in ran => m = k /\ turn.at \in {"result", "complete"}
    /\ \A m \in DOMAIN calls : Awaits(turn.batch, m) => m = k /\ turn.at \in {"send", "suspend"}

\* Message turns are safe, and the others as long as no wait was resumed over a gap.
Safe == tasks # <<>> /\ (Head(tasks).kind = "message" \/ ~torn)

\* The other batches are whole; that of the turn is, up to call k, and is still open.
AnsweredTo(k) ==
    /\ Contains(history, Batch(turn.batch))
    /\ Others(history, turn.batch)
    /\ turn.at \in Deciding => Done(history, turn.batch)
    /\ EndsIn(history, turn.batch) \/ Done(history, turn.batch)
    /\ \A m \in 1 .. k - 1 : Answered(history, turn.batch, batches[turn.batch][m].id)

\* The model is called over a whole history.
TurnOK ==
    /\ turn.at \in Working \cup Deciding =>
          /\ turn.batch \in DOMAIN batches
          /\ \E k \in Nat : Reached(k) /\ (Safe => AnsweredTo(k))
    /\ turn.at \in {"loop", "model"} => (Safe => Others(history, 0))

TurnRecord ==
    [at : Working \cup Deciding \cup {"start", "loop", "model"}, batch : Nat, todo : Seq(Call)]

LockOK ==
    /\ tasks \in Seq(TaskRecord)
    /\ turn \in TurnRecord
    /\ tasks = <<>> => turn = NoTurn

IInv ==
    /\ scenario \in Scenarios
    /\ batches \in Seq(Menu)
    /\ HistoryOK(history)
    /\ WaitsOK
    /\ LockOK
    /\ TurnOK

-----------------------------------------------------------------------------
(* Numbers: a set of naturals has a least element, and with it a            *)
(* counterexample that comes first.                                         *)

Less == {p \in Nat \X Nat : p[1] < p[2]}

\* The order of the naturals has no infinite descent.
LEMMA LessWellFounded == IsWellFoundedOn(Less, Nat)
BY NatLessThanWellFounded DEF OpToRel, Less

\* A set of naturals has a least element.
LEMMA Least ==
    ASSUME NEW S \in SUBSET Nat, S # {}
    PROVE  \E n \in S : \A m \in S : n <= m
<1>1. PICK n \in S : \A m \in S : ~(<<m, n>> \in Less) BY WFMin, LessWellFounded
<1>2. \A m \in S : ~(m < n)
  <2> TAKE m \in S
  <2>1. <<m, n>> \in Nat \X Nat /\ <<m, n>> \notin Less BY <1>1
  <2>2. QED BY <2>1 DEF Less
<1>3. QED BY <1>2

\* Min of the community modules is that element.
LEMMA MinOf ==
    ASSUME NEW S \in SUBSET Nat, S # {}
    PROVE  Min(S) \in S /\ \A m \in S : Min(S) <= m
<1>1. PICK n \in S : \A m \in S : n <= m BY Least
<1>2. QED BY <1>1 DEF Min

\* Max is the greatest element of a set that has a bound.
LEMMA MaxOf ==
    ASSUME NEW S \in SUBSET Nat, S # {}, NEW top \in Nat, \A m \in S : m <= top
    PROVE  Max(S) \in S /\ \A m \in S : m <= Max(S)
<1> DEFINE bounds == {b \in Nat : \A m \in S : m <= b}
<1>1. PICK b \in bounds : \A c \in bounds : b <= c BY Least
<1>2. b \in S
  <2> SUFFICES ASSUME b \notin S PROVE FALSE OBVIOUS
  <2>1. PICK m \in S : TRUE OBVIOUS
  <2>2. b > 0 BY <2>1, m <= b, m # b
  <2>3. \A x \in S : x <= b - 1 OBVIOUS
  <2>4. b - 1 \in bounds BY <2>2, <2>3
  <2>5. QED BY <1>1, <2>4
<1>3. QED BY <1>1, <1>2 DEF Max

-----------------------------------------------------------------------------
(* Sequences put one behind the other *)

\* f holds the first n of s, put one behind the other.
Joins(s, n, f) == f = [i \in 1..n |-> IF i = 1 THEN s[i] ELSE f[i-1] \o s[i]]

\* The recursive function behind FlattenSeq exists, for any prefix.
LEMMA JoinsExist == ASSUME NEW s, NEW n \in Nat PROVE \E f : Joins(s, n, f)
<1> DEFINE bad == {m \in Nat : ~\E f : Joins(s, m, f)}
<1> SUFFICES ASSUME bad # {} PROVE FALSE OBVIOUS
<1>1. PICK m \in bad : \A k \in bad : m <= k BY Least
<1>2. m # 0
  <2>1. Joins(s, 0, [i \in 1..0 |-> 0]) BY DEF Joins
  <2>2. QED BY <1>1, <2>1
<1>3. PICK f : Joins(s, m - 1, f) BY <1>1, <1>2, m - 1 \in Nat, ~(m <= m - 1)
<1> DEFINE g == [i \in 1..m |-> IF i = m THEN IF i = 1 THEN s[i] ELSE f[i-1] \o s[i] ELSE f[i]]
<1>4. \A i \in 1..m : g[i] = IF i = 1 THEN s[i] ELSE g[i-1] \o s[i]
  <2> TAKE i \in 1..m
  <2>1. CASE i = m BY <2>1, <1>1
  <2>2. CASE i # m
    <3>1. i \in 1..m-1 /\ i # m BY <2>2, <1>1
    <3>2. g[i] = f[i] BY <3>1
    <3>3. f[i] = IF i = 1 THEN s[i] ELSE f[i-1] \o s[i] BY <1>3, <3>1 DEF Joins
    <3>4. CASE i = 1 BY <3>2, <3>3, <3>4
    <3>5. CASE i # 1
      <4>1. i - 1 \in 1..m /\ i - 1 # m BY <3>1, <3>5, <1>1
      <4>2. g[i-1] = f[i-1] BY <4>1
      <4>3. QED BY <3>2, <3>3, <3>5, <4>2
    <3>6. QED BY <3>4, <3>5
  <2>3. QED BY <2>1, <2>2
<1>5. Joins(s, m, g)
  <2>1. g = [i \in 1..m |-> IF i = 1 THEN s[i] ELSE g[i-1] \o s[i]] BY <1>4
  <2>2. QED BY <2>1 DEF Joins
<1>6. QED BY <1>1, <1>5

\* What f[i] adds to f[i-1].
Before(f, i) == IF i = 1 THEN 0 ELSE Len(f[i-1])

Joint(S, s, f, i) ==
    /\ f[i] \in Seq(S) /\ Len(f[i]) \in Nat /\ Len(s[i]) \in Nat
    /\ Len(f[i]) = Before(f, i) + Len(s[i])
    /\ \A j \in 1..i : Len(f[j]) <= Len(f[i]) /\ \A p \in 1..Len(f[j]) : f[i][p] = f[j][p]
    /\ \A k \in 1..Len(s[i]) : f[i][Before(f, i) + k] = s[i][k]

\* Each of its values is the one before it with one more element behind.
LEMMA Joined ==
    ASSUME NEW S, NEW n \in Nat, NEW s \in [1..n -> Seq(S)], NEW f, Joins(s, n, f)
    PROVE  \A i \in 1..n : Joint(S, s, f, i)
<1> DEFINE bad == {i \in 1..n : ~Joint(S, s, f, i)}
<1> SUFFICES ASSUME bad # {} PROVE FALSE OBVIOUS
<1>1. PICK i \in bad : \A k \in bad : i <= k
  <2>1. bad \in SUBSET Nat OBVIOUS
  <2> HIDE DEF bad
  <2>2. QED BY <2>1, Least
<1>2. i \in 1..n /\ s[i] \in Seq(S) OBVIOUS
<1>3. f[i] = IF i = 1 THEN s[i] ELSE f[i-1] \o s[i] BY <1>2 DEF Joins
<1>4. CASE i = 1
  <2>1. f[i] = s[i] /\ Before(f, i) = 0 BY <1>3, <1>4 DEF Before
  <2>2. \A j \in 1..i : j = i BY <1>4
  <2>3. Len(s[i]) \in Nat BY <1>2
  <2>4. Joint(S, s, f, i)
    <3>1. \A j \in 1..i : Len(f[j]) <= Len(f[i]) /\ \A p \in 1..Len(f[j]) : f[i][p] = f[j][p]
      <4> TAKE j \in 1..i
      <4>1. j = i BY <2>2
      <4>2. Len(f[i]) <= Len(f[i]) BY <2>1, <2>3
      <4>3. QED BY <4>1, <4>2
    <3>2. QED BY <1>2, <2>1, <2>3, <3>1 DEF Joint
  <2>5. QED BY <2>4
<1>5. CASE i # 1
  <2>1. i - 1 \in 1..n /\ ~(i <= i - 1) BY <1>2, <1>5
  <2>2. Joint(S, s, f, i-1) BY <1>1, <2>1
  <2> DEFINE a == f[i-1]  b == s[i]
  <2>3. f[i] = a \o b /\ Before(f, i) = Len(a) BY <1>3, <1>5 DEF Before
  <2>4. a \in Seq(S) /\ b \in Seq(S) BY <1>2, <2>2 DEF Joint
  <2>5. /\ a \o b \in Seq(S) /\ Len(a \o b) = Len(a) + Len(b)
        /\ \A p \in 1..Len(a) : (a \o b)[p] = a[p]
        /\ \A k \in 1..Len(b) : (a \o b)[Len(a) + k] = b[k]
    <3> HIDE DEF a, b
    <3>1. QED BY <2>4
  <2>c. Len(a) \in Nat /\ Len(b) \in Nat BY <2>4
  <2>6. \A j \in 1..i : Len(f[j]) <= Len(f[i]) /\ \A p \in 1..Len(f[j]) : f[i][p] = f[j][p]
    <3> TAKE j \in 1..i
    <3>1. CASE j = i
      <4>1. f[j] = f[i] /\ Len(f[i]) \in Nat BY <3>1, <2>3, <2>4, <2>5
      <4>2. QED BY <4>1
    <3>2. CASE j # i
      <4>1. j \in 1..(i-1) BY <3>2, <1>2
      <4>2. Len(f[j]) <= Len(a) /\ \A p \in 1..Len(f[j]) : a[p] = f[j][p] BY <2>2, <4>1 DEF Joint
      <4>3. j \in 1..n /\ ~(i <= j) BY <4>1, <1>2
      <4>4. f[j] \in Seq(S) BY <1>1, <4>3 DEF Joint
      <4>5. Len(f[j]) \in Nat /\ Len(a) \in Nat /\ Len(b) \in Nat BY <2>4, <4>4
      <4>6. Len(f[j]) <= Len(f[i]) BY <2>3, <2>5, <4>2, <4>5, SMTT(30)
      <4>7. ASSUME NEW p \in 1..Len(f[j]) PROVE f[i][p] = f[j][p]
        <5>1. p \in 1..Len(a) BY <4>2, <4>5
        <5>2. QED BY <2>3, <2>5, <4>2, <5>1
      <4>8. QED BY <4>6, <4>7
    <3>3. QED BY <3>1, <3>2
  <2>7. Joint(S, s, f, i)
    <3>1. f[i] \in Seq(S) /\ Len(f[i]) = Before(f, i) + Len(s[i]) /\ Len(f[i]) \in Nat BY <2>3, <2>5, <2>c
    <3>2. \A k \in 1..Len(s[i]) : f[i][Before(f, i) + k] = s[i][k] BY <2>3, <2>5
    <3>3. QED BY <2>c, <2>6, <3>1, <3>2 DEF Joint
  <2>8. QED BY <2>7
<1>6. QED BY <1>4, <1>5

\* A place in the whole lies in one element.
Covered(s, n, f) == \A p \in 1..Len(f[n]) : \E i \in 1..n : \E k \in 1..Len(s[i]) : p = Before(f, i) + k

\* Every place of the last value comes from one element.
LEMMA JoinedWhole ==
    ASSUME NEW S, NEW n \in Nat, NEW s \in [1..n -> Seq(S)], NEW f, \A i \in 1..n : Joint(S, s, f, i),
           n > 0
    PROVE  Covered(s, n, f)
<1> USE DEF Covered
<1> TAKE p \in 1..Len(f[n])
<1> DEFINE past == {i \in 1..n : p <= Len(f[i])}
<1>0. f[n] \in Seq(S) /\ p \in Nat /\ p > 0 /\ p <= Len(f[n])
  <2>1. Joint(S, s, f, n) OBVIOUS
  <2>2. f[n] \in Seq(S) BY <2>1 DEF Joint
  <2>3. QED BY <2>2
<1>1. n \in past BY <1>0
<1>2. PICK i \in past : \A j \in past : i <= j
  <2>1. past \in SUBSET Nat OBVIOUS
  <2> HIDE DEF past
  <2>2. QED BY <1>1, <2>1, Least
<1>3. f[i] \in Seq(S) /\ s[i] \in Seq(S) /\ Len(f[i]) = Before(f, i) + Len(s[i]) /\ p <= Len(f[i])
  BY <1>2 DEF Joint
<1>4. Len(s[i]) \in Nat /\ Len(f[i]) \in Nat BY <1>3
<1>5. CASE i = 1
  <2>1. Before(f, i) = 0 BY <1>5 DEF Before
  <2>2. p \in 1..Len(s[i]) /\ p = Before(f, i) + p BY <1>0, <1>3, <1>4, <2>1
  <2>3. QED BY <2>2
<1>6. CASE i # 1
  <2>1. i - 1 \in 1..n /\ ~(i <= i - 1) BY <1>6
  <2>2. f[i-1] \in Seq(S) BY <2>1 DEF Joint
  <2>3. Before(f, i) = Len(f[i-1]) /\ Len(f[i-1]) \in Nat BY <1>6, <2>2 DEF Before
  <2>4. p > Len(f[i-1]) BY <1>0, <1>2, <2>1, <2>3
  <2>5. p - Before(f, i) \in 1..Len(s[i]) /\ p = Before(f, i) + (p - Before(f, i)) BY <1>0, <1>3, <1>4, <2>3, <2>4
  <2>6. QED BY <2>5
<1>7. QED BY <1>5, <1>6

\* off[i] is what lies before s[i] when r is s flattened.
Laid(S, s, n, off, r) ==
    /\ off \in [1..n+1 -> Nat]
    /\ r \in Seq(S) /\ Len(r) = off[n+1]
    /\ \A i \in 1..n : \A k \in 1..Len(s[i]) : off[i] + k \in 1..Len(r) /\ r[off[i] + k] = s[i][k]
    /\ \A i \in 1..n : off[i+1] = off[i] + Len(s[i])
    /\ \A i, j \in 1..n+1 : i <= j => off[i] <= off[j]
    /\ \A p \in 1..Len(r) : \E i \in 1..n : \E k \in 1..Len(s[i]) : p = off[i] + k

\* FlattenSeq lays the elements one behind the other.
LEMMA Flattened ==
    ASSUME NEW S, NEW n \in Nat, NEW s \in [1..n -> Seq(S)]
    PROVE  \E off : Laid(S, s, n, off, FlattenSeq(s))
<1>1. CASE n = 0
  <2>1. s = <<>> /\ Len(s) = 0 BY <1>1
  <2>2. FlattenSeq(s) = <<>> BY <2>1 DEF FlattenSeq
  <2> DEFINE off == [i \in 1..n+1 |-> 0]
  <2>3. off \in [1..n+1 -> Nat] /\ off[n+1] = 0 BY <1>1
  <2>4. Laid(S, s, n, off, FlattenSeq(s)) BY <1>1, <2>2, <2>3 DEF Laid
  <2>5. QED BY <2>4
<1>2. CASE n > 0
  <2>1. s \in Seq(Seq(S)) /\ Len(s) = n OBVIOUS
  <2> DEFINE f == CHOOSE f : Joins(s, n, f)
  <2>2. Joins(s, n, f) BY JoinsExist
  <2>3. FlattenSeq(s) = f[n] BY <1>2, <2>1 DEF FlattenSeq, Joins
  <2> HIDE DEF f
  <2> DEFINE off == [i \in 1..n+1 |-> Before(f, i)]
  <2>4. \A i \in 1..n : Joint(S, s, f, i) BY <2>2, Joined
  <2>a. \A i \in 1..n : off[i] = Before(f, i) OBVIOUS
  <2>5. off \in [1..n+1 -> Nat]
    <3>1. \A i \in 1..n+1 : i = 1 \/ i - 1 \in 1..n OBVIOUS
    <3>2. \A i \in 1..n : Len(f[i]) \in Nat BY <2>4 DEF Joint
    <3>3. QED BY <3>1, <3>2 DEF Before
  <2>6. \A i \in 1..n : off[i+1] = Len(f[i])
    <3>1. \A i \in 1..n : i + 1 \in 1..n+1 /\ i + 1 # 1 /\ (i + 1) - 1 = i OBVIOUS
    <3>2. QED BY <3>1 DEF Before
  <2>b. \A i, j \in 1..n+1 : i <= j => off[i] <= off[j]
    <3> TAKE i, j \in 1..n+1
    <3> HAVE i <= j
    <3>1. CASE i = 1 BY <3>1, <2>5 DEF Before
    <3>2. CASE i # 1
      <4>1. i - 1 \in 1..n /\ j - 1 \in 1..n /\ i - 1 \in 1..(j - 1) BY <3>2
      <4>2. off[i] = Len(f[i-1]) /\ off[j] = Len(f[j-1]) BY <3>2 DEF Before
      <4>3. Len(f[i-1]) <= Len(f[j-1]) BY <2>4, <4>1 DEF Joint
      <4>4. QED BY <4>2, <4>3
    <3>3. QED BY <3>1, <3>2
  <2> HIDE DEF off
  <2>7. n \in 1..n /\ off[n+1] = Len(f[n]) /\ f[n] \in Seq(S) BY <1>2, <2>4, <2>6 DEF Joint
  <2>8. \A i \in 1..n : \A k \in 1..Len(s[i]) : off[i] + k \in 1..Len(f[n]) /\ f[n][off[i] + k] = s[i][k]
    <3> TAKE i \in 1..n
    <3> TAKE k \in 1..Len(s[i])
    <3>1. i \in 1..n /\ Len(f[i]) <= Len(f[n]) /\ \A p \in 1..Len(f[i]) : f[n][p] = f[i][p]
      BY <2>4, <2>7 DEF Joint
    <3>2. /\ off[i] \in Nat /\ f[i] \in Seq(S) /\ s[i] \in Seq(S)
          /\ Len(f[i]) = off[i] + Len(s[i]) /\ f[i][off[i] + k] = s[i][k]
      BY <2>4, <2>5, <2>a, SMTT(30) DEF Joint
    <3>3. Len(f[i]) \in Nat /\ Len(s[i]) \in Nat /\ Len(f[n]) \in Nat BY <2>4, <2>7 DEF Joint
    <3>4. off[i] + k \in 1..Len(f[i]) BY <3>2, <3>3, SMTT(30)
    <3>5. off[i] + k \in 1..Len(f[n]) BY <3>1, <3>3, <3>4
    <3>6. f[n][off[i] + k] = s[i][k] BY <3>1, <3>2, <3>4
    <3>7. QED BY <3>5, <3>6
  <2>9. \A i \in 1..n : off[i+1] = off[i] + Len(s[i]) BY <2>4, <2>6, <2>a DEF Joint
  <2>10. \A p \in 1..Len(f[n]) : \E i \in 1..n : \E k \in 1..Len(s[i]) : p = off[i] + k
    <3>1. Covered(s, n, f) BY <1>2, <2>4, JoinedWhole
    <3>2. QED BY <3>1, <2>a, ZenonT(60) DEF Covered
  <2>11. Laid(S, s, n, off, f[n]) BY <2>5, <2>7, <2>8, <2>9, <2>b, <2>10 DEF Laid
  <2>12. QED BY <2>3, <2>11
<1>3. QED BY <1>1, <1>2

-----------------------------------------------------------------------------
(* Notes *)

\* A finite set as a sequence: each element once.
LEMMA Listed ==
    ASSUME NEW S, IsFiniteSet(S)
    PROVE  /\ SetToSeq(S) \in Seq(S)
           /\ \A x \in S : \E k \in DOMAIN SetToSeq(S) : SetToSeq(S)[k] = x
           /\ \A k, l \in DOMAIN SetToSeq(S) : SetToSeq(S)[k] = SetToSeq(S)[l] => k = l
<1> DEFINE n == Cardinality(S)  ok(f) == f \in [1..n -> S] /\ IsInjective(f)
<1>1. n \in Nat /\ ExistsBijection(1..n, S) BY FS_CardinalityType
<1>2. \E f : ok(f) BY <1>1 DEF ExistsBijection, Bijection, Injection
<1>3. SetToSeq(S) = CHOOSE f \in [1..n -> S] : IsInjective(f) BY DEF SetToSeq
<1>4. ok(SetToSeq(S)) BY <1>2, <1>3
<1>5. SetToSeq(S) \in Injection(1..n, S) BY <1>4 DEF Injection
<1>6. Cardinality(1..n) = n /\ IsFiniteSet(1..n) BY <1>1, FS_Interval
<1>7. SetToSeq(S) \in Surjection(1..n, S)
  <2> HIDE DEF n
  <2>1. Cardinality(1..n) = Cardinality(S) BY <1>6 DEF n
  <2>2. QED BY <1>5, <2>1, FS_Injection
<1>8. SetToSeq(S) \in Seq(S) BY <1>1, <1>4
<1>9. QED BY <1>4, <1>7, <1>8 DEF IsInjective, Surjection

\* Roles tell the kinds of messages apart.
LEMMA EntryFacts ==
    /\ \A e \in Entry : e.role \in {"user", "assistant", "tool", "answer", "summary"}
    /\ \A e \in Entry : e.role = "assistant" => e = Batch(e.of) /\ e.of \in Nat
    /\ \A e \in Entry : e.role = "tool" => e.of \in Nat /\ e.id \in CallId
    /\ \A m : User(m).role = "user" /\ (m \in Message => User(m) \in Entry)
    /\ \A c : Batch(c).role = "assistant" /\ Batch(c).of = c /\ (c \in Nat => Batch(c) \in Entry)
    /\ \A c, id, is : /\ Result(c, id, is).role = "tool"
                      /\ Result(c, id, is).of = c /\ Result(c, id, is).id = id
                      /\ c \in Nat /\ id \in CallId /\ is \in {"done", "note"} => Result(c, id, is) \in Entry
    /\ Answer.role = "answer" /\ Answer \in Entry /\ Summary.role = "summary" /\ Summary \in Entry
<1> USE DEF User, Batch, Result, Answer, Summary
<1>1. \A e \in Entry : e.role \in {"user", "assistant", "tool", "answer", "summary"} BY DEF Entry
<1>2. \A e \in Entry : e.role = "assistant" => e = Batch(e.of) /\ e.of \in Nat BY DEF Entry
<1>3. \A e \in Entry : e.role = "tool" => e.of \in Nat /\ e.id \in CallId BY DEF Entry
<1>4. \A m : User(m).role = "user" /\ (m \in Message => User(m) \in Entry) BY DEF Entry
<1>5. \A c : Batch(c).role = "assistant" /\ Batch(c).of = c /\ (c \in Nat => Batch(c) \in Entry)
  <2>1. \A c : Batch(c).role = "assistant" /\ Batch(c).of = c OBVIOUS
  <2> HIDE DEF User, Batch, Result, Answer, Summary
  <2>2. \A c \in Nat : Batch(c) \in Entry BY DEF Entry
  <2>3. QED BY <2>1, <2>2
<1>6. \A c, id, is : /\ Result(c, id, is).role = "tool"
                     /\ Result(c, id, is).of = c /\ Result(c, id, is).id = id
                     /\ c \in Nat /\ id \in CallId /\ is \in {"done", "note"} => Result(c, id, is) \in Entry
  BY DEF Entry
<1>7. Answer.role = "answer" /\ Answer \in Entry /\ Summary.role = "summary" /\ Summary \in Entry BY DEF Entry
<1> HIDE DEF User, Batch, Result, Answer, Summary
<1>8. QED BY <1>1, <1>2, <1>3, <1>4, <1>5, <1>6, <1>7

\* The calls of a batch, by position and by id.
LEMMA BatchFacts ==
    ASSUME batches \in Seq(Menu)
    PROVE  /\ DOMAIN batches = 1..Len(batches) /\ Len(batches) \in Nat
           /\ \A c \in DOMAIN batches :
                 /\ c \in Nat /\ c # 0 /\ batches[c] \in Menu
                 /\ batches[c] \in Seq(Call) /\ Len(batches[c]) \in Nat /\ DOMAIN batches[c] = 1..Len(batches[c])
                 /\ \A m, n \in DOMAIN batches[c] : batches[c][m].id = batches[c][n].id => m = n
                 /\ \A n \in DOMAIN batches[c] : batches[c][n].id \in CallId /\ batches[c][n].id \in Ids(c)
                 /\ \A id \in Ids(c) : id \in CallId /\ \E n \in DOMAIN batches[c] : id = batches[c][n].id
<1>1. DOMAIN batches = 1..Len(batches) /\ Len(batches) \in Nat OBVIOUS
<1>2. ASSUME NEW c \in DOMAIN batches
      PROVE  /\ c \in Nat /\ c # 0 /\ batches[c] \in Menu
             /\ batches[c] \in Seq(Call) /\ Len(batches[c]) \in Nat /\ DOMAIN batches[c] = 1..Len(batches[c])
             /\ \A m, n \in DOMAIN batches[c] : batches[c][m].id = batches[c][n].id => m = n
             /\ \A n \in DOMAIN batches[c] : batches[c][n].id \in CallId /\ batches[c][n].id \in Ids(c)
             /\ \A id \in Ids(c) : id \in CallId /\ \E n \in DOMAIN batches[c] : id = batches[c][n].id
  <2>1. c \in Nat /\ c # 0 /\ batches[c] \in Menu BY <1>1
  <2>2. batches[c] \in Seq(Call) BY <2>1, TurnsAssumption DEF Call
  <2>3. Len(batches[c]) \in Nat /\ DOMAIN batches[c] = 1..Len(batches[c]) BY <2>2
  <2>4. \A m, n \in DOMAIN batches[c] : batches[c][m].id = batches[c][n].id => m = n
    BY <2>1, TurnsAssumption
  <2>5. \A n \in DOMAIN batches[c] : batches[c][n] \in Call BY <2>2
  <2>6. \A n \in DOMAIN batches[c] : batches[c][n].id \in CallId BY <2>5 DEF Call
  <2>7. QED BY <2>1, <2>2, <2>3, <2>4, <2>6 DEF Ids
<1>3. QED BY <1>1, <1>2

\* The notes of a batch: one for each call without a result.
LEMMA NotesFacts ==
    ASSUME batches \in Seq(Menu), NEW c \in DOMAIN batches, NEW h
    PROVE  /\ Notes(h, c) \in Seq(Entry)
           /\ \A k \in DOMAIN Notes(h, c) :
                 /\ Notes(h, c)[k].role = "tool" /\ Notes(h, c)[k].of = c /\ Notes(h, c)[k].id \in Ids(c)
                 /\ ~Answered(h, c, Notes(h, c)[k].id)
           /\ \A k, l \in DOMAIN Notes(h, c) : Notes(h, c)[k].id = Notes(h, c)[l].id => k = l
           /\ \A id \in Ids(c) : ~Answered(h, c, id) => \E k \in DOMAIN Notes(h, c) : Notes(h, c)[k].id = id
<1> DEFINE calls == batches[c]
           missing == {id \in Ids(c) : ~Answered(h, c, id)}
           S == {Result(c, id, "note") : id \in missing}
           f == [n \in {n \in DOMAIN calls : calls[n].id \in missing} |-> Result(c, calls[n].id, "note")]
           D == {n \in DOMAIN calls : calls[n].id \in missing}
<1>1. IsFiniteSet(D)
  <2>1. DOMAIN calls = 1..Len(calls) /\ Len(calls) \in Nat BY BatchFacts
  <2>2. IsFiniteSet(1..Len(calls)) BY <2>1, FS_Interval
  <2>3. D \in SUBSET (1..Len(calls)) BY <2>1
  <2>4. QED BY <2>2, <2>3, FS_Subset
<1>2. f \in Surjection(D, S)
  <2>1. \A n \in D : f[n] \in S OBVIOUS
  <2>2. f \in [D -> S] BY <2>1
  <2>3. ASSUME NEW t \in S PROVE \E n \in D : f[n] = t
    <3>1. PICK id \in missing : t = Result(c, id, "note") OBVIOUS
    <3>2. PICK n \in DOMAIN calls : id = calls[n].id BY BatchFacts
    <3>3. QED BY <3>1, <3>2
  <2>4. QED BY <2>2, <2>3 DEF Surjection
<1>3. IsFiniteSet(S)
  <2> HIDE DEF f, D, S
  <2>1. QED BY <1>1, <1>2, FS_Surjection
<1>4. Notes(h, c) = SetToSeq(S) BY DEF Notes
<1>5. /\ SetToSeq(S) \in Seq(S)
      /\ \A x \in S : \E k \in DOMAIN SetToSeq(S) : SetToSeq(S)[k] = x
      /\ \A k, l \in DOMAIN SetToSeq(S) : SetToSeq(S)[k] = SetToSeq(S)[l] => k = l
  BY <1>3, Listed
<1>6. \A x \in S : /\ x \in Entry /\ x.role = "tool" /\ x.of = c /\ x.id \in missing
                   /\ x = Result(c, x.id, "note")
  <2> TAKE x \in S
  <2>1. PICK id \in missing : x = Result(c, id, "note") OBVIOUS
  <2>2. c \in Nat /\ id \in CallId BY BatchFacts
  <2>3. QED BY <2>1, <2>2, EntryFacts
<1>7. \A k \in DOMAIN SetToSeq(S) : SetToSeq(S)[k] \in S
  <2> HIDE DEF S
  <2>1. QED BY <1>5
<1>8. S \subseteq Entry BY <1>6
<1>9. SetToSeq(S) \in Seq(Entry)
  <2> HIDE DEF S
  <2>1. QED BY <1>5, <1>8
<1>10. \A id \in missing : \E k \in DOMAIN SetToSeq(S) : SetToSeq(S)[k].id = id
  <2> TAKE id \in missing
  <2>1. Result(c, id, "note") \in S OBVIOUS
  <2>2. Result(c, id, "note").id = id BY EntryFacts
  <2> HIDE DEF S
  <2>3. QED BY <1>5, <2>1, <2>2
<1>11. \A k, l \in DOMAIN SetToSeq(S) : SetToSeq(S)[k].id = SetToSeq(S)[l].id => k = l
  <2> HIDE DEF S
  <2>1. QED BY <1>5, <1>6, <1>7
<1>12. \A k \in DOMAIN SetToSeq(S) :
          /\ SetToSeq(S)[k].role = "tool" /\ SetToSeq(S)[k].of = c
          /\ SetToSeq(S)[k].id \in Ids(c) /\ ~Answered(h, c, SetToSeq(S)[k].id)
  <2> HIDE DEF S
  <2>1. QED BY <1>6, <1>7
<1>13. QED BY <1>4, <1>9, <1>10, <1>11, <1>12

-----------------------------------------------------------------------------
(* Histories *)

\* Slices, contents and results of a history, by position.
LEMMA Spans ==
    ASSUME NEW h \in Seq(Entry)
    PROVE  /\ Len(h) \in Nat /\ DOMAIN h = 1..Len(h)
           /\ \A i \in 1..Len(h) : h[i] \in Entry
           /\ \A c, i : i \in Slice(h, c) <=>
                 i \in 1..Len(h) /\ \E s \in 1..i : h[s] = Batch(c) /\ \A j \in s+1..i : h[j].role = "tool"
           /\ \A e : Contains(h, e) <=> \E i \in 1..Len(h) : h[i] = e
           /\ \A c, id : Answered(h, c, id) <=> \E i \in Slice(h, c) : h[i].role = "tool" /\ h[i].id = id
<1>1. Len(h) \in Nat /\ DOMAIN h = 1..Len(h) OBVIOUS
<1>2. \A i \in 1..Len(h) : h[i] \in Entry OBVIOUS
<1>3. QED BY <1>1, <1>2 DEF Slice, Contains, Answered, ResultsOf

\* The same of one place.
LEMMA InSlice ==
    ASSUME NEW h \in Seq(Entry), NEW c, NEW i
    PROVE  i \in Slice(h, c) <=>
              i \in 1..Len(h) /\ \E s \in 1..i : h[s] = Batch(c) /\ \A j \in s+1..i : h[j].role = "tool"
BY Spans

\* Two batches do not share a slice.
LEMMA SlicesApart ==
    ASSUME NEW h \in Seq(Entry), NEW c, NEW d, NEW i, i \in Slice(h, c), i \in Slice(h, d)
    PROVE  c = d
<1>1. i \in Nat BY Spans
<1>2. PICK s \in 1..i : h[s] = Batch(c) /\ \A j \in s+1..i : h[j].role = "tool" BY Spans
<1>3. PICK t \in 1..i : h[t] = Batch(d) /\ \A j \in t+1..i : h[j].role = "tool" BY Spans
<1>4. h[s].role # "tool" /\ h[t].role # "tool" BY <1>2, <1>3, EntryFacts
<1>5. s = t BY <1>1, <1>2, <1>3, <1>4
<1>6. QED BY <1>2, <1>3, <1>5, EntryFacts

\* Results of batch c that come after h, in Marked(h, c) and Record.
Results(t, c) ==
    /\ t \in Seq(Entry)
    /\ \A k \in DOMAIN t : t[k].role = "tool" /\ t[k].of = c /\ t[k].id \in Ids(c)

\* What a history keeps when results are put at its end.
LEMMA Extended ==
    ASSUME NEW h \in Seq(Entry), EntriesOK(h), NEW c \in DOMAIN batches, NEW t, Results(t, c)
    PROVE  /\ h \o t \in Seq(Entry) /\ EntriesOK(h \o t)
           /\ \A d, id : Answered(h, d, id) => Answered(h \o t, d, id)
           /\ \A d : Contains(h \o t, Batch(d)) <=> Contains(h, Batch(d))
           /\ EndsIn(h, c) => EndsIn(h \o t, c) /\ \A k \in DOMAIN t : Answered(h \o t, c, t[k].id)
           /\ /\ Placed(h) /\ EndsIn(h, c)
              /\ \A k, l \in DOMAIN t : t[k].id = t[l].id => k = l
              /\ \A k \in DOMAIN t : ~Answered(h, c, t[k].id)
              => Placed(h \o t)
<1> DEFINE g == h \o t  n == Len(h)
<1>1. /\ t \in Seq(Entry) /\ Len(t) \in Nat /\ DOMAIN t = 1..Len(t)
      /\ n \in Nat /\ DOMAIN h = 1..n
      /\ \A i \in 1..n : h[i] \in Entry
  BY Spans DEF Results
<1>2. /\ g \in Seq(Entry) /\ Len(g) = n + Len(t) /\ DOMAIN g = 1..n + Len(t)
      /\ \A i \in 1..n : g[i] = h[i]
      /\ \A k \in 1..Len(t) : g[n + k] = t[k]
  BY <1>1
<1>3. \A i \in 1..n + Len(t) : i \in 1..n \/ (i - n \in 1..Len(t) /\ g[i] = t[i - n] /\ i = n + (i - n))
  <2> TAKE i \in 1..n + Len(t)
  <2>1. CASE i <= n BY <1>1, <2>1
  <2>2. CASE i > n
    <3>1. i - n \in 1..Len(t) /\ i = n + (i - n) BY <1>1, <2>2
    <3>2. QED BY <1>2, <3>1
  <2>3. QED BY <1>1, <2>1, <2>2
<1>4. \A i \in 1..n + Len(t) : i \notin 1..n => g[i].role = "tool" /\ g[i].of = c /\ g[i].id \in Ids(c)
  BY <1>1, <1>3 DEF Results
<1> HIDE DEF g
<1>5. EntriesOK(g)
  <2>1. \A i \in DOMAIN g : g[i].role \in {"assistant", "tool"} => g[i].of \in DOMAIN batches
    BY <1>1, <1>2, <1>4 DEF EntriesOK
  <2>2. \A i \in DOMAIN g : g[i].role = "tool" => g[i].id \in Ids(g[i].of)
    BY <1>1, <1>2, <1>4 DEF EntriesOK
  <2>3. ASSUME NEW i \in DOMAIN g, NEW j \in DOMAIN g, g[i].role \in {"user", "assistant"}, g[i] = g[j]
        PROVE  i = j
    <3>1. i \in 1..n /\ j \in 1..n BY <1>2, <1>4, <2>3
    <3>2. QED BY <1>1, <1>2, <2>3, <3>1 DEF EntriesOK
  <2>4. QED BY <2>1, <2>2, <2>3 DEF EntriesOK
<1>6. ASSUME NEW d, NEW i, i \in Slice(h, d) PROVE i \in Slice(g, d)
  <2>1. i \in 1..n BY <1>6, Spans
  <2>2. PICK s \in 1..i : h[s] = Batch(d) /\ \A j \in s+1..i : h[j].role = "tool" BY <1>6, Spans
  <2>a. s \in 1..n /\ \A j \in s+1..i : j \in 1..n BY <1>1, <2>1
  <2>3. g[s] = Batch(d) /\ \A j \in s+1..i : g[j].role = "tool" BY <1>2, <2>2, <2>a
  <2>4. i \in 1..Len(g) BY <1>1, <1>2, <2>1
  <2>5. QED BY <1>2, <2>3, <2>4, Spans
<1>7. ASSUME NEW d, NEW id, Answered(h, d, id) PROVE Answered(g, d, id)
  <2>1. PICK i \in Slice(h, d) : h[i].role = "tool" /\ h[i].id = id BY <1>7, Spans
  <2>2. i \in 1..n BY Spans
  <2>3. i \in Slice(g, d) /\ g[i] = h[i] BY <1>2, <1>6, <2>2
  <2>4. QED BY <1>2, <2>1, <2>3, Spans
<1>8. ASSUME NEW d PROVE Contains(g, Batch(d)) <=> Contains(h, Batch(d))
  <2>1. ASSUME Contains(h, Batch(d)) PROVE Contains(g, Batch(d))
    <3>1. PICK i \in 1..n : h[i] = Batch(d) BY <2>1, Spans
    <3>2. i \in 1..Len(g) /\ g[i] = Batch(d) BY <1>1, <1>2, <3>1
    <3>3. QED BY <1>2, <3>2, Spans
  <2>2. ASSUME Contains(g, Batch(d)) PROVE Contains(h, Batch(d))
    <3>1. PICK i \in 1..Len(g) : g[i] = Batch(d) BY <1>2, <2>2, Spans
    <3>2. g[i].role # "tool" BY <3>1, EntryFacts
    <3>3. i \in 1..n BY <1>2, <1>4, <3>2
    <3>4. h[i] = Batch(d) BY <1>2, <3>1, <3>3
    <3>5. QED BY <3>3, <3>4, Spans
  <2>3. QED BY <2>1, <2>2
<1>9. ASSUME EndsIn(h, c), NEW i \in 1..n + Len(t), i \notin 1..n PROVE i \in Slice(g, c)
  <2>1. PICK s \in 1..n : h[s] = Batch(c) /\ \A j \in s+1..n : h[j].role = "tool"
    BY <1>9, Spans DEF EndsIn
  <2>2. s \in 1..i /\ g[s] = Batch(c) BY <1>1, <1>2, <1>9, <2>1
  <2>3. ASSUME NEW j \in s+1..i PROVE g[j].role = "tool"
    <3>1. CASE j <= n
      <4>1. j \in 1..n /\ j \in s+1..n BY <1>1, <2>1, <2>3, <3>1
      <4>2. QED BY <1>2, <2>1, <4>1
    <3>2. CASE j > n
      <4>1. j \in 1..n + Len(t) /\ j \notin 1..n BY <1>1, <1>9, <2>1, <2>3, <3>2
      <4>2. QED BY <1>4, <4>1
    <3>3. QED BY <1>1, <2>1, <2>3, <3>1, <3>2
  <2>4. QED BY <1>2, <2>2, <2>3, Spans
<1>10. ASSUME EndsIn(h, c) PROVE EndsIn(g, c) /\ \A k \in DOMAIN t : Answered(g, c, t[k].id)
  <2>1. EndsIn(g, c)
    <3>1. CASE Len(t) = 0
      <4>1. Len(g) = n BY <1>1, <1>2, <3>1
      <4>2. QED BY <1>6, <1>10, <4>1 DEF EndsIn
    <3>2. CASE Len(t) # 0
      <4>1. Len(g) \in 1..n + Len(t) /\ Len(g) \notin 1..n BY <1>1, <1>2, <3>2
      <4>2. QED BY <1>9, <1>10, <4>1 DEF EndsIn
    <3>3. QED BY <3>1, <3>2
  <2>2. ASSUME NEW k \in DOMAIN t PROVE Answered(g, c, t[k].id)
    <3>1. n + k \in 1..n + Len(t) /\ n + k \notin 1..n BY <1>1
    <3>2. n + k \in Slice(g, c) BY <1>9, <1>10, <3>1
    <3>3. g[n + k] = t[k] /\ t[k].role = "tool" BY <1>1, <1>2 DEF Results
    <3>4. QED BY <1>2, <3>2, <3>3, Spans
  <2>3. QED BY <2>1, <2>2
<1>11. ASSUME Placed(h), EndsIn(h, c),
              \A k, l \in DOMAIN t : t[k].id = t[l].id => k = l,
              \A k \in DOMAIN t : ~Answered(h, c, t[k].id)
       PROVE  Placed(g)
  <2>1. ASSUME NEW i \in DOMAIN g, g[i].role = "tool" PROVE i \in Slice(g, g[i].of)
    <3>1. CASE i \in 1..n
      <4>1. i \in Slice(h, h[i].of) BY <1>1, <1>2, <1>11, <2>1, <3>1 DEF Placed
      <4>2. QED BY <1>2, <1>6, <3>1, <4>1
    <3>2. CASE i \notin 1..n BY <1>2, <1>4, <1>9, <1>11, <2>1, <3>2
    <3>3. QED BY <3>1, <3>2
  <2>2. ASSUME NEW i \in 1..n, NEW j \in DOMAIN g, j \notin 1..n, g[i].role = "tool",
               g[j].of = g[i].of, g[j].id = g[i].id
        PROVE  FALSE
    <3>1. g[i] = h[i] /\ i \in DOMAIN h BY <1>1, <1>2
    <3>2. i \in Slice(h, h[i].of) BY <1>11, <2>2, <3>1 DEF Placed
    <3>3. h[i].of = c BY <1>2, <1>4, <2>2, <3>1
    <3>4. Answered(h, c, h[i].id) BY <2>2, <3>1, <3>2, <3>3, Spans
    <3>5. j - n \in 1..Len(t) /\ g[j] = t[j - n] BY <1>2, <1>3, <2>2
    <3>6. QED BY <1>1, <1>11, <2>2, <3>1, <3>4, <3>5
  <2>3. ASSUME NEW i \in DOMAIN g, NEW j \in DOMAIN g, g[i].role = "tool", g[j].role = "tool",
               g[j].of = g[i].of, g[j].id = g[i].id
        PROVE  i = j
    <3>1. CASE i \in 1..n /\ j \in 1..n
      BY <1>1, <1>2, <1>11, <2>3, <3>1 DEF Placed
    <3>2. CASE i \in 1..n /\ j \notin 1..n BY <2>2, <2>3, <3>2
    <3>3. CASE i \notin 1..n /\ j \in 1..n BY <2>2, <2>3, <3>3
    <3>4. CASE i \notin 1..n /\ j \notin 1..n
      <4>1. /\ i - n \in DOMAIN t /\ g[i] = t[i - n] /\ i = n + (i - n)
            /\ j - n \in DOMAIN t /\ g[j] = t[j - n] /\ j = n + (j - n)
        BY <1>1, <1>2, <1>3, <3>4
      <4>2. i - n = j - n BY <1>11, <2>3, <4>1
      <4>3. QED BY <4>1, <4>2
    <3>5. QED BY <3>1, <3>2, <3>3, <3>4
  <2>4. QED BY <2>1, <2>3 DEF Placed
<1>12. QED BY <1>2, <1>5, <1>7, <1>8, <1>10, <1>11 DEF g

\* A result in place of another of the same call.
LEMMA Replaced ==
    ASSUME NEW h \in Seq(Entry), EntriesOK(h), NEW c \in DOMAIN batches, NEW r \in Entry,
           NEW p \in DOMAIN h, h[p].role = "tool", r.role = "tool", r.of = c, r.id = h[p].id, r.id \in Ids(c)
    PROVE  LET g == [h EXCEPT ![p] = r] IN
           /\ g \in Seq(Entry) /\ EntriesOK(g)
           /\ \A d : Slice(g, d) = Slice(h, d)
           /\ \A d, id : Answered(h, d, id) => Answered(g, d, id)
           /\ \A d : Contains(g, Batch(d)) <=> Contains(h, Batch(d))
           /\ \A d : EndsIn(h, d) => EndsIn(g, d)
           /\ Placed(h) /\ h[p].of = c => Placed(g)
<1> DEFINE g == [h EXCEPT ![p] = r]
<1>1. Len(h) \in Nat /\ DOMAIN h = 1..Len(h) /\ \A i \in 1..Len(h) : h[i] \in Entry BY Spans
<1>2. /\ g \in Seq(Entry) /\ Len(g) = Len(h) /\ DOMAIN g = 1..Len(h) /\ g[p] = r
      /\ \A i \in 1..Len(h) : i # p => g[i] = h[i]
  BY <1>1
<1> HIDE DEF g
<1>3. \A i \in 1..Len(h) : g[i].role = h[i].role /\ (g[i].role # "tool" => g[i] = h[i]) BY <1>2
<1>4. EntriesOK(g)
  <2>1. \A i \in DOMAIN g : g[i].role \in {"assistant", "tool"} => g[i].of \in DOMAIN batches
    BY <1>1, <1>2, <1>3 DEF EntriesOK
  <2>2. \A i \in DOMAIN g : g[i].role = "tool" => g[i].id \in Ids(g[i].of)
    BY <1>1, <1>2 DEF EntriesOK
  <2>3. ASSUME NEW i \in DOMAIN g, NEW j \in DOMAIN g, g[i].role \in {"user", "assistant"}, g[i] = g[j]
        PROVE  i = j
    <3>1. g[i] = h[i] /\ g[j] = h[j] BY <1>2, <1>3, <2>3
    <3>2. QED BY <1>1, <1>2, <2>3, <3>1 DEF EntriesOK
  <2>4. QED BY <2>1, <2>2, <2>3 DEF EntriesOK
<1>6. ASSUME NEW d PROVE Slice(g, d) = Slice(h, d)
  <2>0. \A i \in 1..Len(h) : g[i] = Batch(d) <=> h[i] = Batch(d) BY <1>3, EntryFacts
  <2>1. ASSUME NEW i \in 1..Len(h), NEW s \in 1..i
        PROVE  (g[s] = Batch(d) /\ \A j \in s+1..i : g[j].role = "tool")
               <=> (h[s] = Batch(d) /\ \A j \in s+1..i : h[j].role = "tool")
    <3>1. s \in 1..Len(h) /\ \A j \in s+1..i : j \in 1..Len(h) BY <1>1
    <3>2. QED BY <1>3, <2>0, <3>1
  <2>2. ASSUME NEW i PROVE i \in Slice(g, d) <=> i \in Slice(h, d)
    <3>0. i \in Slice(g, d) <=>
             i \in 1..Len(g) /\ \E s \in 1..i : g[s] = Batch(d) /\ \A j \in s+1..i : g[j].role = "tool"
      <4>1. g \in Seq(Entry) BY <1>2
      <4>2. QED BY <4>1, InSlice
    <3>1. i \in Slice(g, d) <=>
             i \in 1..Len(h) /\ \E s \in 1..i : g[s] = Batch(d) /\ \A j \in s+1..i : g[j].role = "tool"
      BY <1>2, <3>0
    <3>2. i \in Slice(h, d) <=>
             i \in 1..Len(h) /\ \E s \in 1..i : h[s] = Batch(d) /\ \A j \in s+1..i : h[j].role = "tool"
      BY InSlice
    <3>3. QED BY <3>1, <3>2, <2>1
  <2>3. QED BY <2>2
<1>7. ASSUME NEW d, NEW id, Answered(h, d, id) PROVE Answered(g, d, id)
  <2>1. PICK i \in Slice(h, d) : h[i].role = "tool" /\ h[i].id = id BY <1>7, Spans
  <2>2. i \in 1..Len(h) BY Spans
  <2>3. i \in Slice(g, d) /\ g[i].role = "tool" /\ g[i].id = id BY <1>2, <1>6, <2>1, <2>2
  <2>4. QED BY <1>2, <2>3, Spans
<1>8. ASSUME NEW d PROVE Contains(g, Batch(d)) <=> Contains(h, Batch(d))
  <2>1. \A i \in 1..Len(h) : g[i] = Batch(d) <=> h[i] = Batch(d) BY <1>3, EntryFacts
  <2>2. QED BY <1>2, <2>1, Spans
<1>9. \A d : EndsIn(h, d) => EndsIn(g, d) BY <1>2, <1>6 DEF EndsIn
<1>10. ASSUME Placed(h), h[p].of = c PROVE Placed(g)
  <2>1. \A i \in DOMAIN g : g[i].role = h[i].role /\ (g[i].role = "tool" => g[i].of = h[i].of /\ g[i].id = h[i].id)
    BY <1>2, <1>3, <1>10
  <2>2. ASSUME NEW i \in DOMAIN g, g[i].role = "tool" PROVE i \in Slice(g, g[i].of)
    <3>1. i \in Slice(h, h[i].of) BY <1>1, <1>2, <1>10, <2>1, <2>2 DEF Placed
    <3>2. QED BY <1>6, <2>1, <2>2, <3>1
  <2>3. ASSUME NEW i \in DOMAIN g, NEW j \in DOMAIN g, g[i].role = "tool", g[j].role = "tool",
               g[j].of = g[i].of, g[j].id = g[i].id
        PROVE  i = j
    BY <1>1, <1>2, <1>10, <2>1, <2>3 DEF Placed
  <2>4. QED BY <2>2, <2>3 DEF Placed
<1>11. QED BY <1>2, <1>4, <1>6, <1>7, <1>8, <1>9, <1>10 DEF g

\* A message of another kind at the end; a batch opens its slice there.
LEMMA Appended ==
    ASSUME NEW h \in Seq(Entry), NEW e \in Entry, e.role # "tool"
    PROVE  LET g == Append(h, e) IN
           /\ g \in Seq(Entry)
           /\ /\ EntriesOK(h)
              /\ e.role = "assistant" => e.of \in DOMAIN batches
              /\ e.role \in {"user", "assistant"} => ~Contains(h, e)
              => EntriesOK(g)
           /\ \A d, id : Answered(h, d, id) => Answered(g, d, id)
           /\ \A d : Contains(g, Batch(d)) <=> Contains(h, Batch(d)) \/ e = Batch(d)
           /\ \A d : e = Batch(d) => EndsIn(g, d)
           /\ Placed(h) => Placed(g)
<1> DEFINE g == Append(h, e)  n == Len(h)
<1>1. n \in Nat /\ DOMAIN h = 1..n /\ \A i \in 1..n : h[i] \in Entry BY Spans
<1>2. /\ g \in Seq(Entry) /\ Len(g) = n + 1 /\ DOMAIN g = 1..n+1 /\ g[n+1] = e
      /\ \A i \in 1..n : g[i] = h[i]
  BY <1>1
<1>a. \A i \in 1..n+1 : i \in 1..n \/ i = n + 1 BY <1>1
<1> HIDE DEF g
<1>3. ASSUME EntriesOK(h), e.role = "assistant" => e.of \in DOMAIN batches,
             e.role \in {"user", "assistant"} => ~Contains(h, e)
      PROVE  EntriesOK(g)
  <2>1. \A i \in DOMAIN g : g[i].role \in {"assistant", "tool"} => g[i].of \in DOMAIN batches
    BY <1>1, <1>2, <1>a, <1>3 DEF EntriesOK
  <2>2. \A i \in DOMAIN g : g[i].role = "tool" => g[i].id \in Ids(g[i].of)
    BY <1>1, <1>2, <1>a, <1>3 DEF EntriesOK
  <2>3. ASSUME NEW i \in DOMAIN g, NEW j \in DOMAIN g, g[i].role \in {"user", "assistant"}, g[i] = g[j]
        PROVE  i = j
    <3>1. CASE i \in 1..n /\ j \in 1..n BY <1>1, <1>2, <1>3, <2>3, <3>1 DEF EntriesOK
    <3>2. CASE i \in 1..n /\ j = n + 1 BY <1>2, <1>3, <2>3, <3>2, Spans
    <3>3. CASE i = n + 1 /\ j \in 1..n BY <1>2, <1>3, <2>3, <3>3, Spans
    <3>4. QED BY <1>2, <1>a, <2>3, <3>1, <3>2, <3>3
  <2>4. QED BY <2>1, <2>2, <2>3 DEF EntriesOK
<1>4. ASSUME NEW d, NEW i, i \in Slice(h, d) PROVE i \in Slice(g, d) /\ i \in 1..n
  <2>1. i \in 1..n BY <1>4, Spans
  <2>2. PICK s \in 1..i : h[s] = Batch(d) /\ \A j \in s+1..i : h[j].role = "tool" BY <1>4, Spans
  <2>3. s \in 1..n /\ \A j \in s+1..i : j \in 1..n BY <1>1, <2>1
  <2>4. g[s] = Batch(d) /\ \A j \in s+1..i : g[j].role = "tool" BY <1>2, <2>2, <2>3
  <2>5. i \in 1..Len(g) BY <1>1, <1>2, <2>1
  <2>6. QED BY <1>2, <2>1, <2>4, <2>5, Spans
<1>5. ASSUME NEW d, NEW id, Answered(h, d, id) PROVE Answered(g, d, id)
  <2>1. PICK i \in Slice(h, d) : h[i].role = "tool" /\ h[i].id = id BY <1>5, Spans
  <2>2. i \in Slice(g, d) /\ i \in 1..n BY <1>4
  <2>3. g[i] = h[i] BY <1>2, <2>2
  <2>4. QED BY <1>2, <2>1, <2>2, <2>3, Spans
<1>6. ASSUME NEW d PROVE Contains(g, Batch(d)) <=> Contains(h, Batch(d)) \/ e = Batch(d)
  <2>1. Contains(g, Batch(d)) <=> \E i \in 1..n+1 : g[i] = Batch(d) BY <1>2, Spans
  <2>2. Contains(h, Batch(d)) <=> \E i \in 1..n : h[i] = Batch(d) BY Spans
  <2>3. n + 1 \in 1..n+1 /\ \A i \in 1..n : i \in 1..n+1 BY <1>1
  <2>4. QED BY <1>2, <1>a, <2>1, <2>2, <2>3
<1>7. ASSUME NEW d, e = Batch(d) PROVE EndsIn(g, d)
  <2>1. n + 1 \in 1..n+1 /\ ~\E j \in (n+1)+1..n+1 : TRUE BY <1>1
  <2>2. n + 1 \in Slice(g, d) BY <1>2, <1>7, <2>1, Spans
  <2>3. QED BY <1>2, <2>2 DEF EndsIn
<1>8. ASSUME Placed(h) PROVE Placed(g)
  <2>1. \A i \in DOMAIN g : g[i].role = "tool" => i \in 1..n /\ i \in DOMAIN h /\ g[i] = h[i] BY <1>1, <1>2, <1>a
  <2>2. ASSUME NEW i \in DOMAIN g, g[i].role = "tool" PROVE i \in Slice(g, g[i].of)
    <3>1. i \in Slice(h, h[i].of) BY <1>8, <2>1, <2>2 DEF Placed
    <3>2. QED BY <1>4, <2>1, <2>2, <3>1
  <2>3. ASSUME NEW i \in DOMAIN g, NEW j \in DOMAIN g, g[i].role = "tool", g[j].role = "tool",
               g[j].of = g[i].of, g[j].id = g[i].id
        PROVE  i = j
    BY <1>8, <2>1, <2>3 DEF Placed
  <2>4. QED BY <2>2, <2>3 DEF Placed
<1>9. QED BY <1>2, <1>3, <1>5, <1>6, <1>7, <1>8 DEF g

\* The first n messages give way to a summary.
LEMMA Summarized ==
    ASSUME NEW h \in Seq(Entry), EntriesOK(h), NEW n \in 1..Len(h)
    PROVE  LET g == <<Summary>> \o SubSeq(h, n + 1, Len(h)) IN
           /\ g \in Seq(Entry) /\ EntriesOK(g)
           /\ Others(h, 0) => Others(g, 0)
           /\ Open(h, n) = {} /\ Placed(h) => Placed(g)
<1> DEFINE rest == SubSeq(h, n + 1, Len(h))  g == <<Summary>> \o rest  m == Len(h) - n
<1>1. /\ Len(h) \in Nat /\ DOMAIN h = 1..Len(h) /\ n \in Nat /\ m \in Nat
      /\ \A i \in 1..Len(h) : h[i] \in Entry
  BY Spans
<1>2. /\ rest \in Seq(Entry) /\ Len(rest) = m
      /\ \A i \in 1..m : rest[i] = h[n + i]
  <2>1. rest = [i \in 1..m |-> h[n + i]]
    <3>1. \A i \in 1..m : h[(n + 1) + i - 1] = h[n + i]
      <4>1. \A i \in 1..m : (n + 1) + i - 1 = n + i BY <1>1
      <4>2. QED BY <4>1
    <3>2. Len(h) - (n + 1) + 1 = m BY <1>1
    <3>3. QED BY <1>1, <3>1, <3>2
  <2>2. \A i \in 1..m : n + i \in 1..Len(h) BY <1>1
  <2>3. rest \in Seq(Entry) /\ Len(rest) = m
    <3>1. [i \in 1..m |-> h[n + i]] \in [1..m -> Entry] BY <1>1, <2>2
    <3> HIDE DEF rest, m
    <3>2. rest \in [1..m -> Entry] BY <2>1, <3>1
    <3>3. m \in Nat BY <1>1
    <3>4. QED BY <3>2, <3>3
  <2>4. QED BY <2>1, <2>3
<1>3. /\ g \in Seq(Entry) /\ Len(g) = 1 + m /\ DOMAIN g = 1..1+m /\ g[1] = Summary
      /\ \A i \in 1..m : g[1 + i] = rest[i]
  <2> HIDE DEF rest, m
  <2>1. <<Summary>> \in Seq(Entry) /\ Len(<<Summary>>) = 1 /\ <<Summary>>[1] = Summary BY EntryFacts
  <2>2. QED BY <1>1, <1>2, <2>1
<1>4. ASSUME NEW i \in 2..1+m PROVE n + i - 1 \in n+1..Len(h) /\ n + i - 1 \in 1..Len(h) /\ g[i] = h[n + i - 1]
  <2>1. i - 1 \in 1..m /\ i = 1 + (i - 1) /\ n + (i - 1) = n + i - 1 BY <1>1
  <2>2. n + i - 1 \in n+1..Len(h) /\ n + i - 1 \in 1..Len(h) BY <1>1
  <2> HIDE DEF g, rest, m
  <2>3. g[1 + (i - 1)] = rest[i - 1] /\ rest[i - 1] = h[n + (i - 1)] BY <1>2, <1>3, <2>1
  <2>4. QED BY <2>1, <2>2, <2>3
<1>5. ASSUME NEW i \in n+1..Len(h) PROVE i - n + 1 \in 2..1+m /\ g[i - n + 1] = h[i]
  <2>1. i - n + 1 \in 2..1+m /\ n + (i - n + 1) - 1 = i BY <1>1
  <2>2. QED BY <1>4, <2>1
<1>6. \A i \in DOMAIN g : g[i].role # "summary" => i \in 2..1+m BY <1>1, <1>3, EntryFacts
<1> HIDE DEF g, m
<1>7. EntriesOK(g)
  <2>1. \A i \in DOMAIN g : g[i].role \in {"assistant", "tool"} => g[i].of \in DOMAIN batches
    BY <1>1, <1>4, <1>6 DEF EntriesOK
  <2>2. \A i \in DOMAIN g : g[i].role = "tool" => g[i].id \in Ids(g[i].of)
    BY <1>1, <1>4, <1>6 DEF EntriesOK
  <2>3. ASSUME NEW i \in DOMAIN g, NEW j \in DOMAIN g, g[i].role \in {"user", "assistant"}, g[i] = g[j]
        PROVE  i = j
    <3>1. i \in 2..1+m /\ j \in 2..1+m BY <1>6, <2>3
    <3>2. h[n + i - 1] = h[n + j - 1] /\ h[n + i - 1].role \in {"user", "assistant"} BY <1>4, <2>3, <3>1
    <3>3. n + i - 1 \in DOMAIN h /\ n + j - 1 \in DOMAIN h BY <1>1, <1>4, <3>1
    <3>4. n + i - 1 = n + j - 1 BY <3>2, <3>3 DEF EntriesOK
    <3>5. QED BY <1>1, <3>1, <3>4
  <2>4. QED BY <2>1, <2>2, <2>3 DEF EntriesOK
<1>8. ASSUME NEW d, NEW s \in n+1..Len(h), NEW i \in s..Len(h), h[s] = Batch(d),
             \A j \in s+1..i : h[j].role = "tool"
      PROVE  i - n + 1 \in Slice(g, d)
  <2>1. /\ s - n + 1 \in 1..(i - n + 1) /\ i - n + 1 \in 1..Len(g) /\ s \in n+1..Len(h) /\ i \in n+1..Len(h)
    BY <1>1, <1>3, <1>5
  <2>2. g[s - n + 1] = Batch(d) BY <1>5, <1>8
  <2>3. ASSUME NEW j \in (s - n + 1) + 1 .. (i - n + 1) PROVE g[j].role = "tool"
    <3>1. j \in 2..1+m /\ n + j - 1 \in s+1..i BY <1>1, <1>5, <2>1, <2>3
    <3>2. QED BY <1>4, <1>8, <3>1
  <2>4. QED BY <1>3, <2>1, <2>2, <2>3, Spans
<1>9. ASSUME Others(h, 0) PROVE Others(g, 0)
  <2> SUFFICES ASSUME NEW d \in DOMAIN batches \ {0}, Contains(g, Batch(d)), NEW id \in Ids(d)
               PROVE  Answered(g, d, id)
    BY DEF Others, Done
  <2>1. PICK q \in 1..Len(g) : g[q] = Batch(d) BY <1>3, Spans
  <2>2. q \in 2..1+m BY <1>3, <1>6, <2>1, EntryFacts
  <2> DEFINE s == n + q - 1
  <2>3. s \in n+1..Len(h) /\ s \in 1..Len(h) /\ h[s] = Batch(d) BY <1>4, <2>1, <2>2
  <2>4. Answered(h, d, id) BY <1>9, <2>3, Spans DEF Others, Done
  <2>5. PICK i \in Slice(h, d) : h[i].role = "tool" /\ h[i].id = id BY <2>4, Spans
  <2>6. PICK t \in 1..i : h[t] = Batch(d) /\ \A j \in t+1..i : h[j].role = "tool" BY Spans
  <2>7. i \in 1..Len(h) BY Spans
  <2>8. t \in DOMAIN h /\ s \in DOMAIN h /\ h[t].role = "assistant" BY <1>1, <2>3, <2>6, <2>7, EntryFacts
  <2>9. t = s BY <2>3, <2>6, <2>8 DEF EntriesOK
  <2> HIDE DEF s
  <2>10. i \in s..Len(h) /\ i \in n+1..Len(h) BY <1>1, <2>3, <2>6, <2>7, <2>9
  <2>11. i - n + 1 \in Slice(g, d) BY <1>8, <2>3, <2>6, <2>9, <2>10
  <2>12. g[i - n + 1] = h[i] BY <1>5, <2>10
  <2>13. QED BY <1>3, <2>5, <2>11, <2>12, Spans, SMTT(30)
<1>10. ASSUME Open(h, n) = {}, Placed(h) PROVE Placed(g)
  <2>1. ASSUME NEW i \in n+1..Len(h), h[i].role = "tool" PROVE i - n + 1 \in Slice(g, h[i].of)
    <3> DEFINE c == h[i].of
    <3>1. i \in DOMAIN h /\ i \in 1..Len(h) BY <1>1
    <3>2. i \in Slice(h, c) /\ c \in DOMAIN batches /\ h[i].id \in Ids(c)
      BY <1>10, <2>1, <3>1 DEF Placed, EntriesOK
    <3>3. PICK s \in 1..i : h[s] = Batch(c) /\ \A j \in s+1..i : h[j].role = "tool" BY <3>2, Spans
    <3>4. s > n
      <4> SUFFICES ASSUME s <= n PROVE h[i].id \in Open(h, n) BY <1>1, <1>10, <3>1
      <4>1. s \in 1..n /\ h[s].role = "assistant" /\ h[s].of = c BY <1>1, <3>1, <3>3, EntryFacts
      <4>2. ASSUME NEW j \in s+1..n, h[j].role = "tool", h[j].id = h[i].id PROVE FALSE
        <5>1. j \in 1..Len(h) /\ j \in DOMAIN h /\ s \in 1..j /\ j # i /\ j \in s+1..i BY <1>1, <3>1, <4>1
        <5>2. \A k \in s+1..j : h[k].role = "tool" BY <1>1, <3>1, <3>3, <4>1, <4>2
        <5>3. j \in Slice(h, c) BY <3>3, <5>1, <5>2, Spans
        <5>4. j \in Slice(h, h[j].of) BY <1>10, <4>2, <5>1 DEF Placed
        <5>5. h[j].of = c BY <5>3, <5>4, SlicesApart
        <5>6. QED BY <1>10, <2>1, <3>1, <4>2, <5>1, <5>5 DEF Placed
      <4>3. h[i].id \in UNION {Ids(d) : d \in DOMAIN batches} BY <3>2
      <4>4. QED BY <3>2, <4>1, <4>2, <4>3 DEF Open
    <3>5. s \in n+1..Len(h) /\ i \in s..Len(h) BY <1>1, <3>1, <3>3, <3>4
    <3>6. QED BY <1>8, <3>3, <3>5
  <2>2. ASSUME NEW i \in DOMAIN g, g[i].role = "tool"
        PROVE  i \in Slice(g, g[i].of)
    <3>1. i \in 2..1+m BY <1>6, <2>2
    <3>2. n + i - 1 \in n+1..Len(h) /\ g[i] = h[n + i - 1] BY <1>4, <3>1
    <3>3. (n + i - 1) - n + 1 = i BY <1>1, <3>1
    <3>4. QED BY <2>1, <2>2, <3>2, <3>3
  <2>3. ASSUME NEW i \in DOMAIN g, NEW j \in DOMAIN g, g[i].role = "tool", g[j].role = "tool",
               g[j].of = g[i].of, g[j].id = g[i].id
        PROVE  i = j
    <3>1. i \in 2..1+m /\ j \in 2..1+m BY <1>6, <2>3
    <3>2. g[i] = h[n + i - 1] /\ g[j] = h[n + j - 1] BY <1>4, <3>1
    <3>3. n + i - 1 \in DOMAIN h /\ n + j - 1 \in DOMAIN h BY <1>1, <1>4, <3>1
    <3>4. n + i - 1 = n + j - 1 BY <1>10, <2>3, <3>2, <3>3 DEF Placed
    <3>5. QED BY <1>1, <3>1, <3>4
  <2>4. QED BY <2>2, <2>3 DEF Placed
<1>11. QED BY <1>3, <1>7, <1>9, <1>10 DEF g

\* A summary cuts no batch from its results and leaves no call without one.
LEMMA CompactedOK ==
    ASSUME NEW h, HistoryOK(h)
    PROVE  HistoryOK(Compacted(h)) /\ (Others(h, 0) => Others(Compacted(h), 0))
<1> DEFINE top == Max({0, Len(h) - Keep})
           bounds == {n \in 0..top : Open(h, n) = {}}
<1>1. h \in Seq(Entry) /\ Len(h) \in Nat BY Spans DEF HistoryOK
<1>2. top \in Nat /\ top <= Len(h)
  <2>1. Keep \in Nat BY TurnsAssumption
  <2>2. \E x \in {0, Len(h) - Keep} : \A y \in {0, Len(h) - Keep} : x >= y BY <1>1, <2>1
  <2>3. top \in {0, Len(h) - Keep} /\ \A y \in {0, Len(h) - Keep} : top >= y BY <2>2 DEF Max
  <2>4. QED BY <1>1, <2>1, <2>3
<1> HIDE DEF top
<1>3. 0 \in bounds
  <2>1. Open(h, 0) = {} BY DEF Open
  <2>2. QED BY <1>2, <2>1
<1>4. bounds \in SUBSET Nat /\ \A n \in bounds : n <= top BY <1>2
<1>5. Boundary(h) = Max(bounds) BY DEF Boundary, top
<1>6. Boundary(h) \in bounds
  <2> HIDE DEF bounds
  <2>1. QED BY <1>2, <1>3, <1>4, <1>5, MaxOf
<1>7. CASE Boundary(h) = 0 BY <1>7 DEF Compacted
<1>8. CASE Boundary(h) # 0
  <2>1. Boundary(h) \in 1..Len(h) /\ Open(h, Boundary(h)) = {} BY <1>1, <1>2, <1>6, <1>8
  <2>2. Compacted(h) = <<Summary>> \o SubSeq(h, Boundary(h) + 1, Len(h)) BY <1>8 DEF Compacted
  <2>3. QED BY <1>1, <2>1, <2>2, Summarized DEF HistoryOK
<1>9. QED BY <1>7, <1>8

-----------------------------------------------------------------------------
(* Repairs *)

LastOf(h, c, i) == i \in Slice(h, c) /\ \A j \in Slice(h, c) : j <= i

\* What the repair puts behind message i: the notes of the batch that ends there.
LEMMA MissingFacts ==
    ASSUME batches \in Seq(Menu), NEW h \in Seq(Entry), NEW i \in 1..Len(h)
    PROVE  /\ Missing(h, i) \in Seq(Entry)
           /\ \A k \in DOMAIN Missing(h, i) :
                 LET e == Missing(h, i)[k] IN
                 /\ e.role = "tool" /\ e.of \in DOMAIN batches /\ e.id \in Ids(e.of)
                 /\ LastOf(h, e.of, i) /\ ~Answered(h, e.of, e.id)
           /\ \A k, l \in DOMAIN Missing(h, i) : Missing(h, i)[k].id = Missing(h, i)[l].id => k = l
           /\ \A c \in DOMAIN batches : LastOf(h, c, i) =>
                 \A id \in Ids(c) : ~Answered(h, c, id) =>
                     \E k \in DOMAIN Missing(h, i) : Missing(h, i)[k].of = c /\ Missing(h, i)[k].id = id
<1> DEFINE ended == {c \in DOMAIN batches : Slice(h, c) # {} /\ i = Max(Slice(h, c))}
<1>1. Len(h) \in Nat /\ \A c : Slice(h, c) \in SUBSET Nat /\ \A j \in Slice(h, c) : j <= Len(h) BY Spans
<1>2. ASSUME NEW c \in DOMAIN batches PROVE c \in ended <=> LastOf(h, c, i)
  <2>1. ASSUME Slice(h, c) # {} PROVE Max(Slice(h, c)) \in Slice(h, c) /\ \A j \in Slice(h, c) : j <= Max(Slice(h, c))
    BY <1>1, <2>1, MaxOf
  <2>2. ASSUME LastOf(h, c, i) PROVE Slice(h, c) # {} /\ i = Max(Slice(h, c))
    <3>1. Slice(h, c) # {} BY <2>2 DEF LastOf
    <3>2. Max(Slice(h, c)) <= i /\ i <= Max(Slice(h, c)) BY <2>1, <2>2, <3>1 DEF LastOf
    <3>3. i \in Nat /\ Max(Slice(h, c)) \in Nat BY <1>1, <2>1, <3>1
    <3>4. QED BY <3>1, <3>2, <3>3
  <2>3. QED BY <2>1, <2>2 DEF LastOf
<1>3. Missing(h, i) = IF ended = {} THEN <<>> ELSE Notes(h, Min(ended)) BY DEF Missing
<1>4. CASE ended = {}
  <2>1. Missing(h, i) = <<>> /\ <<>> \in Seq(Entry) /\ DOMAIN Missing(h, i) = {} BY <1>3, <1>4
  <2>2. \A c \in DOMAIN batches : ~LastOf(h, c, i)
    <3> HIDE DEF ended
    <3>1. QED BY <1>2, <1>4
  <2>3. QED BY <2>1, <2>2
<1>5. CASE ended # {}
  <2> DEFINE d == Min(ended)
  <2>1. d \in ended /\ ended \subseteq DOMAIN batches
    <3>1. ended \in SUBSET Nat BY BatchFacts
    <3>2. ended \subseteq DOMAIN batches OBVIOUS
    <3> HIDE DEF ended
    <3>3. QED BY <1>5, <3>1, <3>2, MinOf
  <2>2. Missing(h, i) = Notes(h, d) BY <1>3, <1>5
  <2> HIDE DEF ended, d
  <2>3. d \in DOMAIN batches /\ LastOf(h, d, i) BY <1>2, <2>1
  <2>4. \A c \in DOMAIN batches : LastOf(h, c, i) => c = d BY <2>3, SlicesApart DEF LastOf
  <2>5. /\ Notes(h, d) \in Seq(Entry)
        /\ \A k \in DOMAIN Notes(h, d) :
              /\ Notes(h, d)[k].role = "tool" /\ Notes(h, d)[k].of = d /\ Notes(h, d)[k].id \in Ids(d)
              /\ ~Answered(h, d, Notes(h, d)[k].id)
        /\ \A k, l \in DOMAIN Notes(h, d) : Notes(h, d)[k].id = Notes(h, d)[l].id => k = l
        /\ \A id \in Ids(d) : ~Answered(h, d, id) => \E k \in DOMAIN Notes(h, d) : Notes(h, d)[k].id = id
    BY <2>3, NotesFacts
  <2>6. QED BY <2>2, <2>3, <2>4, <2>5
<1>6. QED BY <1>4, <1>5

\* g is h with the missing notes behind what they belong to: h[i] is at pos[i].
Woven(h, g, pos) ==
    /\ pos \in [1..Len(h) -> 1..Len(g)]
    /\ \A i \in 1..Len(h) : g[pos[i]] = h[i]
    /\ \A i, j \in 1..Len(h) : i < j => pos[i] + Len(Missing(h, i)) < pos[j]
    /\ \A i \in 1..Len(h) : \A k \in 1..Len(Missing(h, i)) :
          pos[i] + k \in 1..Len(g) /\ g[pos[i] + k] = Missing(h, i)[k]
    /\ \A p \in 1..Len(g) : \E i \in 1..Len(h) : p = pos[i] \/ \E k \in 1..Len(Missing(h, i)) : p = pos[i] + k

\* The repaired history is the history with those notes between.
LEMMA RecoveredWoven ==
    ASSUME batches \in Seq(Menu), NEW h \in Seq(Entry)
    PROVE  Recovered(h) \in Seq(Entry) /\ \E pos : Woven(h, Recovered(h), pos)
<1> DEFINE n == Len(h)
           s == [i \in 1..n |-> <<h[i]>> \o Missing(h, i)]
           g == Recovered(h)
<1>1. n \in Nat /\ DOMAIN h = 1..n /\ \A i \in 1..n : h[i] \in Entry BY Spans
<1>2. ASSUME NEW i \in 1..n
      PROVE  /\ Missing(h, i) \in Seq(Entry) /\ Len(Missing(h, i)) \in Nat
             /\ s[i] \in Seq(Entry) /\ Len(s[i]) = 1 + Len(Missing(h, i)) /\ s[i][1] = h[i]
             /\ \A k \in 1..Len(Missing(h, i)) : s[i][1 + k] = Missing(h, i)[k]
  <2> DEFINE a == <<h[i]>>  b == Missing(h, i)
  <2>1. b \in Seq(Entry) BY MissingFacts
  <2>2. a \in Seq(Entry) /\ Len(a) = 1 /\ a[1] = h[i] BY <1>1
  <2>3. s[i] = a \o b OBVIOUS
  <2> HIDE DEF s, a, b
  <2>4. Len(b) \in Nat /\ a \o b \in Seq(Entry) /\ Len(a \o b) = 1 + Len(b) /\ (a \o b)[1] = a[1]
        /\ \A k \in 1..Len(b) : (a \o b)[1 + k] = b[k]
    <3>1. Len(b) \in Nat BY <2>1
    <3>2. /\ a \o b \in Seq(Entry) /\ Len(a \o b) = Len(a) + Len(b)
          /\ \A k \in 1..Len(a) : (a \o b)[k] = a[k]
          /\ \A k \in 1..Len(b) : (a \o b)[Len(a) + k] = b[k]
      <4>1. a \in Seq(Entry) BY <2>2
      <4>2. QED BY <2>1, <4>1
    <3>3. 1 \in 1..Len(a) BY <2>2
    <3>4. QED BY <2>2, <3>1, <3>2, <3>3
  <2>5. QED BY <2>1, <2>2, <2>3, <2>4 DEF b
<1>3. s \in [1..n -> Seq(Entry)]
  <2>1. \A i \in 1..n : s[i] \in Seq(Entry) BY <1>2
  <2>2. QED BY <2>1
<1>4. g = FlattenSeq(s) BY <1>1 DEF Recovered
<1>5. PICK off : Laid(Entry, s, n, off, g)
  <2> HIDE DEF s, g
  <2>1. QED BY <1>1, <1>3, <1>4, Flattened
<1> HIDE DEF s, g
<1> DEFINE pos == [i \in 1..n |-> off[i] + 1]
<1>6. /\ g \in Seq(Entry) /\ Len(g) \in Nat
      /\ \A i \in 1..n : off[i] \in Nat /\ i + 1 \in 1..n+1
  <2>1. g \in Seq(Entry) /\ off \in [1..n+1 -> Nat] BY <1>5 DEF Laid
  <2>2. QED BY <1>1, <2>1
<1>7. ASSUME NEW i \in 1..n PROVE pos[i] \in 1..Len(g) /\ g[pos[i]] = h[i]
  <2>1. 1 \in 1..Len(s[i]) BY <1>2
  <2>2. off[i] + 1 \in 1..Len(g) /\ g[off[i] + 1] = s[i][1] BY <1>5, <2>1 DEF Laid
  <2>3. QED BY <1>2, <2>2
<1>8. ASSUME NEW i \in 1..n, NEW j \in 1..n, i < j PROVE pos[i] + Len(Missing(h, i)) < pos[j]
  <2>1. i + 1 \in 1..n+1 /\ j \in 1..n+1 /\ i + 1 <= j BY <1>1, <1>8
  <2>2. off[i+1] = off[i] + Len(s[i]) /\ off[i+1] <= off[j] BY <1>5, <2>1 DEF Laid
  <2>3. Len(s[i]) = 1 + Len(Missing(h, i)) /\ Len(Missing(h, i)) \in Nat BY <1>2
  <2>4. pos[i] = off[i] + 1 /\ pos[j] = off[j] + 1 /\ off[i] \in Nat /\ off[j] \in Nat BY <1>6
  <2> HIDE DEF pos
  <2>5. QED BY <2>2, <2>3, <2>4, SMTT(30)
<1>9. ASSUME NEW i \in 1..n, NEW k \in 1..Len(Missing(h, i))
      PROVE  pos[i] + k \in 1..Len(g) /\ g[pos[i] + k] = Missing(h, i)[k]
  <2>1. 1 + k \in 1..Len(s[i]) BY <1>2
  <2>2. off[i] + (1 + k) \in 1..Len(g) /\ g[off[i] + (1 + k)] = s[i][1 + k] BY <1>5, <2>1 DEF Laid
  <2>3. off[i] + (1 + k) = pos[i] + k
    <3>1. pos[i] = off[i] + 1 /\ off[i] \in Nat /\ k \in Nat BY <1>2, <1>6
    <3> HIDE DEF pos
    <3>2. QED BY <3>1, SMTT(30)
  <2>4. QED BY <1>2, <2>2, <2>3
<1>10. ASSUME NEW p \in 1..Len(g)
       PROVE  \E i \in 1..n : p = pos[i] \/ \E k \in 1..Len(Missing(h, i)) : p = pos[i] + k
  <2>1. PICK i \in 1..n : \E k \in 1..Len(s[i]) : p = off[i] + k BY <1>5 DEF Laid
  <2>2. PICK k \in 1..Len(s[i]) : p = off[i] + k BY <2>1
  <2>3. Len(s[i]) = 1 + Len(Missing(h, i)) /\ Len(Missing(h, i)) \in Nat BY <1>2
  <2>4. pos[i] = off[i] + 1 /\ off[i] \in Nat BY <1>6
  <2> HIDE DEF pos
  <2>5. k = 1 \/ (k - 1 \in 1..Len(Missing(h, i)) /\ p = pos[i] + (k - 1)) BY <2>2, <2>3, <2>4, SMTT(30)
  <2>6. QED BY <2>2, <2>4, <2>5
<1>11. pos \in [1..n -> 1..Len(g)]
  <2>1. \A i \in 1..n : pos[i] \in 1..Len(g) BY <1>7
  <2>2. QED BY <2>1
<1> HIDE DEF pos
<1>12. Woven(h, g, pos) BY <1>7, <1>8, <1>9, <1>10, <1>11 DEF Woven
<1>13. QED BY <1>6, <1>12 DEF g

\* What the repair does to the history: it may have been cut anywhere.
LEMMA Repaired ==
    ASSUME batches \in Seq(Menu), NEW h, HistoryOK(h)
    PROVE  HistoryOK(Recovered(h)) /\ Others(Recovered(h), 0)
<1> DEFINE n == Len(h)  g == Recovered(h)
<1>1. h \in Seq(Entry) /\ EntriesOK(h) /\ n \in Nat /\ DOMAIN h = 1..n /\ \A i \in 1..n : h[i] \in Entry
  BY Spans DEF HistoryOK
<1>2. g \in Seq(Entry) /\ \E pos : Woven(h, g, pos) BY <1>1, RecoveredWoven
<1> HIDE DEF g
<1>3. PICK pos : Woven(h, g, pos) BY <1>2
<1>4. Len(g) \in Nat /\ DOMAIN g = 1..Len(g) /\ \A p \in 1..Len(g) : g[p] \in Entry BY <1>2, Spans
<1>5. \A i \in 1..n : /\ pos[i] \in 1..Len(g) /\ pos[i] \in Nat /\ g[pos[i]] = h[i]
                      /\ Len(Missing(h, i)) \in Nat /\ DOMAIN Missing(h, i) = 1..Len(Missing(h, i))
  <2> TAKE i \in 1..n
  <2>1. Missing(h, i) \in Seq(Entry) BY <1>1, MissingFacts
  <2>2. Len(Missing(h, i)) \in Nat /\ DOMAIN Missing(h, i) = 1..Len(Missing(h, i)) BY <2>1
  <2>3. pos[i] \in 1..Len(g) /\ g[pos[i]] = h[i] BY <1>3 DEF Woven
  <2>4. pos[i] \in Nat BY <1>4, <2>3
  <2>5. QED BY <2>2, <2>3, <2>4
<1>6. \A i, j \in 1..n : i < j => pos[i] + Len(Missing(h, i)) < pos[j] BY <1>3 DEF Woven
<1>7. ASSUME NEW i \in 1..n, NEW k \in 1..Len(Missing(h, i))
      PROVE  LET e == Missing(h, i)[k] IN
             /\ pos[i] + k \in 1..Len(g) /\ g[pos[i] + k] = e
             /\ e.role = "tool" /\ e.of \in DOMAIN batches /\ e.id \in Ids(e.of)
             /\ LastOf(h, e.of, i) /\ ~Answered(h, e.of, e.id)
  <2>1. pos[i] + k \in 1..Len(g) /\ g[pos[i] + k] = Missing(h, i)[k] BY <1>3 DEF Woven
  <2>2. k \in DOMAIN Missing(h, i) BY <1>5
  <2>3. QED BY <1>1, <2>1, <2>2, MissingFacts
<1>8. ASSUME NEW p \in 1..Len(g)
      PROVE  \E i \in 1..n : p = pos[i] \/ \E k \in 1..Len(Missing(h, i)) : p = pos[i] + k
  BY <1>3 DEF Woven
\* what is not a result was there before
<1>9. ASSUME NEW p \in 1..Len(g), g[p].role # "tool" PROVE \E i \in 1..n : p = pos[i] /\ g[p] = h[i]
  <2>1. PICK i \in 1..n : p = pos[i] \/ \E k \in 1..Len(Missing(h, i)) : p = pos[i] + k BY <1>8
  <2>2. p = pos[i] BY <1>7, <1>9, <2>1
  <2>3. QED BY <1>5, <2>2
<1>10. ASSUME NEW c, NEW i \in Slice(h, c), NEW k \in 0..Len(Missing(h, i))
       PROVE  i \in 1..n /\ pos[i] + k \in Slice(g, c)
  <2>1. i \in 1..n BY <1>1, Spans
  <2>2. PICK s \in 1..i : h[s] = Batch(c) /\ \A j \in s+1..i : h[j].role = "tool" BY <1>1, Spans
  <2>3. s \in 1..n /\ s \in Nat /\ i \in Nat /\ s <= i BY <1>1, <2>1
  <2>4. pos[i] + k \in 1..Len(g)
    <3>1. CASE k = 0 BY <1>5, <2>1, <3>1
    <3>2. CASE k # 0
      <4>1. k \in 1..Len(Missing(h, i)) BY <1>5, <2>1, <3>2
      <4>2. QED BY <1>7, <2>1, <4>1
    <3>3. QED BY <3>1, <3>2
  <2>5. pos[s] \in 1..(pos[i] + k)
    <3>1. CASE s = i BY <1>4, <1>5, <2>1, <3>1
    <3>2. CASE s # i
      <4>1. pos[s] + Len(Missing(h, s)) < pos[i] BY <1>6, <2>1, <2>3, <3>2
      <4>2. QED BY <1>4, <1>5, <2>1, <2>3, <4>1, SMTT(30)
    <3>3. QED BY <3>1, <3>2
  <2>6. ASSUME NEW p \in pos[s]+1..pos[i]+k PROVE g[p].role = "tool"
    <3>1. p \in 1..Len(g) /\ p \in Nat /\ p > pos[s] /\ p <= pos[i] + k BY <1>4, <1>5, <2>3, <2>4, SMTT(30)
    <3>2. PICK j \in 1..n : p = pos[j] \/ \E l \in 1..Len(Missing(h, j)) : p = pos[j] + l BY <1>8, <3>1
    <3>3. CASE p = pos[j]
      <4>1. s < j
        <5>1. s # j BY <1>5, <3>1, <3>3, <2>3
        <5>2. ASSUME j < s PROVE FALSE
          <6>1. pos[j] + Len(Missing(h, j)) < pos[s] BY <1>6, <2>3, <5>2
          <6>2. QED BY <1>5, <2>3, <3>1, <3>3, <6>1, SMTT(30)
        <5>3. QED BY <1>1, <2>3, <5>1, <5>2
      <4>2. j <= i
        <5>1. ASSUME i < j PROVE FALSE
          <6>1. pos[i] + Len(Missing(h, i)) < pos[j] BY <1>6, <2>1, <5>1
          <6>2. QED BY <1>5, <2>1, <3>1, <3>3, <6>1
        <5>2. QED BY <1>1, <2>3, <5>1
      <4>3. j \in s+1..i BY <1>1, <2>3, <4>1, <4>2
      <4>4. QED BY <1>5, <2>2, <3>3, <4>3
    <3>4. CASE \E l \in 1..Len(Missing(h, j)) : p = pos[j] + l BY <1>7, <3>4
    <3>5. QED BY <3>2, <3>3, <3>4
  <2>7. g[pos[s]] = Batch(c) BY <1>5, <2>2, <2>3
  <2>8. QED BY <1>2, <2>1, <2>4, <2>5, <2>6, <2>7, Spans
<1>11. ASSUME NEW c, NEW i \in Slice(h, c) PROVE i \in 1..n /\ pos[i] \in Slice(g, c)
  <2>1. i \in 1..n BY <1>1, Spans
  <2>2. 0 \in 0..Len(Missing(h, i)) /\ pos[i] + 0 = pos[i] BY <1>5, <2>1
  <2>3. QED BY <1>10, <2>1, <2>2
\* every call has a result
<1>12. ASSUME NEW c \in DOMAIN batches, Contains(g, Batch(c)), NEW id \in Ids(c) PROVE Answered(g, c, id)
  <2>1. PICK p \in 1..Len(g) : g[p] = Batch(c) BY <1>2, <1>12, Spans
  <2>2. g[p].role # "tool" BY <2>1, EntryFacts
  <2>3. PICK b \in 1..n : h[b] = Batch(c) BY <1>9, <2>1, <2>2
  <2>4. b \in Slice(h, c)
    <3>1. b \in 1..b /\ \A j \in b+1..b : FALSE BY <1>1
    <3>2. QED BY <1>1, <2>3, <3>1, Spans
  <2>5. CASE Answered(h, c, id)
    <3>1. PICK i \in Slice(h, c) : h[i].role = "tool" /\ h[i].id = id BY <1>1, <2>5, Spans
    <3>2. pos[i] \in Slice(g, c) /\ g[pos[i]] = h[i] BY <1>5, <1>11
    <3>3. QED BY <1>2, <3>1, <3>2, Spans
  <2>6. CASE ~Answered(h, c, id)
    <3>1. Slice(h, c) \in SUBSET Nat /\ \A j \in Slice(h, c) : j <= n BY <1>1, Spans
    <3>2. PICK i : LastOf(h, c, i) BY <1>1, <2>4, <3>1, MaxOf DEF LastOf
    <3>3. i \in Slice(h, c) /\ i \in 1..n BY <1>11, <3>2 DEF LastOf
    <3>4. PICK k \in DOMAIN Missing(h, i) : Missing(h, i)[k].of = c /\ Missing(h, i)[k].id = id
      BY <1>1, <2>6, <3>2, <3>3, MissingFacts
    <3>5. k \in 1..Len(Missing(h, i)) /\ k \in 0..Len(Missing(h, i)) BY <1>5, <3>3
    <3>6. pos[i] + k \in Slice(g, c) BY <1>10, <3>3, <3>5
    <3>7. g[pos[i] + k].role = "tool" /\ g[pos[i] + k].id = id BY <1>7, <3>3, <3>4, <3>5
    <3>8. QED BY <1>2, <3>6, <3>7, Spans
  <2>7. QED BY <2>5, <2>6
<1>13. Others(g, 0) BY <1>12 DEF Others, Done
<1>14. EntriesOK(g)
  <2>1. ASSUME NEW p \in DOMAIN g, g[p].role \in {"assistant", "tool"}
        PROVE  g[p].of \in DOMAIN batches /\ (g[p].role = "tool" => g[p].id \in Ids(g[p].of))
    <3>1. PICK i \in 1..n : p = pos[i] \/ \E k \in 1..Len(Missing(h, i)) : p = pos[i] + k BY <1>4, <1>8
    <3>2. CASE p = pos[i] BY <1>1, <1>5, <2>1, <3>2 DEF EntriesOK
    <3>3. CASE \E k \in 1..Len(Missing(h, i)) : p = pos[i] + k BY <1>7, <3>3
    <3>4. QED BY <3>1, <3>2, <3>3
  <2>2. ASSUME NEW p \in DOMAIN g, NEW q \in DOMAIN g, g[p].role \in {"user", "assistant"}, g[p] = g[q]
        PROVE  p = q
    <3>1. PICK i \in 1..n : p = pos[i] /\ g[p] = h[i] BY <1>4, <1>9, <2>2
    <3>2. PICK j \in 1..n : q = pos[j] /\ g[q] = h[j] BY <1>4, <1>9, <2>2
    <3>3. QED BY <1>1, <2>2, <3>1, <3>2 DEF EntriesOK
  <2>3. QED BY <2>1, <2>2 DEF EntriesOK
<1>15. ASSUME Placed(h) PROVE Placed(g)
  <2>1. ASSUME NEW p \in 1..Len(g), g[p].role = "tool"
        PROVE  \E i \in 1..n :
                 \/ p = pos[i] /\ h[i] = g[p]
                 \/ \E k \in 1..Len(Missing(h, i)) :
                       /\ p = pos[i] + k /\ Missing(h, i)[k] = g[p]
                       /\ LastOf(h, g[p].of, i) /\ ~Answered(h, g[p].of, g[p].id)
    <3>1. PICK i \in 1..n : p = pos[i] \/ \E k \in 1..Len(Missing(h, i)) : p = pos[i] + k BY <1>8
    <3>2. CASE p = pos[i] BY <1>5, <3>2
    <3>3. CASE \E k \in 1..Len(Missing(h, i)) : p = pos[i] + k
      <4>1. PICK k \in 1..Len(Missing(h, i)) : p = pos[i] + k BY <3>3
      <4>2. /\ g[p] = Missing(h, i)[k]
            /\ LastOf(h, g[p].of, i) /\ ~Answered(h, g[p].of, g[p].id)
        BY <1>7, <4>1
      <4>3. QED BY <4>1, <4>2
    <3>4. QED BY <3>1, <3>2, <3>3
  <2>2. ASSUME NEW i \in 1..n, h[i].role = "tool" PROVE i \in Slice(h, h[i].of) /\ Answered(h, h[i].of, h[i].id)
    <3>1. i \in Slice(h, h[i].of) BY <1>1, <1>15, <2>2 DEF Placed
    <3>2. QED BY <1>1, <2>2, <3>1, Spans
  <2>3. ASSUME NEW p \in DOMAIN g, g[p].role = "tool" PROVE p \in Slice(g, g[p].of)
    <3>1. PICK i \in 1..n :
             \/ p = pos[i] /\ h[i] = g[p]
             \/ \E k \in 1..Len(Missing(h, i)) :
                   p = pos[i] + k /\ Missing(h, i)[k] = g[p] /\ LastOf(h, g[p].of, i)
      BY <1>4, <2>1, <2>3
    <3>2. CASE p = pos[i] /\ h[i] = g[p] BY <1>11, <2>2, <2>3, <3>2
    <3>3. CASE \E k \in 1..Len(Missing(h, i)) :
                   p = pos[i] + k /\ Missing(h, i)[k] = g[p] /\ LastOf(h, g[p].of, i)
      <4>1. PICK k \in 1..Len(Missing(h, i)) : p = pos[i] + k BY <3>3
      <4>2. i \in Slice(h, g[p].of) /\ k \in 0..Len(Missing(h, i)) BY <3>3, <1>5 DEF LastOf
      <4>3. QED BY <1>10, <4>1, <4>2
    <3>4. QED BY <3>1, <3>2, <3>3
  <2>4. ASSUME NEW i \in 1..n, NEW j \in 1..n, h[i].role = "tool", h[j].role = "tool",
               h[i].of = h[j].of, h[i].id = h[j].id
        PROVE  i = j
    BY <1>1, <1>15, <2>4 DEF Placed
  <2>5. ASSUME NEW i \in 1..n, NEW j \in 1..n, NEW k \in 1..Len(Missing(h, i)), NEW l \in 1..Len(Missing(h, j)),
               Missing(h, i)[k].of = Missing(h, j)[l].of, Missing(h, i)[k].id = Missing(h, j)[l].id
        PROVE  pos[i] + k = pos[j] + l
    <3>1. LastOf(h, Missing(h, i)[k].of, i) /\ LastOf(h, Missing(h, i)[k].of, j) BY <1>7, <2>5
    <3>2. i <= j /\ j <= i BY <3>1 DEF LastOf
    <3>3. i = j BY <1>1, <3>2
    <3>4. k \in DOMAIN Missing(h, i) /\ l \in DOMAIN Missing(h, i) BY <1>5, <3>3
    <3>5. k = l BY <1>1, <2>5, <3>3, <3>4, MissingFacts
    <3>6. QED BY <3>3, <3>5
  <2>6. ASSUME NEW p \in DOMAIN g, NEW q \in DOMAIN g, g[p].role = "tool", g[q].role = "tool",
               g[q].of = g[p].of, g[q].id = g[p].id
        PROVE  p = q
    <3>1. PICK i \in 1..n :
             \/ p = pos[i] /\ h[i] = g[p]
             \/ \E k \in 1..Len(Missing(h, i)) :
                   p = pos[i] + k /\ Missing(h, i)[k] = g[p] /\ ~Answered(h, g[p].of, g[p].id)
      BY <1>4, <2>1, <2>6
    <3>2. PICK j \in 1..n :
             \/ q = pos[j] /\ h[j] = g[q]
             \/ \E k \in 1..Len(Missing(h, j)) :
                   q = pos[j] + k /\ Missing(h, j)[k] = g[q] /\ ~Answered(h, g[q].of, g[q].id)
      BY <1>4, <2>1, <2>6
    <3>3. CASE p = pos[i] /\ h[i] = g[p] /\ q = pos[j] /\ h[j] = g[q] BY <2>4, <2>6, <3>3
    <3>4. CASE /\ p = pos[i] /\ h[i] = g[p]
               /\ ~Answered(h, g[q].of, g[q].id)
      BY <2>2, <2>6, <3>4
    <3>5. CASE /\ q = pos[j] /\ h[j] = g[q]
               /\ ~Answered(h, g[p].of, g[p].id)
      BY <2>2, <2>6, <3>5
    <3>6. CASE /\ \E k \in 1..Len(Missing(h, i)) : p = pos[i] + k /\ Missing(h, i)[k] = g[p]
               /\ \E l \in 1..Len(Missing(h, j)) : q = pos[j] + l /\ Missing(h, j)[l] = g[q]
      <4>1. PICK k \in 1..Len(Missing(h, i)) : p = pos[i] + k /\ Missing(h, i)[k] = g[p] BY <3>6
      <4>2. PICK l \in 1..Len(Missing(h, j)) : q = pos[j] + l /\ Missing(h, j)[l] = g[q] BY <3>6
      <4>3. QED BY <2>5, <2>6, <4>1, <4>2, SMTT(30)
    <3>7. QED BY <3>1, <3>2, <3>3, <3>4, <3>5, <3>6
  <2>7. QED BY <2>3, <2>6 DEF Placed
<1>16. HistoryOK(g) BY <1>1, <1>2, <1>14, <1>15 DEF HistoryOK
<1>17. QED BY <1>13, <1>16 DEF g

\* The notes of a batch, at the end of a history that ends in it or lacks none.
LEMMA MarkedOK ==
    ASSUME batches \in Seq(Menu), NEW h, HistoryOK(h), NEW c \in DOMAIN batches,
           ~torn => EndsIn(h, c) \/ Done(h, c)
    PROVE  HistoryOK(Marked(h, c))
<1> DEFINE t == Notes(h, c)
<1>1. h \in Seq(Entry) /\ EntriesOK(h) /\ (~torn => Placed(h)) BY DEF HistoryOK
<1>2. /\ Results(t, c)
      /\ \A k, l \in DOMAIN t : t[k].id = t[l].id => k = l
      /\ \A k \in DOMAIN t : t[k].id \in Ids(c) /\ ~Answered(h, c, t[k].id)
  BY NotesFacts DEF Results
<1> HIDE DEF t
<1>3. h \o t \in Seq(Entry) /\ EntriesOK(h \o t) /\ (Placed(h) /\ EndsIn(h, c) => Placed(h \o t))
  BY <1>1, <1>2, Extended
<1>4. ASSUME Done(h, c) PROVE h \o t = h
  <2>1. DOMAIN t = {} BY <1>2, <1>4 DEF Done
  <2>2. t \in Seq(Entry) /\ Len(t) \in Nat /\ DOMAIN t = 1..Len(t) BY <1>2 DEF Results
  <2>3. t = <<>> BY <2>1, <2>2
  <2>4. QED BY <1>1, <2>3
<1>5. Marked(h, c) = h \o t BY DEF Marked, t
<1>6. ~torn => Placed(h \o t) BY <1>1, <1>3, <1>4
<1>7. QED BY <1>3, <1>5, <1>6 DEF HistoryOK

\* What a result leaves as it was.
Grows(h, g) ==
    /\ \A d, id : Answered(h, d, id) => Answered(g, d, id)
    /\ \A d : Contains(g, Batch(d)) <=> Contains(h, Batch(d))

\* The result of a call, in place of its note or at the end.
LEMMA RecordedOK ==
    ASSUME batches \in Seq(Menu), NEW h, HistoryOK(h), NEW c \in DOMAIN batches, NEW id \in Ids(c),
           ~torn => EndsIn(h, c) \/ Done(h, c)
    PROVE  LET g == Record(h, c, id, "done") IN
           /\ HistoryOK(g) /\ Grows(h, g)
           /\ EndsIn(h, c) \/ Done(h, c) => (EndsIn(g, c) \/ Done(g, c)) /\ Answered(g, c, id)
<1> DEFINE g == Record(h, c, id, "done")  r == Result(c, id, "done")  found == ResultsOf(h, c, id)
<1>1. h \in Seq(Entry) /\ EntriesOK(h) /\ (~torn => Placed(h)) BY DEF HistoryOK
<1>2. /\ c \in Nat /\ id \in CallId
      /\ r \in Entry /\ r.role = "tool" /\ r.of = c /\ r.id = id
  BY BatchFacts, EntryFacts
<1>3. g = IF found # {} THEN [h EXCEPT ![Min(found)] = r] ELSE Append(h, r) BY DEF Record
<1>4. \A x : (\A d, i : Answered(h, d, i) => Answered(x, d, i)) /\ Done(h, c) => Done(x, c) BY DEF Done
<1>5. CASE found # {}
  <2> DEFINE p == Min(found)
  <2>1. p \in Slice(h, c) /\ h[p].role = "tool" /\ h[p].id = id
    <3>1. found \in SUBSET Nat BY <1>1, Spans DEF ResultsOf
    <3>2. p \in found
      <4> HIDE DEF found
      <4>1. QED BY <1>5, <3>1, MinOf
    <3>3. QED BY <3>2 DEF ResultsOf
  <2>2. Answered(h, c, id) BY <1>5 DEF Answered
  <2>3. g = [h EXCEPT ![p] = r] BY <1>3, <1>5
  <2> HIDE DEF g, p, r, found
  <2>4. p \in DOMAIN h BY <1>1, <2>1, Spans
  <2>5. Placed(h) => h[p].of = c
    <3>1. ASSUME Placed(h) PROVE p \in Slice(h, h[p].of) BY <2>1, <2>4, <3>1 DEF Placed
    <3>2. QED BY <1>1, <2>1, <3>1, SlicesApart
  <2>6. /\ g \in Seq(Entry) /\ EntriesOK(g)
        /\ Grows(h, g)
        /\ EndsIn(h, c) => EndsIn(g, c)
        /\ Placed(h) /\ h[p].of = c => Placed(g)
    BY <1>1, <1>2, <2>1, <2>3, <2>4, Replaced DEF Grows
  <2>7. Answered(g, c, id) /\ (Done(h, c) => Done(g, c)) BY <1>4, <2>2, <2>6 DEF Grows
  <2>8. HistoryOK(g) BY <1>1, <2>5, <2>6 DEF HistoryOK
  <2>9. QED BY <2>6, <2>7, <2>8 DEF g
<1>6. CASE found = {}
  <2> DEFINE t == <<r>>
  <2>1. ~Answered(h, c, id) /\ ~Done(h, c) BY <1>6 DEF Answered, Done
  <2>2. g = h \o t
    <3>1. g = Append(h, r) BY <1>3, <1>6
    <3> HIDE DEF g, r
    <3>2. Append(h, r) = h \o <<r>> BY <1>1, <1>2
    <3>3. QED BY <3>1, <3>2
  <2>3. DOMAIN t = {1} /\ t[1] = r /\ t \in Seq(Entry)
    <3> HIDE DEF r
    <3>1. QED BY <1>2
  <2>4. Results(t, c) BY <1>2, <2>3 DEF Results
  <2> HIDE DEF g, t, r, found
  <2>5. /\ h \o t \in Seq(Entry) /\ EntriesOK(h \o t)
        /\ Grows(h, h \o t)
        /\ EndsIn(h, c) => EndsIn(h \o t, c) /\ \A k \in DOMAIN t : Answered(h \o t, c, t[k].id)
        /\ /\ Placed(h) /\ EndsIn(h, c)
           /\ \A k, l \in DOMAIN t : t[k].id = t[l].id => k = l
           /\ \A k \in DOMAIN t : ~Answered(h, c, t[k].id)
           => Placed(h \o t)
    BY <1>1, <2>4, Extended DEF Grows
  <2>6. EndsIn(h, c) => EndsIn(g, c) /\ Answered(g, c, id) BY <1>2, <2>2, <2>3, <2>5
  <2>7. Placed(h) /\ EndsIn(h, c) => Placed(g) BY <1>2, <2>1, <2>2, <2>3, <2>5
  <2>8. HistoryOK(g) BY <1>1, <2>1, <2>2, <2>5, <2>7 DEF HistoryOK
  <2>9. QED BY <2>1, <2>2, <2>5, <2>6, <2>8 DEF g
<1>7. QED BY <1>5, <1>6

\* A message of the user, an answer or a summary at the end.
LEMMA AppendedOK ==
    ASSUME NEW h, HistoryOK(h), NEW e \in Entry, e.role \notin {"tool", "assistant"},
           e.role = "user" => ~Contains(h, e)
    PROVE  HistoryOK(Append(h, e)) /\ Grows(h, Append(h, e))
<1>1. h \in Seq(Entry) /\ EntriesOK(h) /\ (~torn => Placed(h)) BY DEF HistoryOK
<1> DEFINE g == Append(h, e)
<1>2. /\ g \in Seq(Entry)
      /\ EntriesOK(g)
      /\ \A d, id : Answered(h, d, id) => Answered(g, d, id)
      /\ \A d : Contains(g, Batch(d)) <=> Contains(h, Batch(d)) \/ e = Batch(d)
      /\ Placed(h) => Placed(g)
  BY <1>1, Appended
<1>3. \A d : e # Batch(d) BY EntryFacts
<1>4. QED BY <1>1, <1>2, <1>3 DEF HistoryOK, Grows

\* Batches that had all their results still have them.
LEMMA GrowsOthers ==
    ASSUME NEW h, NEW g, Grows(h, g), NEW c, Others(h, c)
    PROVE  Others(g, c)
BY DEF Grows, Others, Done

-----------------------------------------------------------------------------
(* What a step keeps *)

\* What holds of the new history, over batches that stay, holds in the next state.
LEMMA Kept ==
    ASSUME batches' = batches, NEW g, history' = g
    PROVE  /\ \A c : Ids(c)' = Ids(c)
           /\ HistoryOK(g) /\ (~torn' => ~torn) => HistoryOK(history)'
           /\ \A c : Others(g, c) => Others(history, c)'
           /\ \A c : Done(g, c) => Done(history, c)'
<1>1. \A c : Ids(c)' = Ids(c) BY DEF Ids
<1>2. ASSUME EntriesOK(g) PROVE EntriesOK(history)' BY <1>1, <1>2 DEF EntriesOK
<1>3. ASSUME Placed(g) PROVE Placed(history)' BY <1>3 DEF Placed, Slice
<1>4. ASSUME NEW c, Done(g, c) PROVE Done(history, c)' BY <1>1, <1>4 DEF Done
<1>5. ASSUME NEW c, Others(g, c) PROVE Others(history, c)' BY <1>1, <1>5 DEF Others, Done
<1>6. QED BY <1>1, <1>2, <1>3, <1>4, <1>5 DEF HistoryOK

\* Waits may end.
LEMMA Settled ==
    ASSUME WaitsOK, batches' = batches, ran' = ran, ranAgain' = ranAgain,
           wait' \in [DOMAIN wait -> {"awaiting", "executing", "gone"}],
           \A call \in DOMAIN wait : wait'[call] = "awaiting" => wait[call] = "awaiting"
    PROVE  WaitsOK' /\ \A c, n : Awaits(c, n)' => Awaits(c, n)
<1>1. DOMAIN wait' = DOMAIN wait OBVIOUS
<1>2. \A c : Ids(c)' = Ids(c) BY DEF Ids
<1>3. \A c, n : Name(c, n)' = Name(c, n) BY DEF Name
<1>4. ASSUME NEW c, NEW n, Awaits(c, n)' PROVE Awaits(c, n) BY <1>1, <1>3, <1>4 DEF Awaits
<1>5. wait' \in [DOMAIN wait' -> {"awaiting", "executing", "gone"}] BY <1>1
<1>6. /\ (DOMAIN wait \cup ran \subseteq CallName)'
      /\ (\A call \in DOMAIN wait \cup ran : call[1] \in DOMAIN batches /\ call[2] \in Ids(call[1]))'
  BY <1>1, <1>2 DEF WaitsOK
<1>7. ASSUME NEW c \in DOMAIN batches, NEW n \in DOMAIN batches[c], Awaits(c, n)'
      PROVE  /\ \A m \in DOMAIN batches[c] : m >= n => Name(c, m) \notin ran
             /\ \A m \in DOMAIN batches[c] : Awaits(c, m)' => m = n
  BY <1>4, <1>7 DEF WaitsOK
<1>8. (\A c \in DOMAIN batches : \A n \in DOMAIN batches[c] : Awaits(c, n) =>
          /\ \A m \in DOMAIN batches[c] : m >= n => Name(c, m) \notin ran
          /\ \A m \in DOMAIN batches[c] : Awaits(c, m) => m = n)'
  BY <1>3, <1>7
<1>9. QED BY <1>4, <1>5, <1>6, <1>8 DEF WaitsOK

\* A step that leaves the waits and effects alone.
LEMMA SameWaits ==
    ASSUME WaitsOK, batches' = batches, ran' = ran, ranAgain' = ranAgain, wait' = wait
    PROVE  WaitsOK' /\ \A c, n : Awaits(c, n)' => Awaits(c, n)
<1>1. wait' \in [DOMAIN wait -> {"awaiting", "executing", "gone"}] BY DEF WaitsOK
<1>2. QED BY <1>1, Settled

\* The lock passes to the next in line, or is lost with the process.
LEMMA Idle ==
    ASSUME LockOK, turn' = NoTurn, tasks' \in Seq(TaskRecord)
    PROVE  LockOK' /\ TurnOK'
<1>1. NoTurn.at = "start" /\ NoTurn \in TurnRecord BY DEF NoTurn, TurnRecord
<1>2. LockOK' BY <1>1 DEF LockOK
<1>3. TurnOK' BY <1>1 DEF TurnOK, Working, Deciding
<1>4. QED BY <1>2, <1>3

\* The lock is released by its holder.
LEMMA Released ==
    ASSUME LockOK, tasks # <<>>, Release
    PROVE  LockOK' /\ TurnOK'
<1>1. tasks' \in Seq(TaskRecord) BY DEF LockOK, Release
<1>2. QED BY <1>1, Idle DEF Release

\* The calls from call k on.
LEMMA SubSeqFacts ==
    ASSUME NEW S, NEW s \in Seq(S), NEW k \in 1 .. Len(s) + 1
    PROVE  /\ SubSeq(s, k, Len(s)) \in Seq(S)
           /\ SubSeq(s, 1, Len(s)) = s
           /\ SubSeq(s, k, Len(s)) = <<>> => k = Len(s) + 1
           /\ k <= Len(s) =>
                /\ Head(SubSeq(s, k, Len(s))) = s[k]
                /\ Tail(SubSeq(s, k, Len(s))) = SubSeq(s, k + 1, Len(s))
                /\ SubSeq(s, k, k) \in Seq(S) /\ Head(SubSeq(s, k, k)) = s[k]
                /\ SubSeq(s, k, Len(s)) # <<>>
<1>1. Len(s) \in Nat /\ k \in Int /\ Len(s) \in Int /\ \A i \in k .. Len(s) : s[i] \in S OBVIOUS
<1>2. SubSeq(s, k, Len(s)) \in Seq(S) BY <1>1, SubSeqProperties
<1>3. SubSeq(s, 1, Len(s)) = s BY SubSeqFull
<1>4. Len(SubSeq(s, k, Len(s))) = IF k <= Len(s) THEN Len(s) - k + 1 ELSE 0 BY <1>1, SubSeqProperties
<1>5. Len(<<>>) = 0 OBVIOUS
<1>6. ASSUME k <= Len(s), SubSeq(s, k, Len(s)) = <<>> PROVE FALSE
  <2>1. Len(SubSeq(s, k, Len(s))) = Len(s) - k + 1 BY <1>4, <1>6
  <2>2. Len(SubSeq(s, k, Len(s))) = 0 BY <1>5, <1>6
  <2>3. QED BY <1>1, <1>6, <2>1, <2>2
<1>7. ASSUME k <= Len(s)
      PROVE  /\ Head(SubSeq(s, k, Len(s))) = s[k]
             /\ Tail(SubSeq(s, k, Len(s))) = SubSeq(s, k + 1, Len(s))
             /\ SubSeq(s, k, k) \in Seq(S) /\ Head(SubSeq(s, k, k)) = s[k]
  <2>1. k \in 1..Len(s) /\ Len(s) \in k..Len(s) /\ k \in k..Len(s) BY <1>1, <1>7
  <2>2. Head(SubSeq(s, k, Len(s))) = s[k] /\ Tail(SubSeq(s, k, Len(s))) = SubSeq(s, k + 1, Len(s))
    BY <2>1, HeadTailOfSubSeq
  <2>3. Head(SubSeq(s, k, k)) = s[k] BY <2>1, HeadTailOfSubSeq
  <2>4. \A i \in k .. k : s[i] \in S BY <2>1
  <2>5. SubSeq(s, k, k) \in Seq(S) BY <1>1, <2>4, SubSeqProperties
  <2>6. QED BY <2>2, <2>3, <2>5
<1>8. k > Len(s) => k = Len(s) + 1 BY <1>1
<1>9. QED BY <1>1, <1>2, <1>3, <1>6, <1>7, <1>8

-----------------------------------------------------------------------------
(* A turn at call k of its batch *)

Calls == batches[turn.batch]

OnCall(k) ==
    /\ k \in DOMAIN Calls
    /\ Next1 = Calls[k] /\ Current = Name(turn.batch, k)
    /\ Next1.id \in Ids(turn.batch) /\ Current \in CallName

Standing(k) ==
    /\ turn.batch \in DOMAIN batches
    /\ Calls \in Seq(Call) /\ Len(Calls) \in Nat /\ DOMAIN Calls = 1..Len(Calls)
    /\ \A m, n \in DOMAIN Calls : Calls[m].id = Calls[n].id => m = n
    /\ Reached(k) /\ (Safe => AnsweredTo(k))
    /\ k <= Len(Calls) => OnCall(k)
    /\ k > Len(Calls) <=> turn.todo = <<>>

\* A turn in its batch is at one of its calls, or past the last.
LEMMA Here ==
    ASSUME IInv, turn.at \in Working \cup Deciding
    PROVE  \E k \in Nat : Standing(k)
<1>1. turn.batch \in DOMAIN batches /\ \E k \in Nat : Reached(k) /\ (Safe => AnsweredTo(k))
  BY DEF IInv, TurnOK
<1>2. PICK k \in Nat : Reached(k) /\ (Safe => AnsweredTo(k)) BY <1>1
<1>3. /\ Calls \in Seq(Call) /\ Len(Calls) \in Nat /\ DOMAIN Calls = 1..Len(Calls)
      /\ \A m, n \in DOMAIN Calls : Calls[m].id = Calls[n].id => m = n
      /\ \A n \in DOMAIN Calls : Calls[n].id \in CallId /\ Calls[n].id \in Ids(turn.batch)
      /\ turn.batch \in Nat
  BY <1>1, BatchFacts DEF IInv, Calls
<1>4. /\ k \in 1 .. Len(Calls) + 1
      /\ turn.at # "tools" => k <= Len(Calls)
      /\ turn.todo = SubSeq(Calls, k, IF turn.at \in Deciding THEN k ELSE Len(Calls))
  BY <1>2 DEF Reached, Calls
<1>5. /\ SubSeq(Calls, k, Len(Calls)) = <<>> => k = Len(Calls) + 1
      /\ k <= Len(Calls) =>
            /\ Head(SubSeq(Calls, k, Len(Calls))) = Calls[k]
            /\ Head(SubSeq(Calls, k, k)) = Calls[k]
            /\ SubSeq(Calls, k, Len(Calls)) # <<>>
  BY <1>3, <1>4, SubSeqFacts
<1>6. ASSUME k <= Len(Calls) PROVE OnCall(k) /\ turn.todo # <<>>
  <2>1. Head(turn.todo) = Calls[k] BY <1>4, <1>5, <1>6
  <2>2. k \in DOMAIN Calls BY <1>3, <1>4, <1>6
  <2>3. Next1 = Calls[k] /\ Current = Name(turn.batch, k) BY <2>1 DEF Next1, Current, Name, Calls
  <2>4. turn.todo # <<>>
    <3>1. CASE turn.at \in Deciding
      <4>1. turn.todo = SubSeq(Calls, k, k) BY <1>4, <3>1
      <4>2. Len(turn.todo) = 1
        <5>1. k \in Int /\ \A i \in k..k : Calls[i] \in Call BY <1>3, <2>2
        <5>2. QED BY <4>1, <5>1, SubSeqProperties
      <4>3. ASSUME turn.todo = <<>> PROVE FALSE
        <5>1. Len(<<>>) = 0 OBVIOUS
        <5>2. QED BY <4>2, <4>3, <5>1
      <4>4. QED BY <4>3
    <3>2. CASE turn.at \notin Deciding BY <1>4, <1>5, <1>6, <3>2
    <3>3. QED BY <3>1, <3>2
  <2>5. QED BY <1>3, <2>2, <2>3, <2>4 DEF OnCall, Name, CallName, Calls
<1>7. ASSUME k > Len(Calls) PROVE turn.todo = <<>>
  <2>1. turn.at = "tools" BY <1>3, <1>4, <1>7
  <2>2. turn.todo = SubSeq(Calls, k, Len(Calls)) BY <1>4, <2>1 DEF Deciding
  <2>3. k \in Int /\ Len(Calls) \in Int /\ Len(Calls) < k BY <1>3, <1>4, <1>7
  <2>4. QED BY <2>2, <2>3, SubSeqEmpty
<1>8. Standing(k) BY <1>1, <1>2, <1>3, <1>4, <1>6, <1>7 DEF Standing
<1>9. QED BY <1>8

\* The turn goes on in its batch.
LEMMA TurnMoved ==
    ASSUME IInv, NEW k \in Nat, Standing(k), NEW l \in {k, k + 1}, NEW g,
           history' = g, batches' = batches, tasks' = tasks, torn' = torn,
           turn.at \in Working \cup Deciding,
           turn'.batch = turn.batch, turn'.at \in Working \cup Deciding, Reached(l)',
           Grows(history, g),
           EndsIn(history, turn.batch) \/ Done(history, turn.batch)
               => EndsIn(g, turn.batch) \/ Done(g, turn.batch),
           turn'.at \in Deciding => turn.at \in Deciding,
           l = k + 1 => (Safe => Answered(g, turn.batch, Calls[k].id))
    PROVE  TurnOK'
<1>1. Safe' <=> Safe BY DEF Safe
<1>2. ASSUME Safe PROVE AnsweredTo(l)'
  <2>1. AnsweredTo(k) BY <1>2 DEF Standing
  <2>2. Contains(history, Batch(turn.batch))' BY <2>1 DEF AnsweredTo, Grows
  <2>3. Others(history, turn.batch)'
    <3>1. Others(g, turn.batch) BY <2>1, GrowsOthers DEF AnsweredTo
    <3>3. QED BY <3>1, Kept
  <2>4. (turn.at \in Deciding => Done(history, turn.batch))'
    <3>1. Done(history, turn.batch) => Done(g, turn.batch) BY DEF Grows, Done
    <3>2. \A c : Done(g, c) => Done(history, c)' BY Kept
    <3>3. QED BY <2>1, <3>1, <3>2 DEF AnsweredTo
  <2>5. (EndsIn(history, turn.batch) \/ Done(history, turn.batch))'
    <3>1. EndsIn(g, turn.batch) \/ Done(g, turn.batch) BY <2>1 DEF AnsweredTo
    <3>2. \A c : Done(g, c) => Done(history, c)' BY Kept
    <3>3. QED BY <3>1, <3>2 DEF EndsIn
  <2>6. \A m \in 1 .. l - 1 : Answered(g, turn.batch, Calls[m].id)
    <3>1. \A m \in 1 .. k - 1 : Answered(g, turn.batch, Calls[m].id) BY <2>1 DEF AnsweredTo, Grows, Calls
    <3>2. \A m \in 1 .. l - 1 : m \in 1 .. k - 1 \/ (m = k /\ l = k + 1) OBVIOUS
    <3>3. QED BY <1>2, <3>1, <3>2
  <2>7. (\A m \in 1 .. l - 1 : Answered(history, turn.batch, batches[turn.batch][m].id))' BY <2>6 DEF Calls
  <2>8. QED BY <2>2, <2>3, <2>4, <2>5, <2>7 DEF AnsweredTo
<1>3. l \in Nat /\ turn'.batch \in DOMAIN batches' BY DEF Standing
<1>4. turn'.at \notin {"loop", "model"} BY DEF Working, Deciding
<1>5. QED BY <1>1, <1>2, <1>3, <1>4 DEF TurnOK

\* A history keeps what it has.
LEMMA SameGrows == \A h : Grows(h, h)
BY DEF Grows

\* The turn goes elsewhere and keeps the lock.
LEMMA Went ==
    ASSUME LockOK, NEW at \in Working \cup Deciding \cup {"start", "loop", "model"},
           Goto(at), tasks' = tasks, tasks # <<>>
    PROVE  /\ LockOK'
           /\ turn'.at = at /\ turn'.batch = turn.batch /\ turn'.todo = turn.todo
BY DEF LockOK, Goto, TurnRecord

\* A call that had no effect yet has it, and none of its batch waits.
LEMMA EffectOK ==
    ASSUME IInv, NEW k \in Nat, Standing(k), turn.todo # <<>>, turn.at \in {"tools", "decided"},
           Effect(Current), batches' = batches, wait' = wait
    PROVE  /\ WaitsOK'
           /\ \A m \in k .. Len(Calls) : Name(turn.batch, m) \in ran' => m = k
           /\ \A c, m : c = turn.batch /\ m \in DOMAIN Calls => ~Awaits(c, m)'
<1> DEFINE b == turn.batch
<1>1. OnCall(k) /\ b \in DOMAIN batches /\ Len(Calls) \in Nat /\ DOMAIN Calls = 1..Len(Calls)
  BY DEF Standing
<1>2. /\ k \in 1 .. Len(Calls) + 1
      /\ \A m \in k .. Len(Calls) : Name(b, m) \notin ran
      /\ \A m \in DOMAIN Calls : ~Awaits(b, m)
  BY DEF Standing, Reached, Calls
<1>3. k \in k .. Len(Calls) /\ Current = Name(b, k) BY <1>1, <1>2 DEF OnCall
<1>4. Current \notin ran /\ ran' = ran \cup {Current} /\ ~ranAgain'
  <2>1. Current \notin ran BY <1>2, <1>3
  <2>2. ~ranAgain BY DEF IInv, WaitsOK
  <2>3. QED BY <2>1, <2>2, Zenon DEF Effect
<1>5. ASSUME NEW m \in DOMAIN Calls, Name(b, m) = Current PROVE m = k
  BY <1>1, <1>3, <1>5 DEF Standing, Name, OnCall, Calls
<1>6. \A c, n : (Awaits(c, n)' <=> Awaits(c, n)) /\ Name(c, n)' = Name(c, n) BY DEF Awaits, Name
<1>7. \A c : Ids(c)' = Ids(c) BY DEF Ids
<1>8. Current \in CallName /\ Current[1] \in DOMAIN batches /\ Current[2] \in Ids(Current[1])
  BY <1>1 DEF OnCall, Current
<1>9. ASSUME NEW c \in DOMAIN batches, NEW n \in DOMAIN batches[c], Awaits(c, n)
      PROVE  /\ \A m \in DOMAIN batches[c] : m >= n => Name(c, m) \notin ran'
             /\ \A m \in DOMAIN batches[c] : Awaits(c, m) => m = n
  <2>1. c # b BY <1>2, <1>9 DEF Calls
  <2>2. \A m : Name(c, m) # Current BY <2>1 DEF Name, Current
  <2>3. QED BY <1>4, <1>9, <2>2 DEF IInv, WaitsOK
<1>10. WaitsOK'
  <2>1. /\ wait' \in [DOMAIN wait' -> {"awaiting", "executing", "gone"}]
        /\ DOMAIN wait' \cup ran' \subseteq CallName
        /\ ~ranAgain'
    BY <1>4, <1>8 DEF IInv, WaitsOK
  <2>2. (\A call \in DOMAIN wait \cup ran : call[1] \in DOMAIN batches /\ call[2] \in Ids(call[1]))'
    BY <1>4, <1>7, <1>8 DEF IInv, WaitsOK
  <2>3. (\A c \in DOMAIN batches : \A n \in DOMAIN batches[c] : Awaits(c, n) =>
            /\ \A m \in DOMAIN batches[c] : m >= n => Name(c, m) \notin ran
            /\ \A m \in DOMAIN batches[c] : Awaits(c, m) => m = n)'
    BY <1>6, <1>9
  <2>4. QED BY <2>1, <2>2, <2>3 DEF WaitsOK
<1>11. \A m \in k .. Len(Calls) : Name(b, m) \in ran' => m = k
  <2>1. \A m \in k .. Len(Calls) : m \in DOMAIN Calls BY <1>1, <1>2
  <2>2. QED BY <1>2, <1>4, <1>5, <2>1
<1>12. QED BY <1>2, <1>6, <1>10, <1>11

\* A call without consent runs: it has not run before.
LEMMA RunToolStep == IInv /\ RunTool => IInv'
<1> SUFFICES ASSUME IInv, RunTool PROVE IInv' OBVIOUS
<1> USE DEF RunTool, At, storeVars
<1>1. turn.at = "tools" /\ turn.at \in Working /\ tasks # <<>> /\ "result" \in Working BY DEF Working
<1>2. PICK k \in Nat : Standing(k) BY <1>1, Here
<1>3. /\ WaitsOK'
      /\ \A m \in k .. Len(Calls) : Name(turn.batch, m) \in ran' => m = k
      /\ \A c, m : c = turn.batch /\ m \in DOMAIN Calls => ~Awaits(c, m)'
  BY <1>1, <1>2, EffectOK
<1>4. LockOK' /\ turn'.at = "result" /\ turn'.batch = turn.batch /\ turn'.todo = turn.todo
  BY <1>1, Went DEF IInv
<1>5. Reached(k)'
  <2>1. /\ k \in 1 .. Len(Calls) + 1 /\ k <= Len(Calls)
        /\ turn.todo = SubSeq(Calls, k, Len(Calls))
    BY <1>1, <1>2 DEF Standing, Reached, Calls, Deciding
  <2>2. QED BY <1>3, <1>4, <2>1 DEF Reached, Calls, Name, Deciding
<1>6. HistoryOK(history)' BY Kept DEF IInv
<1>7. TurnOK' BY <1>1, <1>2, <1>4, <1>5, SameGrows, TurnMoved DEF Deciding
<1>8. QED BY <1>3, <1>4, <1>6, <1>7 DEF IInv

\* The card of a call goes out.
LEMMA SendCardStep == IInv /\ SendCard => IInv'
<1> SUFFICES ASSUME IInv, SendCard PROVE IInv' OBVIOUS
<1> USE DEF SendCard, At, effectVars
<1>1. turn.at = "send" /\ turn.at \in Working /\ tasks # <<>> /\ "suspend" \in Working BY DEF Working
<1>2. PICK k \in Nat : Standing(k) BY <1>1, Here
<1>3. WaitsOK' /\ \A c, n : Awaits(c, n)' => Awaits(c, n) BY SameWaits DEF IInv
<1>4. LockOK' /\ turn'.at = "suspend" /\ turn'.batch = turn.batch /\ turn'.todo = turn.todo
  BY <1>1, Went DEF IInv
<1>5. Reached(k)'
  <2>1. Reached(k) BY <1>2 DEF Standing
  <2>2. QED BY <1>1, <1>3, <1>4, <2>1 DEF Reached, Name, Deciding
<1>6. HistoryOK(history)' BY Kept DEF IInv
<1>7. TurnOK' BY <1>1, <1>2, <1>4, <1>5, SameGrows, TurnMoved DEF Deciding
<1>8. QED BY <1>3, <1>4, <1>6, <1>7 DEF IInv

\* A card that failed takes its row with it.
LEMMA CardFailsStep == IInv /\ CardFails => IInv'
<1> SUFFICES ASSUME IInv, CardFails PROVE IInv' OBVIOUS
<1> USE DEF CardFails, At, effectVars
<1>1. turn.at = "send" /\ turn.at \in Working /\ tasks # <<>> /\ "result" \in Working BY DEF Working
<1>2. PICK k \in Nat : Standing(k) BY <1>1, Here
<1>3. WaitsOK' /\ \A c, n : Awaits(c, n)' => Awaits(c, n)
  <2>1. wait \in [DOMAIN wait -> {"awaiting", "executing", "gone"}] BY DEF IInv, WaitsOK
  <2>2. wait' \in [DOMAIN wait -> {"awaiting", "executing", "gone"}] BY <2>1
  <2>3. \A call \in DOMAIN wait : wait'[call] = "awaiting" => wait[call] = "awaiting" BY <2>1
  <2>4. QED BY <2>2, <2>3, Settled DEF IInv
<1>4. LockOK' /\ turn'.at = "result" /\ turn'.batch = turn.batch /\ turn'.todo = turn.todo
  BY <1>1, Went DEF IInv
<1>5. Reached(k)'
  <2>1. Reached(k) /\ Current = Name(turn.batch, k)
    BY <1>1, <1>2 DEF Standing, Reached, Calls, OnCall
  <2>2. ASSUME NEW m \in DOMAIN Calls PROVE ~Awaits(turn.batch, m)'
    <3>1. CASE Awaits(turn.batch, m)
      <4>1. m = k BY <2>1, <3>1 DEF Reached, Calls
      <4>2. Name(turn.batch, m)' = Current BY <2>1, <4>1, <1>4 DEF Name
      <4>3. Current \in DOMAIN wait => wait'[Current] = "gone" BY DEF IInv, WaitsOK
      <4>4. QED BY <4>2, <4>3, <1>4 DEF Awaits
    <3>2. CASE ~Awaits(turn.batch, m) BY <1>3, <1>4, <3>2
    <3>3. QED BY <3>1, <3>2
  <2>3. QED BY <1>1, <1>4, <2>1, <2>2 DEF Reached, Name, Deciding, Calls
<1>6. HistoryOK(history)' BY Kept DEF IInv
<1>7. TurnOK' BY <1>1, <1>2, <1>4, <1>5, SameGrows, TurnMoved DEF Deciding
<1>8. QED BY <1>3, <1>4, <1>6, <1>7 DEF IInv

\* In a batch where all goes on, the history ends in it or every call has a result.
LEMMA InBatch ==
    ASSUME IInv, NEW k \in Nat, Standing(k), tasks # <<>>
    PROVE  ~torn => EndsIn(history, turn.batch) \/ Done(history, turn.batch)
BY DEF Standing, Safe, AnsweredTo

\* A result is recorded and the turn moves to the next call.
LEMMA RecordResultStep == IInv /\ RecordResult => IInv'
<1> SUFFICES ASSUME IInv, RecordResult PROVE IInv' OBVIOUS
<1> USE DEF RecordResult, At, effectVars
<1>1. turn.at = "result" /\ turn.at \in Working /\ tasks # <<>> /\ "tools" \in Working BY DEF Working
<1>2. PICK k \in Nat : Standing(k) BY <1>1, Here
<1>3. WaitsOK' /\ \A c, n : Awaits(c, n)' => Awaits(c, n) BY SameWaits DEF IInv
<1>4. /\ OnCall(k) /\ Reached(k) /\ k \in 1..Len(Calls) /\ Len(Calls) \in Nat
      /\ Calls \in Seq(Call) /\ turn.todo = SubSeq(Calls, k, Len(Calls))
  BY <1>1, <1>2, SMTT(30) DEF Standing, Reached, Calls, Deciding
<1>5. Tail(turn.todo) = SubSeq(Calls, k + 1, Len(Calls)) /\ Tail(turn.todo) \in Seq(Call)
  <2>1. Tail(turn.todo) = SubSeq(Calls, k + 1, Len(Calls)) BY <1>4, SubSeqFacts, SMTT(30)
  <2>2. k + 1 \in 1 .. Len(Calls) + 1 BY <1>4
  <2>3. SubSeq(Calls, k + 1, Len(Calls)) \in Seq(Call) BY <1>4, <2>2, SubSeqFacts
  <2>4. QED BY <2>1, <2>3
<1>6. turn'.at = "tools" /\ turn'.batch = turn.batch /\ turn'.todo = Tail(turn.todo) /\ LockOK'
  BY <1>1, <1>5 DEF IInv, LockOK, TurnRecord
<1> DEFINE g == Record(history, turn.batch, Next1.id, "done")
<1>7. /\ HistoryOK(g) /\ Grows(history, g)
      /\ EndsIn(history, turn.batch) \/ Done(history, turn.batch)
         => (EndsIn(g, turn.batch) \/ Done(g, turn.batch)) /\ Answered(g, turn.batch, Next1.id)
  <2>1. turn.batch \in DOMAIN batches /\ Next1.id \in Ids(turn.batch) BY <1>2, <1>4 DEF Standing, OnCall
  <2>2. ~torn => EndsIn(history, turn.batch) \/ Done(history, turn.batch) BY <1>1, <1>2, InBatch
  <2>3. QED BY <2>1, <2>2, RecordedOK DEF IInv
<1>8. history' = g OBVIOUS
<1> HIDE DEF g
<1>9. HistoryOK(history)' BY <1>7, <1>8, Kept
<1>10. Reached(k + 1)'
  <2>1. k + 1 \in 1 .. Len(Calls) + 1 BY <1>4
  <2>2. ASSUME NEW m \in k + 1 .. Len(Calls) PROVE Name(turn.batch, m) \notin ran
    <3>1. m \in k .. Len(Calls) /\ m # k BY <1>4
    <3>2. QED BY <1>4, <3>1 DEF Reached, Calls
  <2>3. \A m \in DOMAIN Calls : ~Awaits(turn.batch, m) BY <1>1, <1>4 DEF Reached, Calls
  <2>4. QED BY <1>3, <1>5, <1>6, <2>1, <2>2, <2>3, SMTT(30) DEF Reached, Calls, Name, Deciding
<1>11. Safe => Answered(g, turn.batch, Calls[k].id) BY <1>2, <1>4, <1>7 DEF Standing, AnsweredTo, OnCall
<1>12. TurnOK' BY <1>1, <1>2, <1>6, <1>7, <1>8, <1>10, <1>11, TurnMoved DEF Deciding
<1>13. QED BY <1>3, <1>6, <1>9, <1>12 DEF IInv

\* A call that needs consent waits; neither it nor a later call of its batch ran.
LEMMA AskStep == IInv /\ Ask => IInv'
<1> SUFFICES ASSUME IInv, Ask PROVE IInv' OBVIOUS
<1> USE DEF Ask, At, effectVars
<1>1. turn.at = "tools" /\ turn.at \in Working /\ tasks # <<>> /\ turn.todo # <<>> /\ "send" \in Working
  BY DEF Working
<1>2. PICK k \in Nat : Standing(k) BY <1>1, Here
<1> DEFINE b == turn.batch
<1>3. /\ OnCall(k) /\ k \in 1..Len(Calls) /\ Len(Calls) \in Nat /\ DOMAIN Calls = 1..Len(Calls)
      /\ Reached(k) /\ b \in DOMAIN batches /\ turn.todo = SubSeq(Calls, k, Len(Calls))
  BY <1>1, <1>2 DEF Standing, Reached, Calls, Deciding
<1>4. LockOK' /\ turn'.at = "send" /\ turn'.batch = turn.batch /\ turn'.todo = turn.todo
  BY <1>1, Went DEF IInv
<1>5. /\ DOMAIN wait' = DOMAIN wait \cup {Current} /\ wait'[Current] = "awaiting"
      /\ \A call \in DOMAIN wait : call # Current => wait'[call] = wait[call]
  OBVIOUS
<1>6. Current = Name(b, k) /\ Current \in CallName /\ Current[1] \in DOMAIN batches /\ Current[2] \in Ids(Current[1])
  BY <1>3 DEF OnCall, Current
<1>7. /\ \A m \in k .. Len(Calls) : Name(b, m) \notin ran
      /\ \A m \in DOMAIN Calls : ~Awaits(b, m)
  BY <1>1, <1>3 DEF Reached, Calls
<1>8. \A c, n : Name(c, n)' = Name(c, n) BY DEF Name
<1>9. \A m \in DOMAIN Calls : Name(b, m) = Current => m = k
  BY <1>2, <1>3, <1>6 DEF Standing, Name, Calls
<1>10. ASSUME NEW c, NEW n, Awaits(c, n)' PROVE Awaits(c, n) \/ Name(c, n) = Current
  BY <1>5, <1>8, <1>10 DEF Awaits
<1>11. ASSUME NEW m \in DOMAIN Calls, NEW c, c = b, Awaits(c, m)' PROVE m = k
  BY <1>7, <1>9, <1>10, <1>11
<1>12. ASSUME NEW c \in DOMAIN batches, NEW n \in DOMAIN batches[c], Awaits(c, n)'
       PROVE  /\ \A m \in DOMAIN batches[c] : m >= n => Name(c, m) \notin ran
              /\ \A m \in DOMAIN batches[c] : Awaits(c, m)' => m = n
  <2>1. CASE c = b
    <3>1. n = k BY <1>11, <1>12, <2>1 DEF Calls
    <3>2. \A m \in DOMAIN Calls : m >= k => m \in k .. Len(Calls) BY <1>3
    <3>3. QED BY <1>7, <1>11, <2>1, <3>1, <3>2 DEF Calls
  <2>2. CASE c # b
    <3>1. \A m : Name(c, m) # Current BY <2>2 DEF Name, Current
    <3>2. Awaits(c, n) /\ \A m : Awaits(c, m)' => Awaits(c, m) BY <1>10, <1>12, <3>1
    <3>3. QED BY <3>2 DEF IInv, WaitsOK
  <2>3. QED BY <2>1, <2>2
<1>13. WaitsOK'
  <2>1. \A c : Ids(c)' = Ids(c) BY DEF Ids
  <2>2. wait' \in [DOMAIN wait' -> {"awaiting", "executing", "gone"}]
    <3>1. wait' = [call \in DOMAIN wait' |-> IF call = Current THEN "awaiting" ELSE wait[call]] BY <1>5
    <3>2. \A call \in DOMAIN wait' :
             (IF call = Current THEN "awaiting" ELSE wait[call]) \in {"awaiting", "executing", "gone"}
      BY <1>5 DEF IInv, WaitsOK
    <3>3. QED BY <3>1, <3>2
  <2>3. /\ (DOMAIN wait \cup ran \subseteq CallName)'
        /\ (\A call \in DOMAIN wait \cup ran : call[1] \in DOMAIN batches /\ call[2] \in Ids(call[1]))'
    BY <1>5, <1>6, <2>1 DEF IInv, WaitsOK
  <2>4. (\A c \in DOMAIN batches : \A n \in DOMAIN batches[c] : Awaits(c, n) =>
            /\ \A m \in DOMAIN batches[c] : m >= n => Name(c, m) \notin ran
            /\ \A m \in DOMAIN batches[c] : Awaits(c, m) => m = n)'
    BY <1>8, <1>12
  <2>5. QED BY <2>2, <2>3, <2>4 DEF IInv, WaitsOK
<1>14. Reached(k)'
  <2>1. k \in 1 .. Len(Calls) + 1 /\ k <= Len(Calls) BY <1>3
  <2>2. (\A m \in DOMAIN batches[turn.batch] : Awaits(turn.batch, m) => m = k /\ turn.at \in {"send", "suspend"})'
    BY <1>4, <1>11 DEF Calls
  <2>3. (\A m \in k .. Len(Calls) : Name(turn.batch, m) \in ran => m = k /\ turn.at \in {"result", "complete"})'
    BY <1>4, <1>7 DEF Calls, Name
  <2>4. QED BY <1>3, <1>4, <2>1, <2>2, <2>3 DEF Reached, Calls, Deciding
<1>15. HistoryOK(history)' BY Kept DEF IInv
<1>16. TurnOK' BY <1>1, <1>2, <1>4, <1>14, SameGrows, TurnMoved DEF Deciding
<1>17. QED BY <1>4, <1>13, <1>15, <1>16 DEF IInv

\* The calls without a result get their notes, and the turn ends.
LEMMA SuspendStep == IInv /\ Suspend => IInv'
<1> SUFFICES ASSUME IInv, Suspend PROVE IInv' OBVIOUS
<1> USE DEF Suspend, At, effectVars
<1>1. turn.at \in Working /\ tasks # <<>> BY DEF Working
<1>2. PICK k \in Nat : Standing(k) BY <1>1, Here
<1>3. HistoryOK(Marked(history, turn.batch)) BY <1>1, <1>2, InBatch, MarkedOK DEF IInv, Standing
<1>4. HistoryOK(history)' BY <1>3, Kept
<1>5. WaitsOK' BY SameWaits DEF IInv
<1>6. LockOK' /\ TurnOK' BY <1>1, Released DEF IInv
<1>7. QED BY <1>4, <1>5, <1>6 DEF IInv

\* Past the last call, every call of the batch has its result.
LEMMA ToolsDoneStep == IInv /\ ToolsDone => IInv'
<1> SUFFICES ASSUME IInv, ToolsDone PROVE IInv' OBVIOUS
<1> USE DEF ToolsDone, At, effectVars, storeVars
<1>1. turn.at \in Working /\ tasks # <<>> /\ turn.at = "tools" /\ turn.todo = <<>> BY DEF Working
<1>2. PICK k \in Nat : Standing(k) BY <1>1, Here
<1>3. k = Len(Calls) + 1 /\ turn.batch \in DOMAIN batches
  BY <1>1, <1>2 DEF Standing, Reached, Calls
<1>4. ASSUME Safe PROVE Others(history, 0)
  <2>1. AnsweredTo(k) BY <1>2, <1>4 DEF Standing
  <2>2. Done(history, turn.batch)
    <3>1. \A m \in DOMAIN Calls : m \in 1 .. k - 1 BY <1>2, <1>3 DEF Standing
    <3>2. \A id \in Ids(turn.batch) : \E m \in DOMAIN Calls : id = Calls[m].id BY DEF Ids, Calls
    <3>3. QED BY <2>1, <3>1, <3>2 DEF Done, AnsweredTo, Calls
  <2>3. QED BY <2>1, <2>2 DEF AnsweredTo, Others
<1>5. turn' = [turn EXCEPT !.at = turn'.at] /\ turn'.at \in {"model", "loop"}
  BY DEF Goto, IInv, LockOK, TurnRecord
<1>6. LockOK' BY <1>1, <1>5 DEF IInv, LockOK, TurnRecord
<1>7. TurnOK'
  <2>1. Safe' <=> Safe BY DEF Safe
  <2>2. turn'.at \notin Working \cup Deciding BY <1>5 DEF Working, Deciding
  <2>3. Others(history, 0) => Others(history, 0)' BY Kept
  <2>4. QED BY <1>4, <2>1, <2>2, <2>3 DEF TurnOK
<1>8. HistoryOK(history)' BY Kept DEF IInv
<1>9. WaitsOK' BY SameWaits DEF IInv
<1>10. QED BY <1>6, <1>7, <1>8, <1>9 DEF IInv

\* A cancelled turn leaves notes too.
LEMMA InterruptStep == IInv /\ Interrupt => IInv'
<1> SUFFICES ASSUME IInv, Interrupt PROVE IInv' OBVIOUS
<1> USE DEF Interrupt, effectVars
<1>1. HistoryOK(history')
  <2>1. CASE turn.at \in Working
    <3>1. PICK k \in Nat : Standing(k) BY <2>1, Here
    <3>2. history' = Marked(history, turn.batch) BY <2>1 DEF Working
    <3>3. QED BY <3>1, <3>2, InBatch, MarkedOK DEF IInv, Standing
  <2>2. CASE turn.at \notin Working
    <3>1. history' = history BY <2>2 DEF Working
    <3>2. QED BY <3>1 DEF IInv
  <2>3. QED BY <2>1, <2>2
<1>2. HistoryOK(history)' BY <1>1, Kept
<1>3. WaitsOK'
  <2>1. wait \in [DOMAIN wait -> {"awaiting", "executing", "gone"}] BY DEF IInv, WaitsOK
  <2>2. wait' \in [DOMAIN wait -> {"awaiting", "executing", "gone"}] BY <2>1
  <2>3. \A call \in DOMAIN wait : wait'[call] = "awaiting" => wait[call] = "awaiting" BY <2>1
  <2>4. QED BY <2>2, <2>3, Settled DEF IInv
<1>4. LockOK' /\ TurnOK' BY Released DEF IInv
<1>5. QED BY <1>2, <1>3, <1>4 DEF IInv

\* A call that was decided runs: it waited, so it has not run before.
LEMMA DecideStep == IInv /\ Decide => IInv'
<1> SUFFICES ASSUME IInv, Decide PROVE IInv' OBVIOUS
<1> USE DEF Decide, At, storeVars
<1>1. turn.at = "decided" /\ turn.at \in Deciding /\ tasks # <<>> /\ "complete" \in Deciding BY DEF Deciding
<1>2. PICK k \in Nat : Standing(k) BY <1>1, Here
<1>3. /\ k \in 1 .. Len(Calls) + 1 /\ k <= Len(Calls) /\ turn.todo # <<>>
      /\ turn.todo = SubSeq(Calls, k, k)
  BY <1>1, <1>2 DEF Standing, Reached, Calls
<1>4. /\ WaitsOK'
      /\ \A m \in k .. Len(Calls) : Name(turn.batch, m) \in ran' => m = k
      /\ \A c, m : c = turn.batch /\ m \in DOMAIN Calls => ~Awaits(c, m)'
  BY <1>1, <1>2, <1>3, EffectOK
<1>5. LockOK' /\ turn'.at = "complete" /\ turn'.batch = turn.batch /\ turn'.todo = turn.todo
  BY <1>1, Went DEF IInv
<1>6. Reached(k)' BY <1>1, <1>3, <1>4, <1>5 DEF Reached, Calls, Name
<1>7. HistoryOK(history)' BY Kept DEF IInv
<1>8. TurnOK' BY <1>1, <1>2, <1>5, <1>6, SameGrows, TurnMoved
<1>9. QED BY <1>4, <1>5, <1>7, <1>8 DEF IInv

\* Calls have ids of their own: a call is found where it stands.
LEMMA PlaceOf ==
    ASSUME batches \in Seq(Menu), NEW c \in DOMAIN batches, NEW n \in DOMAIN batches[c]
    PROVE  Place(Name(c, n)) = n
<1> DEFINE I == {i \in 1..Len(batches[c]) : batches[c][i].id = Name(c, n)[2]}
<1>1. /\ DOMAIN batches[c] = 1..Len(batches[c]) /\ Len(batches[c]) \in Nat
      /\ \A i, j \in DOMAIN batches[c] : batches[c][i].id = batches[c][j].id => i = j
  BY BatchFacts
<1>2. Name(c, n)[1] = c /\ Name(c, n)[2] = batches[c][n].id BY DEF Name
<1>3. I = {n} BY <1>1, <1>2
<1>4. Place(Name(c, n)) = IF I # {} THEN Min(I) ELSE 0 BY <1>2 DEF Place, SelectInSeq
<1>5. Min({n}) = n
  <2>1. {n} \in SUBSET Nat BY <1>1
  <2>2. Min({n}) \in {n} BY <2>1, MinOf
  <2>3. QED BY <2>2
<1>6. QED BY <1>3, <1>4, <1>5

\* The result takes the place of the note, and the calls behind it are next.
LEMMA CompleteStep == IInv /\ Complete => IInv'
<1> SUFFICES ASSUME IInv, Complete PROVE IInv' OBVIOUS
<1> USE DEF Complete, At, effectVars
<1>1. turn.at = "complete" /\ turn.at \in Deciding /\ tasks # <<>> /\ "tools" \in Working BY DEF Deciding, Working
<1>2. PICK k \in Nat : Standing(k) BY <1>1, Here
<1>3. WaitsOK' /\ \A c, n : Awaits(c, n)' => Awaits(c, n)
  <2>1. wait \in [DOMAIN wait -> {"awaiting", "executing", "gone"}] BY DEF IInv, WaitsOK
  <2>2. wait' \in [DOMAIN wait -> {"awaiting", "executing", "gone"}] BY <2>1
  <2>3. \A call \in DOMAIN wait : wait'[call] = "awaiting" => wait[call] = "awaiting" BY <2>1
  <2>4. QED BY <2>2, <2>3, Settled DEF IInv
<1>4. /\ OnCall(k) /\ Reached(k) /\ k \in 1..Len(Calls) /\ Len(Calls) \in Nat
      /\ Calls \in Seq(Call) /\ turn.batch \in DOMAIN batches
  BY <1>1, <1>2 DEF Standing, Reached, Calls
<1>5. CallsAfter(Current) = SubSeq(Calls, k + 1, Len(Calls)) /\ CallsAfter(Current) \in Seq(Call)
  <2>1. Current = Name(turn.batch, k) /\ Current[1] = turn.batch BY <1>4 DEF OnCall, Current
  <2>2. Place(Current) = k BY <1>4, <2>1, PlaceOf DEF IInv, OnCall, Calls
  <2>3. CallsAfter(Current) = SubSeq(Calls, k + 1, Len(Calls)) BY <2>1, <2>2 DEF CallsAfter, Calls
  <2>4. k + 1 \in 1 .. Len(Calls) + 1 BY <1>4
  <2>5. SubSeq(Calls, k + 1, Len(Calls)) \in Seq(Call) BY <1>4, <2>4, SubSeqFacts
  <2>6. QED BY <2>3, <2>5
<1>6. turn'.at = "tools" /\ turn'.batch = turn.batch /\ turn'.todo = CallsAfter(Current) /\ LockOK'
  BY <1>1, <1>5 DEF IInv, LockOK, TurnRecord
<1> DEFINE g == Record(history, turn.batch, Next1.id, "done")
<1>7. /\ HistoryOK(g) /\ Grows(history, g)
      /\ EndsIn(history, turn.batch) \/ Done(history, turn.batch)
         => (EndsIn(g, turn.batch) \/ Done(g, turn.batch)) /\ Answered(g, turn.batch, Next1.id)
  <2>1. Next1.id \in Ids(turn.batch) BY <1>4 DEF OnCall
  <2>2. ~torn => EndsIn(history, turn.batch) \/ Done(history, turn.batch) BY <1>1, <1>2, InBatch
  <2>3. QED BY <1>4, <2>1, <2>2, RecordedOK DEF IInv
<1>8. history' = g OBVIOUS
<1> HIDE DEF g
<1>9. HistoryOK(history)' BY <1>7, <1>8, Kept
<1>10. Reached(k + 1)'
  <2>1. k + 1 \in 1 .. Len(Calls) + 1 BY <1>4
  <2>2. ASSUME NEW m \in k + 1 .. Len(Calls) PROVE Name(turn.batch, m) \notin ran
    <3>1. m \in k .. Len(Calls) /\ m # k BY <1>4
    <3>2. QED BY <1>4, <3>1 DEF Reached, Calls
  <2>3. \A m \in DOMAIN Calls : ~Awaits(turn.batch, m) BY <1>1, <1>4 DEF Reached, Calls
  <2>4. QED BY <1>3, <1>5, <1>6, <2>1, <2>2, <2>3 DEF Reached, Calls, Name, Deciding
<1>11. Safe => Answered(g, turn.batch, Calls[k].id) BY <1>2, <1>4, <1>7 DEF Standing, AnsweredTo, OnCall
<1>12. turn'.at \notin Deciding BY <1>6 DEF Deciding
<1>13. TurnOK' BY <1>1, <1>2, <1>6, <1>7, <1>8, <1>10, <1>11, <1>12, TurnMoved
<1>14. QED BY <1>3, <1>6, <1>9, <1>13 DEF IInv

\* A wait is resumed: its batch is in the history, and is whole unless the store is torn.
LEMMA ResumedStep ==
    ASSUME IInv, NEW call \in DOMAIN wait, Resume(call)
    PROVE  IInv'
<1> USE DEF Resume, Holds, effectVars
<1>1. tasks # <<>> /\ Head(tasks).kind = "resume" OBVIOUS
<1>2. WaitsOK' /\ \A c, n : Awaits(c, n)' => Awaits(c, n)
  <2>1. wait \in [DOMAIN wait -> {"awaiting", "executing", "gone"}] BY DEF IInv, WaitsOK
  <2>2. wait' \in [DOMAIN wait -> {"awaiting", "executing", "gone"}] BY <2>1
  <2>3. \A c \in DOMAIN wait : wait'[c] = "awaiting" => wait[c] = "awaiting" BY <2>1
  <2>4. QED BY <2>2, <2>3, Settled DEF IInv
<1>3. HistoryOK(history)'
  <2>1. torn' = torn \/ torn' = (torn \/ Recovered(history) # history) OBVIOUS
  <2>2. ~torn' => ~torn BY <2>1, Zenon
  <2>3. QED BY <2>2, Kept DEF IInv
<1>4. CASE ~(Contains(history, Batch(call[1])) /\ Claimable(call))
  <2>1. Release BY <1>4
  <2>2. LockOK' /\ TurnOK' BY <1>1, <2>1, Released DEF IInv
  <2>3. QED BY <1>2, <1>3, <2>2 DEF IInv
<1>5. CASE Contains(history, Batch(call[1])) /\ Claimable(call)
  <2> DEFINE b == call[1]
  <2>1. /\ wait' = [wait EXCEPT ![call] = "executing"]
        /\ turn' = [at |-> "decided", batch |-> b, todo |-> CallOf(call)]
        /\ torn' = (torn \/ Recovered(history) # history)
        /\ tasks' = tasks
    BY <1>5
  <2>2. call \in CallName /\ b \in DOMAIN batches /\ call[2] \in Ids(b) BY DEF IInv, WaitsOK
  <2>3. /\ b \in Nat /\ batches[b] \in Seq(Call) /\ Len(batches[b]) \in Nat
        /\ DOMAIN batches[b] = 1..Len(batches[b])
        /\ \E n \in DOMAIN batches[b] : call[2] = batches[b][n].id
        /\ \A m, n \in DOMAIN batches[b] : batches[b][m].id = batches[b][n].id => m = n
    BY <2>2, BatchFacts DEF IInv
  <2>4. PICK n \in DOMAIN batches[b] : call[2] = batches[b][n].id BY <2>3
  <2>5. call = Name(b, n) BY <2>2, <2>4 DEF Name, CallName
  <2>6. Place(call) = n BY <2>2, <2>5, PlaceOf DEF IInv
  <2>7. CallOf(call) = SubSeq(batches[b], n, n) BY <2>6 DEF CallOf
  <2>8. CallOf(call) \in Seq(Call)
    <3>1. n \in 1 .. Len(batches[b]) + 1 /\ n <= Len(batches[b]) BY <2>3
    <3>2. QED BY <2>3, <2>7, <3>1, SubSeqFacts
  <2>9. LockOK' BY <1>1, <2>1, <2>3, <2>8 DEF IInv, LockOK, TurnRecord, Deciding
  <2>10. Awaits(b, n) BY <1>5, <2>5 DEF Awaits, Claimable
  <2>11. /\ \A m \in n .. Len(batches[b]) : Name(b, m) \notin ran
         /\ \A m \in DOMAIN batches[b] : Awaits(b, m) => m = n
    <3>1. \A m \in n .. Len(batches[b]) : m \in DOMAIN batches[b] /\ m >= n BY <2>3
    <3>2. QED BY <2>2, <2>10, <3>1 DEF IInv, WaitsOK
  <2>12. ASSUME NEW m \in DOMAIN batches[b], NEW c, c = b, Awaits(c, m)' PROVE FALSE
    <3>1. m = n BY <1>2, <2>11, <2>12
    <3>2. Name(b, n)' = call BY <2>5 DEF Name
    <3>3. wait'[call] = "executing" BY <2>1
    <3>4. QED BY <2>12, <3>1, <3>2, <3>3 DEF Awaits
  <2>13. Reached(n)'
    <3>1. n \in 1 .. Len(batches[b]) + 1 /\ n <= Len(batches[b]) BY <2>3
    <3>2. (\A m \in n .. Len(batches[turn.batch]) : Name(turn.batch, m) \notin ran)'
      BY <2>1, <2>11 DEF Name
    <3>3. (\A m \in DOMAIN batches[turn.batch] : ~Awaits(turn.batch, m))'
      BY <2>1, <2>12
    <3>4. QED BY <2>1, <2>7, <3>1, <3>2, <3>3 DEF Reached, Deciding
  <2>14. ASSUME Safe' PROVE AnsweredTo(n)'
    <3>1. ~torn' BY <1>1, <2>1, <2>14 DEF Safe
    <3>2. Recovered(history) = history BY <2>1, <3>1
    <3>3. Others(history, 0) BY <3>2, Repaired DEF IInv
    <3>4. Done(history, b) BY <1>5, <2>2, <2>3, <3>3, BatchFacts DEF Others, IInv
    <3>5. Others(history, b) BY <3>3, BatchFacts DEF Others, IInv
    <3>6. \A m \in 1 .. n - 1 : Answered(history, b, batches[b][m].id)
      <4>1. \A m \in 1 .. n - 1 : m \in DOMAIN batches[b] BY <2>3
      <4>2. QED BY <3>4, <4>1 DEF Done, Ids
    <3>7. Contains(history, Batch(turn.batch))' BY <1>5, <2>1
    <3>8. Others(history, turn.batch)' /\ Done(history, turn.batch)' BY <2>1, <3>4, <3>5, Kept
    <3>9. (\A m \in 1 .. n - 1 : Answered(history, turn.batch, batches[turn.batch][m].id))' BY <2>1, <3>6
    <3>10. QED BY <3>7, <3>8, <3>9 DEF AnsweredTo
  <2>15. TurnOK'
    <3>1. turn'.batch \in DOMAIN batches' /\ turn'.at = "decided" /\ n \in Nat BY <2>1, <2>2, <2>3
    <3>2. QED BY <2>13, <2>14, <3>1 DEF TurnOK
  <2>16. QED BY <1>2, <1>3, <2>9, <2>15 DEF IInv
<1>6. QED BY <1>4, <1>5

-----------------------------------------------------------------------------
(* The other steps *)

\* Tasks that join the line leave its head where it is.
LEMMA Joining ==
    ASSUME IInv, NEW more \in Seq(TaskRecord), tasks' = more,
           tasks # <<>> => more # <<>> /\ Head(more) = Head(tasks),
           turn' = turn, UNCHANGED <<scenario, storeVars, effectVars, torn>>
    PROVE  IInv'
<1> USE DEF storeVars, effectVars
<1>1. HistoryOK(history)' BY Kept DEF IInv
<1>2. WaitsOK' /\ \A c, n : Awaits(c, n)' => Awaits(c, n) BY SameWaits DEF IInv
<1>3. LockOK'
  <2>1. tasks' = <<>> => turn' = NoTurn BY DEF IInv, LockOK
  <2>2. QED BY <2>1 DEF IInv, LockOK
<1>4. TurnOK'
  <2>1. CASE tasks = <<>>
    <3>1. turn'.at = "start" BY <2>1 DEF IInv, LockOK, NoTurn
    <3>2. QED BY <3>1 DEF TurnOK, Working, Deciding
  <2>2. CASE tasks # <<>>
    <3>1. Safe' <=> Safe BY <2>2 DEF Safe
    <3>2. ASSUME NEW k \in Nat, Reached(k), Safe => AnsweredTo(k)
          PROVE  Reached(k)' /\ (Safe' => AnsweredTo(k)')
      <4>1. Reached(k)' BY <1>2, <3>2 DEF Reached, Name
      <4>2. AnsweredTo(k) => AnsweredTo(k)'
        <5>1. \A c : (Others(history, c) => Others(history, c)') /\ (Done(history, c) => Done(history, c)') BY Kept
        <5>2. QED BY <5>1 DEF AnsweredTo, EndsIn
      <4>3. QED BY <3>1, <3>2, <4>1, <4>2
    <3>3. turn.at \in Working \cup Deciding =>
             turn.batch \in DOMAIN batches /\ \E k \in Nat : Reached(k)' /\ (Safe' => AnsweredTo(k)')
      BY <3>2 DEF IInv, TurnOK
    <3>4. Others(history, 0) => Others(history, 0)' BY Kept
    <3>5. QED BY <3>1, <3>3, <3>4 DEF IInv, TurnOK
  <2>3. QED BY <2>1, <2>2
<1>5. QED BY <1>1, <1>2, <1>3, <1>4 DEF IInv

\* A task at the end of the line.
LEMMA AppendTask ==
    ASSUME NEW s \in Seq(TaskRecord), NEW t \in TaskRecord
    PROVE  /\ Append(s, t) \in Seq(TaskRecord) /\ Append(s, t) # <<>>
           /\ s # <<>> => Head(Append(s, t)) = Head(s)
<1> DEFINE r == Append(s, t)
<1>1. Len(s) \in Nat /\ r \in Seq(TaskRecord) /\ Len(r) = Len(s) + 1 /\ \A i \in 1..Len(s) : r[i] = s[i] OBVIOUS
<1> HIDE DEF r
<1>2. ASSUME r = <<>> PROVE FALSE
  <2>1. Len(<<>>) = 0 OBVIOUS
  <2>2. QED BY <1>1, <1>2, <2>1
<1>3. ASSUME s # <<>> PROVE Head(r) = Head(s)
  <2>1. 1 \in 1..Len(s) /\ Head(s) = s[1] BY <1>3
  <2>2. Head(r) = r[1] BY <1>1, <1>2
  <2>3. QED BY <1>1, <2>1, <2>2
<1>4. QED BY <1>1, <1>2, <1>3 DEF r

\* A click queues a resume.
LEMMA ClickStep ==
    ASSUME IInv, NEW call \in DOMAIN wait, Click(call)
    PROVE  IInv'
<1> DEFINE t == ResumeTask(call)
<1>1. t \in TaskRecord BY DEF IInv, WaitsOK, TaskRecord
<1>2. tasks \in Seq(TaskRecord) BY DEF IInv, LockOK
<1>3. tasks' = Append(tasks, t) /\ turn' = turn /\ UNCHANGED <<scenario, storeVars, effectVars, torn>> BY DEF Click
<1> HIDE DEF t
<1>4. QED BY <1>1, <1>2, <1>3, AppendTask, Joining

\* A message queues a turn, and may take the place of one that only waited.
LEMMA DeliverStep ==
    ASSUME IInv, NEW m \in Message \cup {"clear", "compact"}, Deliver(m)
    PROVE  IInv'
<1> DEFINE t == MessageTask(m)
           last == IF scenario.private /\ Messages # {} THEN Max(Messages) ELSE 0
           line == IF last > 1 THEN RemoveAt(tasks, last) ELSE tasks
<1>1. t \in TaskRecord BY DEF TaskRecord
<1>2. tasks \in Seq(TaskRecord) /\ Len(tasks) \in Nat /\ DOMAIN tasks = 1..Len(tasks) BY DEF IInv, LockOK
<1>3. tasks' = Append(line, t) /\ turn' = turn /\ UNCHANGED <<scenario, storeVars, effectVars, torn>> BY DEF Deliver
<1>4. last = 0 \/ last \in DOMAIN tasks
  <2>1. Messages \in SUBSET Nat /\ Messages \subseteq DOMAIN tasks /\ \A n \in Messages : n <= Len(tasks)
    BY <1>2 DEF Messages
  <2>2. Messages # {} => Max(Messages) \in Messages BY <1>2, <2>1, MaxOf
  <2>3. QED BY <2>1, <2>2
<1> HIDE DEF t, last
<1>5. line \in Seq(TaskRecord) /\ (tasks # <<>> => line # <<>> /\ Head(line) = Head(tasks))
  <2>1. CASE last > 1
    <3>1. last \in 2..Len(tasks) /\ tasks # <<>> BY <1>2, <1>4, <2>1
    <3>2. line = SubSeq(tasks, 1, last - 1) \o SubSeq(tasks, last + 1, Len(tasks)) BY <2>1 DEF RemoveAt
    <3> DEFINE a == SubSeq(tasks, 1, last - 1)  b == SubSeq(tasks, last + 1, Len(tasks))
    <3>3. a \in Seq(TaskRecord) /\ Len(a) = last - 1 /\ a[1] = tasks[1]
      <4>1. 1 \in Int /\ last - 1 \in Int /\ \A i \in 1..last-1 : tasks[i] \in TaskRecord BY <1>2, <3>1
      <4>2. /\ a \in Seq(TaskRecord) /\ Len(a) = (IF 1 <= last - 1 THEN (last - 1) - 1 + 1 ELSE 0)
            /\ \A i \in 1..((last - 1) - 1 + 1) : a[i] = tasks[1 + i - 1]
        <5> HIDE DEF a
        <5>1. QED BY <4>1, SubSeqProperties DEF a
      <4>3. 1 \in 1..((last - 1) - 1 + 1) BY <3>1
      <4> HIDE DEF a
      <4>4. QED BY <3>1, <4>2, <4>3
    <3>4. b \in Seq(TaskRecord)
      <4>1. last + 1 \in Int /\ Len(tasks) \in Int /\ \A i \in last+1..Len(tasks) : tasks[i] \in TaskRecord
        BY <1>2, <3>1
      <4>2. QED BY <4>1, SubSeqProperties
    <3> HIDE DEF a, b
    <3>5. a \o b \in Seq(TaskRecord) /\ Len(a \o b) = Len(a) + Len(b) /\ (a \o b)[1] = a[1]
      <4>1. Len(a) \in Nat /\ Len(b) \in Nat /\ 1 \in 1..Len(a) BY <3>1, <3>3, <3>4
      <4>2. QED BY <3>3, <3>4, <4>1
    <3>6. a \o b # <<>>
      <4>1. Len(b) \in Nat BY <3>4
      <4>2. ASSUME a \o b = <<>> PROVE FALSE
        <5>1. Len(<<>>) = 0 OBVIOUS
        <5>2. QED BY <3>1, <3>3, <3>5, <4>1, <4>2, <5>1
      <4>3. QED BY <4>2
    <3>7. Head(a \o b) = (a \o b)[1] /\ Head(tasks) = tasks[1] BY <1>2, <3>1, <3>5, <3>6
    <3>8. line = a \o b BY <3>2 DEF a, b
    <3>9. QED BY <3>3, <3>5, <3>6, <3>7, <3>8
  <2>2. CASE ~(last > 1) BY <1>2, <2>2
  <2>3. QED BY <2>1, <2>2
<1> HIDE DEF line
<1>6. /\ Append(line, t) \in Seq(TaskRecord)
      /\ tasks # <<>> => Append(line, t) # <<>> /\ Head(Append(line, t)) = Head(tasks)
  BY <1>1, <1>5, AppendTask
<1>7. QED BY <1>3, <1>6, Joining

\* An empty history is a good one.
LEMMA EmptyHistory == HistoryOK(<<>>)
<1>1. <<>> \in Seq(Entry) /\ DOMAIN <<>> = {} OBVIOUS
<1>2. QED BY <1>1 DEF HistoryOK, EntriesOK, Placed

\* The invariant holds at the start.
LEMMA InitOK == TurnsInit => IInv
<1> SUFFICES ASSUME TurnsInit PROVE IInv OBVIOUS
<1> USE DEF TurnsInit
<1>1. HistoryOK(history) BY EmptyHistory
<1>2. batches \in Seq(Menu) /\ DOMAIN batches = {} OBVIOUS
<1>3. WaitsOK
  <2>1. DOMAIN wait = {} /\ wait \in [DOMAIN wait -> {"awaiting", "executing", "gone"}] OBVIOUS
  <2>2. QED BY <1>2, <2>1 DEF WaitsOK
<1>4. LockOK BY DEF LockOK, NoTurn, TurnRecord
<1>5. TurnOK BY DEF TurnOK, NoTurn, Working, Deciding
<1>6. QED BY <1>1, <1>2, <1>3, <1>4, <1>5 DEF IInv

\* A message turn begins with a repaired history.
LEMMA BeginStep ==
    ASSUME IInv, NEW m \in Message, Begin(m)
    PROVE  IInv'
<1> USE DEF Begin, Holds, effectVars
<1>1. PICK h \in {history, <<>>} : history' = Recorded(Recovered(h), m) OBVIOUS
<1>2. HistoryOK(h) BY EmptyHistory DEF IInv
<1> DEFINE g == Recovered(h)
<1>3. HistoryOK(g) /\ Others(g, 0) BY <1>2, Repaired DEF IInv
<1> HIDE DEF g
<1>4. HistoryOK(Recorded(g, m)) /\ Others(Recorded(g, m), 0)
  <2>1. CASE Contains(g, User(m)) BY <1>3, <2>1 DEF Recorded
  <2>2. CASE ~Contains(g, User(m))
    <3>1. User(m) \in Entry /\ User(m).role = "user" BY EntryFacts
    <3>2. HistoryOK(Append(g, User(m))) /\ Grows(g, Append(g, User(m))) BY <1>3, <2>2, <3>1, AppendedOK
    <3>3. Others(Append(g, User(m)), 0) BY <1>3, <3>2, GrowsOthers
    <3>4. QED BY <2>2, <3>2, <3>3 DEF Recorded
  <2>3. QED BY <2>1, <2>2
<1>5. history' = Recorded(g, m) BY <1>1 DEF g
<1>6. HistoryOK(history)' /\ Others(history, 0)' BY <1>4, <1>5, Kept
<1>7. WaitsOK' BY SameWaits DEF IInv
<1>8. LockOK' /\ turn'.at = "loop" BY Went DEF IInv
<1>9. TurnOK' BY <1>6, <1>8 DEF TurnOK, Working, Deciding
<1>10. QED BY <1>6, <1>7, <1>8, <1>9 DEF IInv

\* A command clears or summarizes the history.
LEMMA RunCommandStep ==
    ASSUME IInv, NEW command, RunCommand(command)
    PROVE  IInv'
<1> USE DEF RunCommand, Holds, effectVars
<1>1. HistoryOK(history') BY EmptyHistory, CompactedOK DEF IInv
<1>2. HistoryOK(history)' BY <1>1, Kept
<1>3. WaitsOK' BY SameWaits DEF IInv
<1>4. LockOK' /\ TurnOK' BY Released DEF IInv
<1>5. QED BY <1>2, <1>3, <1>4 DEF IInv

\* The history may be summarized before the model is called.
LEMMA EnterLoopStep == IInv /\ EnterLoop => IInv'
<1> SUFFICES ASSUME IInv, EnterLoop PROVE IInv' OBVIOUS
<1> USE DEF EnterLoop, At, effectVars
<1>1. HistoryOK(history') /\ (Others(history, 0) => Others(history', 0)) BY CompactedOK DEF IInv
<1>2. HistoryOK(history)' /\ (Others(history', 0) => Others(history, 0)') BY <1>1, Kept
<1>3. WaitsOK' BY SameWaits DEF IInv
<1>4. LockOK' /\ turn'.at = "model" BY Went DEF IInv
<1>5. TurnOK'
  <2>1. Safe' <=> Safe BY DEF Safe
  <2>2. Safe => Others(history, 0) BY DEF IInv, TurnOK
  <2>3. QED BY <1>1, <1>2, <1>4, <2>1, <2>2 DEF TurnOK, Working, Deciding
<1>6. QED BY <1>2, <1>3, <1>4, <1>5 DEF IInv

\* The model answers.
LEMMA ModelAnswersStep == IInv /\ ModelAnswers => IInv'
<1> SUFFICES ASSUME IInv, ModelAnswers PROVE IInv' OBVIOUS
<1> USE DEF ModelAnswers, At, effectVars
<1>1. HistoryOK(Append(history, Answer)) BY EntryFacts, AppendedOK DEF IInv
<1>2. HistoryOK(history)' BY <1>1, Kept
<1>3. WaitsOK' BY SameWaits DEF IInv
<1>4. LockOK' /\ TurnOK' BY Released DEF IInv
<1>5. QED BY <1>2, <1>3, <1>4 DEF IInv

\* The model gives no answer.
LEMMA ModelFailsStep == IInv /\ ModelFails => IInv'
<1> SUFFICES ASSUME IInv, ModelFails PROVE IInv' OBVIOUS
<1> USE DEF ModelFails, At, storeVars, effectVars
<1>1. HistoryOK(history)' BY Kept DEF IInv
<1>2. WaitsOK' BY SameWaits DEF IInv
<1>3. LockOK' /\ TurnOK' BY Released DEF IInv
<1>4. QED BY <1>1, <1>2, <1>3 DEF IInv

\* The process dies: the store stays.
LEMMA CrashStep == IInv /\ Crash => IInv'
<1> SUFFICES ASSUME IInv, Crash PROVE IInv' OBVIOUS
<1> USE DEF Crash, storeVars, effectVars
<1>1. HistoryOK(history)' BY Kept DEF IInv
<1>2. WaitsOK' BY SameWaits DEF IInv
<1>3. tasks' \in Seq(TaskRecord) OBVIOUS
<1>4. LockOK' /\ TurnOK' BY <1>3, Idle DEF IInv
<1>5. QED BY <1>1, <1>2, <1>4 DEF IInv

\* The model asks for a batch: a new id, at the end of the history.
LEMMA ModelCallsStep == IInv /\ ModelCalls => IInv'
<1> SUFFICES ASSUME IInv, ModelCalls PROVE IInv' OBVIOUS
<1> USE DEF ModelCalls, At, effectVars
<1>0. PICK new : new = Len(batches) + 1 OBVIOUS
<1>1. PICK calls \in Menu :
         /\ batches' = Append(batches, calls)
         /\ history' = Append(history, Batch(new))
         /\ turn' = [at |-> "tools", batch |-> new, todo |-> calls]
  BY <1>0
<1>2. /\ batches \in Seq(Menu) /\ Len(batches) \in Nat /\ DOMAIN batches = 1..Len(batches)
      /\ calls \in Seq(Call) /\ Len(calls) \in Nat /\ DOMAIN calls = 1..Len(calls)
  <2>1. batches \in Seq(Menu) BY DEF IInv
  <2>2. calls \in Seq(Call) BY TurnsAssumption DEF Call
  <2>3. QED BY <2>1, <2>2
<1>3. /\ batches' \in Seq(Menu) /\ DOMAIN batches' = DOMAIN batches \cup {new}
      /\ new \in Nat /\ new # 0 /\ new \notin DOMAIN batches
      /\ batches'[new] = calls /\ \A c \in DOMAIN batches : batches'[c] = batches[c]
  BY <1>0, <1>1, <1>2
<1>4. \A c \in DOMAIN batches : Ids(c)' = Ids(c) BY <1>3 DEF Ids
<1> DEFINE g == Append(history, Batch(new))
<1>5. history \in Seq(Entry) /\ EntriesOK(history) /\ (~torn => Placed(history)) BY DEF IInv, HistoryOK
<1>6. ~Contains(history, Batch(new))
  <2> SUFFICES ASSUME Contains(history, Batch(new)) PROVE FALSE OBVIOUS
  <2>1. PICK i \in 1..Len(history) : history[i] = Batch(new) BY <1>5, Spans
  <2>2. i \in DOMAIN history /\ history[i].role = "assistant" /\ history[i].of = new BY <1>5, <2>1, EntryFacts
  <2>3. QED BY <1>3, <1>5, <2>2 DEF EntriesOK
<1>7. Batch(new) \in Entry /\ Batch(new).role = "assistant" /\ Batch(new).of = new BY <1>3, EntryFacts
<1>8. /\ g \in Seq(Entry)
      /\ \A d, id : Answered(history, d, id) => Answered(g, d, id)
      /\ \A d : Contains(g, Batch(d)) <=> Contains(history, Batch(d)) \/ Batch(new) = Batch(d)
      /\ EndsIn(g, new)
      /\ Placed(history) => Placed(g)
  BY <1>5, <1>7, Appended
<1>9. EntriesOK(history)'
  <2>1. /\ Len(history) \in Nat /\ DOMAIN history = 1..Len(history) /\ DOMAIN g = 1..Len(history)+1
        /\ g[Len(history)+1] = Batch(new)
        /\ \A i \in 1..Len(history) : g[i] = history[i] /\ history[i] \in Entry
    BY <1>5, <1>7
  <2>2. \A i \in 1..Len(history)+1 : i \in 1..Len(history) \/ i = Len(history)+1 BY <2>1
  <2> HIDE DEF g
  <2>3. history' = g BY <1>1 DEF g
  <2>4. \A i \in DOMAIN g : g[i].role \in {"assistant", "tool"} => g[i].of \in DOMAIN batches'
    BY <1>3, <1>5, <1>7, <2>1, <2>2 DEF EntriesOK
  <2>5. \A i \in DOMAIN g : g[i].role = "tool" => i \in DOMAIN history /\ g[i] = history[i]
    BY <1>7, <2>1, <2>2
  <2>6. (\A i \in DOMAIN history : history[i].role = "tool" => history[i].id \in Ids(history[i].of))'
    <3>1. ASSUME NEW i \in DOMAIN g, g[i].role = "tool", NEW c, c = g[i].of PROVE g[i].id \in Ids(c)'
      <4>1. i \in DOMAIN history /\ g[i] = history[i] BY <2>5, <3>1
      <4>2. c \in DOMAIN batches /\ g[i].id \in Ids(c) BY <1>5, <3>1, <4>1 DEF EntriesOK
      <4>3. QED BY <1>4, <4>2
    <3>2. QED BY <2>3, <3>1 DEF Ids
  <2>7. ASSUME NEW i \in DOMAIN g, NEW j \in DOMAIN g, g[i].role \in {"user", "assistant"}, g[i] = g[j]
        PROVE  i = j
    <3>1. CASE i \in 1..Len(history) /\ j \in 1..Len(history) BY <1>5, <2>1, <2>7, <3>1 DEF EntriesOK
    <3>2. CASE i = Len(history)+1 /\ j \in 1..Len(history) BY <1>5, <1>6, <2>1, <2>7, <3>2, Spans
    <3>3. CASE i \in 1..Len(history) /\ j = Len(history)+1 BY <1>5, <1>6, <2>1, <2>7, <3>3, Spans
    <3>4. QED BY <2>1, <2>2, <3>1, <3>2, <3>3
  <2>8. QED BY <2>3, <2>4, <2>6, <2>7 DEF EntriesOK
<1>10. HistoryOK(history)'
  <2>1. history' = g BY <1>1
  <2> HIDE DEF g
  <2>2. Placed(g) => Placed(history)' BY <2>1, ZenonT(60) DEF Placed, Slice
  <2>3. QED BY <1>5, <1>8, <1>9, <2>1, <2>2 DEF HistoryOK
<1>11. \A c \in DOMAIN batches : \A n \in DOMAIN batches[c] : Name(c, n)' = Name(c, n)
  BY <1>3 DEF Name
<1>12. \A n : Name(new, n)' \notin DOMAIN wait \cup ran
  <2>1. \A n : Name(new, n)'[1] = new BY <1>3 DEF Name
  <2>2. QED BY <1>3, <2>1 DEF IInv, WaitsOK
<1>13. WaitsOK'
  <2>1. /\ wait' \in [DOMAIN wait' -> {"awaiting", "executing", "gone"}]
        /\ DOMAIN wait' \cup ran' \subseteq CallName
        /\ ~ranAgain'
    BY DEF IInv, WaitsOK
  <2>2. (\A call \in DOMAIN wait \cup ran : call[1] \in DOMAIN batches /\ call[2] \in Ids(call[1]))'
    BY <1>3, <1>4 DEF IInv, WaitsOK
  <2>3. ASSUME NEW c \in DOMAIN batches', NEW n \in DOMAIN batches'[c], Awaits(c, n)'
        PROVE  /\ (\A m \in DOMAIN batches[c] : m >= n => Name(c, m) \notin ran)'
               /\ (\A m \in DOMAIN batches[c] : Awaits(c, m) => m = n)'
    <3>1. c # new BY <1>12, <2>3 DEF Awaits
    <3>2. c \in DOMAIN batches /\ batches'[c] = batches[c] BY <1>3, <3>1
    <3>3. \A m \in DOMAIN batches[c] : Awaits(c, m)' <=> Awaits(c, m) BY <1>11, <3>2 DEF Awaits
    <3>4. QED BY <1>11, <2>3, <3>2, <3>3 DEF IInv, WaitsOK
  <2>4. QED BY <2>1, <2>2, <2>3 DEF WaitsOK
<1>14. LockOK' BY <1>1, <1>2, <1>3 DEF IInv, LockOK, TurnRecord, Working
<1>15. Reached(1)'
  <2>1. 1 \in 1 .. Len(calls) + 1 /\ calls = SubSeq(calls, 1, Len(calls)) BY <1>2, SubSeqFacts
  <2>2. (\A m : Name(turn.batch, m) \notin DOMAIN wait \cup ran)' BY <1>1, <1>12 DEF Name
  <2>3. QED BY <1>1, <1>3, <2>1, <2>2 DEF Reached, Awaits, Deciding
<1>16. ASSUME Safe' PROVE AnsweredTo(1)'
  <2>1. Others(history, 0)
    <3>1. Safe BY <1>16 DEF Safe
    <3>2. QED BY <3>1 DEF IInv, TurnOK
  <2>2. (Contains(history, Batch(turn.batch)) /\ EndsIn(history, turn.batch))' BY <1>1, <1>8 DEF EndsIn
  <2>3. Others(history, turn.batch)'
    <3>1. ASSUME NEW d \in DOMAIN batches', d # new, Contains(g, Batch(d)), NEW id \in Ids(d)' PROVE Answered(g, d, id)
      <4>1. d \in DOMAIN batches /\ d # 0 /\ Ids(d)' = Ids(d) BY <1>2, <1>3, <1>4, <3>1
      <4>2. Batch(d) # Batch(new) BY <1>7, <3>1, EntryFacts
      <4>3. Contains(history, Batch(d)) BY <1>8, <3>1, <4>2
      <4>4. QED BY <1>8, <2>1, <3>1, <4>1, <4>3 DEF Others, Done
    <3>2. history' = g /\ turn'.batch = new BY <1>1
    <3> HIDE DEF g
    <3>3. QED BY <3>1, <3>2 DEF Others, Done
  <2>4. turn'.at \notin Deciding /\ 1 .. 1 - 1 = {} BY <1>1 DEF Deciding
  <2>5. QED BY <2>2, <2>3, <2>4 DEF AnsweredTo
<1>17. TurnOK'
  <2>1. turn'.at = "tools" /\ turn'.batch \in DOMAIN batches' /\ 1 \in Nat BY <1>1, <1>3
  <2>2. QED BY <1>15, <1>16, <2>1 DEF TurnOK
<1>18. QED BY <1>3, <1>10, <1>13, <1>14, <1>17 DEF IInv

-----------------------------------------------------------------------------
(* The invariant, and what follows from it *)

\* Every step keeps the invariant.
LEMMA NextStep == IInv /\ [TurnsNext]_turnVars => IInv'
<1> SUFFICES ASSUME IInv, [TurnsNext]_turnVars PROVE IInv' OBVIOUS
<1>1. ASSUME NEW m \in Message, Deliver(m) \/ Begin(m) PROVE IInv' BY <1>1, DeliverStep, BeginStep
<1>2. ASSUME NEW command \in scenario.commands, Deliver(command) \/ RunCommand(command) PROVE IInv'
  <2>1. command \in {"clear", "compact"} BY TurnsAssumption DEF IInv
  <2>2. QED BY <1>2, <2>1, DeliverStep, RunCommandStep
<1>3. CASE ModelStep
  BY <1>3, EnterLoopStep, ModelCallsStep, ModelAnswersStep, ModelFailsStep DEF ModelStep
<1>4. CASE ToolStep
  BY <1>4, RunToolStep, RecordResultStep, AskStep, SendCardStep, CardFailsStep, SuspendStep, ToolsDoneStep,
     InterruptStep DEF ToolStep
<1>5. CASE ResumeStep
  BY <1>5, DecideStep, CompleteStep, ClickStep, ResumedStep DEF ResumeStep
<1>6. CASE Crash BY <1>6, CrashStep
<1>7. CASE UNCHANGED turnVars
  <2>1. tasks \in Seq(TaskRecord) BY DEF IInv, LockOK
  <2>2. QED BY <1>7, <2>1, Joining DEF turnVars, lockVars, storeVars, effectVars
<1>8. QED BY <1>1, <1>2, <1>3, <1>4, <1>5, <1>6, <1>7 DEF TurnsNext, MessageStep

\* Histories, waits, the line at the session lock and the turn that holds it fit together
\* in every state, for any menu, bounds and summarize_keep_recent.
THEOREM TurnsInvariant == TurnsSpec => []IInv
<1>1. TurnsInit => IInv BY InitOK
<1>2. IInv /\ [TurnsNext]_turnVars => IInv' BY NextStep
<1>3. QED BY <1>1, <1>2, PTL DEF TurnsSpec

\* A call of a batch in the history has its result when every call of the others has.
LEMMA OthersAnswered == ASSUME IInv, Others(history, 0) PROVE AllAnswered
<1>1. \A c \in DOMAIN batches : c # 0 BY BatchFacts DEF IInv
<1>2. QED BY <1>1 DEF AllAnswered, InHistory, Others, Done

\* A message turn sends the model no tool call without its result: the history is repaired
\* when the turn begins (_recover_interrupted_tool_calls), and each batch of the turn is
\* through before the model is called again.
THEOREM AnsweredBeforeModel == TurnsSpec => []MessageTurnsWellFormed
<1>1. IInv => MessageTurnsWellFormed
  <2> SUFFICES ASSUME IInv, Holds("message", "model") PROVE AllAnswered BY DEF MessageTurnsWellFormed
  <2>1. Safe /\ turn.at = "model" BY DEF Holds, Safe
  <2>2. QED BY <2>1, OthersAnswered DEF IInv, TurnOK
<1>2. QED BY <1>1, TurnsInvariant, PTL

\* What turns_resume refutes fails in one way only: a wait was resumed over calls that a
\* crash had left without a result.  Until then the promise holds for resumed turns too.
THEOREM OnlyTorn == TurnsSpec => [](~torn => TurnsWellFormed)
<1>1. IInv => (~torn => TurnsWellFormed)
  <2> SUFFICES ASSUME IInv, ~torn, At("model") PROVE AllAnswered BY DEF TurnsWellFormed
  <2>1. Safe /\ turn.at = "model" BY DEF At, Safe
  <2>2. QED BY <2>1, OthersAnswered DEF IInv, TurnOK
<1>2. QED BY <1>1, TurnsInvariant, PTL

\* A result stays behind the batch it belongs to, once per call, wherever summaries cut,
\* repairs insert and waits are resumed late.
THEOREM ResultsStay == TurnsSpec => []ResultsInBatch
<1>1. IInv => ResultsInBatch BY DEF IInv, HistoryOK, Placed, ResultsInBatch
<1>2. QED BY <1>1, TurnsInvariant, PTL

\* No call has its effect twice and no message is in the history twice: a call that may
\* still be decided has not run, nor has any behind it in its batch.
THEOREM OnceEach == TurnsSpec => []NothingTwice
<1>1. IInv => NothingTwice BY DEF IInv, HistoryOK, EntriesOK, WaitsOK, NothingTwice
<1>2. QED BY <1>1, TurnsInvariant, PTL

=============================================================================
