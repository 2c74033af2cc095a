-------------------------- MODULE AgentToolsProofs --------------------------
(***************************************************************************)
(* Theorems about the tokens of the client of AgentTools and about what    *)
(* its tools write, for every number of callers, every menu of flows,      *)
(* every choice of tools and every bound.                                  *)
(*                                                                         *)
(* Two facts carry the tokens. A caller that fetches holds the lock, and   *)
(* all that the cache held had expired when it asked (HolderOK). A request *)
(* that carries an app token may be retried until a time that lies before  *)
(* the end of the token, because the token was still cached when the       *)
(* request was made and the offset covers what may pass since (TokenOK).   *)
(*                                                                         *)
(* Three carry the writes. A write that may not be repeated has not been   *)
(* applied while its call goes on, since only an answer that says it was   *)
(* not leads to a retry (WriteOK). The operations that a handler has left  *)
(* bound what it still writes, and with most tools only the last one does  *)
(* (Within, LastWrite). And a turn has written nothing until a run ends it *)
(* (SpentOK).                                                              *)
(***************************************************************************)
EXTENDS AgentTools, FiniteSetTheorems, TLAPS

Field ==
    {"at", "view", "flow", "own", "left", "purpose", "tok", "page", "attempt", "asked",
     "sent", "until", "wake", "done", "total", "writes", "touched", "result"}

IsCall(s) == s = [f \in Field |-> s[f]]

Grant == [asked : Nat, expires : Nat, end : Nat, long : BOOLEAN]

Pending(s) == s.at \in {"flight", "sleep"}

Fetching(s) == Pending(s) /\ s.purpose # "op"

\* The cache holds the token granted last.
CacheOK ==
    /\ grants \in Seq(Grant)
    /\ Len(grants) <= MaxGrants
    /\ cache \in [value : Nat, expires : Nat]
    /\ cache.value = Len(grants)
    /\ IF cache.value = NoToken THEN cache.expires = 0 ELSE grants[cache.value].expires = cache.expires
    /\ \A g \in DOMAIN grants : grants[g].expires <= cache.expires
    /\ \A g \in DOMAIN grants : grants[g].long => grants[g].expires + Budget <= grants[g].end

\* Times and tokens of a call.
CallType(s) ==
    /\ IsCall(s)
    /\ s.asked \in Nat /\ s.sent \in Nat /\ s.until \in Nat /\ s.wake \in Nat
    /\ s.tok \in 0..Len(grants) \cup {UserToken}
    /\ s.at = "flight" => s.sent <= clock /\ clock <= s.sent + Timeout /\ s.sent <= s.until
    /\ s.at = "sleep" => clock <= s.wake /\ s.wake <= s.until

\* What a pending request carries is not ended before the last retry.
TokenOK(s) ==
    Pending(s) /\ s.purpose = "op" /\ s.tok \in DOMAIN grants =>
        (grants[s.tok].long => s.until < grants[s.tok].end)

HolderOK(c) ==
    Fetching(call[c]) => lock = c /\ cache.expires <= call[c].asked /\ call[c].asked <= clock

CInv ==
    /\ clock \in Nat
    /\ DOMAIN call = Caller /\ call = [c \in Caller |-> call[c]]
    /\ CacheOK
    /\ FetchedOnce
    /\ \A c \in Caller : CallType(call[c]) /\ TokenOK(call[c]) /\ HolderOK(c)

\* A call that nothing has been sent for, or that just made its request.
Opened(s) ==
    /\ IsCall(s)
    /\ s.at \in {"idle", "over", "lock", "flight"}
    /\ s.asked \in Nat /\ s.sent \in Nat /\ s.until \in Nat /\ s.wake \in Nat
    /\ s.tok \in 0..Len(grants) \cup {UserToken}
    /\ s.at = "flight" =>
          /\ s.purpose = "op" /\ s.sent = clock /\ s.until = clock + Budget
          /\ s.tok \in DOMAIN grants => Fresh /\ s.tok = cache.value

\* A call between two requests, with the fields that matter here.
Settling(s) ==
    /\ IsCall(s)
    /\ s.asked \in Nat /\ s.sent \in Nat /\ s.until \in Nat /\ s.wake \in Nat
    /\ s.tok \in 0..Len(grants) \cup {UserToken}

-----------------------------------------------------------------------------
\* The bounds of the client are numbers.
LEMMA Numbers ==
    /\ Budget \in Nat /\ Timeout \in Nat /\ Offset \in Nat /\ MinTtl \in Nat /\ MaxGrants \in Nat
    /\ Offset >= Timeout + Budget
    /\ UserToken \in Nat /\ UserToken > MaxGrants
    /\ \A life \in Nat : Ttl(life) \in Nat
  BY ClientAssumption DEF ClientAssumption, UserToken, Ttl

\* A request just made, for an operation or a fetch.
LEMMA SentFields ==
    ASSUME NEW s, IsCall(s), NEW p, NEW t
    PROVE  LET r == Sent(s, p, t) IN
           /\ IsCall(r) /\ r.at = "flight" /\ r.purpose = p /\ r.tok = t
           /\ r.sent = clock /\ r.until = clock + Budget
           /\ r.asked = s.asked /\ r.wake = s.wake
  BY DEF Sent, IsCall, Field

\* The end of a call leaves nothing pending.
LEMMA OverFields ==
    ASSUME NEW s, IsCall(s), NEW k
    PROVE  LET r == Over(s, k) IN
           /\ IsCall(r) /\ r.at = "over" /\ r.tok = NoToken
           /\ r.asked = 0 /\ r.sent = 0 /\ r.until = 0 /\ r.wake = 0
  BY ZenonT(40) DEF Over, IsCall, Field

\* What an answer records of a write touches neither the times nor the token.
LEMMA AppliedFields ==
    ASSUME NEW s, IsCall(s), NEW e
    PROVE  LET r == Applied(s, e) IN
           /\ IsCall(r) /\ r.at = s.at /\ r.purpose = s.purpose /\ r.tok = s.tok
           /\ r.asked = s.asked /\ r.sent = s.sent /\ r.until = s.until /\ r.wake = s.wake
  BY DEF Applied, IsCall, Field

\* Nor does the start of a call.
LEMMA StartingFields ==
    ASSUME NEW s, IsCall(s), NEW view, NEW flow, NEW own, NEW total
    PROVE  LET r == Starting(s, view, flow, own, total) IN
           /\ IsCall(r) /\ r.at = s.at /\ r.purpose = s.purpose /\ r.tok = s.tok
           /\ r.asked = s.asked /\ r.sent = s.sent /\ r.until = s.until /\ r.wake = s.wake
  BY ZenonT(40) DEF Starting, IsCall, Field

\* An operation that begins presents no token, the user's or the cached one, or waits.
LEMMA WithTokenOpened ==
    ASSUME NEW s, CInv, Settling(s)
    PROVE  Opened(WithToken(s))
PROOF
  <1> DEFINE r == WithToken(s)
  <1>1. \/ r = Sent(s, "op", NoToken)
        \/ r = Sent(s, "op", UserToken)
        \/ Fresh /\ r = Sent(s, "op", cache.value)
        \/ r = [s EXCEPT !.at = "lock"]
    BY DEF WithToken
  <1>2. clock \in Nat /\ clock + Budget \in Nat /\ NoToken = 0 /\ cache.value = Len(grants) /\ Len(grants) \in Nat
    BY Numbers DEF CInv, CacheOK, NoToken
  <1>3. DOMAIN grants = 1..Len(grants) /\ NoToken \notin DOMAIN grants /\ UserToken \notin DOMAIN grants
    BY Numbers DEF CInv, CacheOK, NoToken
  <1>4. CASE r = Sent(s, "op", NoToken)
    BY <1>2, <1>3, <1>4, SentFields DEF Opened, Settling
  <1>5. CASE r = Sent(s, "op", UserToken)
    BY <1>2, <1>3, <1>5, SentFields DEF Opened, Settling
  <1>6. CASE Fresh /\ r = Sent(s, "op", cache.value)
    BY <1>2, <1>3, <1>6, SentFields DEF Opened, Settling
  <1>7. CASE r = [s EXCEPT !.at = "lock"]
    BY <1>7 DEF Opened, Settling, IsCall, Field
  <1> QED BY <1>1, <1>4, <1>5, <1>6, <1>7

\* What an action leaves alone stays true.
LEMMA SameClient ==
    ASSUME CInv, UNCHANGED <<clock, cache, lock, grants, call>>
    PROVE  CInv'
  BY DEF CInv, CacheOK, FetchedOnce, CallType, TokenOK, HolderOK, Pending, Fetching, Fresh

\* A call of the invariant may begin or end.
LEMMA CallsSettling ==
    ASSUME CInv, NEW c \in Caller
    PROVE  Settling(call[c])
  BY DEF CInv, CallType, Settling

\* One caller changes its call while the cache stays, and may take or leave the lock.
LEMMA CallStep ==
    ASSUME CInv, NEW c \in Caller, NEW r,
           UNCHANGED <<clock, cache, grants>>,
           call' = [call EXCEPT ![c] = r],
           lock' \in {lock, IF lock = c THEN Nobody ELSE lock} \/ (lock = Nobody /\ lock' = c),
           CallType(r), TokenOK(r),
           Fetching(r) => lock' = c /\ cache.expires <= r.asked /\ r.asked <= clock
    PROVE  CInv'
PROOF
  <1>1. DOMAIN call = Caller /\ call = [e \in Caller |-> call[e]] /\ CacheOK /\ FetchedOnce /\ clock \in Nat
    BY DEF CInv
  <1>2. /\ DOMAIN call' = Caller /\ call' = [e \in Caller |-> call'[e]] /\ call'[c] = r
        /\ \A e \in Caller \ {c} : call'[e] = call[e]
    BY <1>1
  <1>3. CacheOK' /\ FetchedOnce' /\ clock' \in Nat
    BY <1>1 DEF CacheOK, FetchedOnce
  <1>4. ASSUME NEW e \in Caller
        PROVE  CallType(call[e])' /\ TokenOK(call[e])' /\ HolderOK(e)'
    <2>1. CallType(call'[e]) /\ TokenOK(call'[e])
      BY <1>2 DEF CInv
    <2>2. CallType(call[e])'
      BY <2>1 DEF CallType
    <2>3. TokenOK(call[e])'
      BY <2>1 DEF TokenOK, Pending
    <2>4. Fetching(call'[e]) => lock' = e /\ cache.expires <= call'[e].asked /\ call'[e].asked <= clock
      <3>1. CASE e = c
        BY <1>2, <3>1
      <3>2. CASE e # c
        <4>1. HolderOK(e) /\ call'[e] = call[e]
          BY <1>2, <3>2 DEF CInv
        <4>2. lock = e => lock' = e
          BY <3>2, ClientAssumption DEF ClientAssumption, Nobody
        <4> QED BY <4>1, <4>2 DEF HolderOK
      <3> QED BY <3>1, <3>2
    <2>5. HolderOK(e)'
      BY <2>4 DEF HolderOK, Fetching, Pending
    <2> QED BY <2>2, <2>3, <2>5
  <1> QED BY <1>2, <1>3, <1>4 DEF CInv

\* A call that becomes one that holds nothing, or makes a fresh request.
LEMMA OpenStep ==
    ASSUME CInv, NEW c \in Caller, NEW r, Opened(r),
           UNCHANGED <<clock, cache, grants>>,
           call' = [call EXCEPT ![c] = r],
           lock' \in {lock, IF lock = c THEN Nobody ELSE lock}
    PROVE  CInv'
PROOF
  <1>1. CallType(r)
    BY Numbers, SMTT(30) DEF CInv, Opened, CallType
  <1>2. TokenOK(r)
    <2> SUFFICES ASSUME Pending(r), r.purpose = "op", r.tok \in DOMAIN grants, grants[r.tok].long
                 PROVE  r.until < grants[r.tok].end
      BY DEF TokenOK, Pending
    <2>1. r.at = "flight" /\ r.until = clock + Budget /\ Fresh /\ r.tok = cache.value
      BY DEF Opened, Pending
    <2>2. cache.expires > clock /\ grants[r.tok].expires = cache.expires
      BY <2>1 DEF Fresh, CInv, CacheOK
    <2>3. cache.expires + Budget <= grants[r.tok].end
      BY <2>2 DEF CInv, CacheOK
    <2>4. grants[r.tok] \in Grant
      BY DEF CInv, CacheOK
    <2>5. cache.expires \in Nat /\ clock \in Nat /\ Budget \in Nat
      BY Numbers DEF CInv, CacheOK
    <2>6. grants[r.tok].end \in Nat
      BY <2>4 DEF Grant
    <2> QED BY <2>1, <2>2, <2>3, <2>5, <2>6
  <1>3. ~Fetching(r)
    BY DEF Opened, Fetching, Pending
  <1> QED BY <1>1, <1>2, <1>3, CallStep

\* A request that fetches a token, made by the holder of the lock.
LEMMA FetchStep ==
    ASSUME CInv, NEW c \in Caller, NEW s, IsCall(s), s.wake \in Nat, s.asked \in Nat,
           cache.expires <= s.asked, s.asked <= clock, NEW p, p # "op",
           UNCHANGED <<clock, cache, grants>>,
           call' = [call EXCEPT ![c] = Sent(s, p, NoToken)],
           lock \in {c, Nobody}, lock' = c
    PROVE  CInv'
PROOF
  <1> DEFINE r == Sent(s, p, NoToken)
  <1>1. /\ IsCall(r) /\ r.at = "flight" /\ r.purpose = p /\ r.tok = NoToken
        /\ r.sent = clock /\ r.until = clock + Budget /\ r.asked = s.asked /\ r.wake = s.wake
    BY SentFields
  <1>2. call' = [call EXCEPT ![c] = r]
    OBVIOUS
  <1> HIDE DEF r
  <1>3. CallType(r)
    BY <1>1, Numbers, SMTT(30) DEF CInv, CacheOK, CallType, NoToken
  <1>4. TokenOK(r)
    BY <1>1 DEF TokenOK
  <1> QED BY <1>1, <1>2, <1>3, <1>4, CallStep

\* The end of a call holds nothing.
LEMMA OverOpened ==
    ASSUME CInv, NEW s, IsCall(s), NEW k
    PROVE  Opened(Over(s, k))
  BY OverFields DEF Opened, NoToken, CInv, CacheOK

\* The next operation of a helper, or its end.
LEMMA ContinueOpened ==
    ASSUME CInv, NEW s, Settling(s)
    PROVE  Opened(Continue(s))
PROOF
  <1>1. IsCall(s)
    BY DEF Settling
  <1>2. CASE Len(s.flow) = 1
    BY <1>1, <1>2, OverOpened DEF Continue
  <1>3. CASE Len(s.flow) # 1
    <2> DEFINE r == [s EXCEPT !.flow = Tail(@), !.page = 1, !.done = 0]
    <2>1. Settling(r)
      BY <1>1 DEF Settling, IsCall, Field
    <2>2. Continue(s) = WithToken(r)
      BY <1>3 DEF Continue
    <2> HIDE DEF r
    <2> QED BY <2>1, <2>2, WithTokenOpened
  <1> QED BY <1>2, <1>3

\* Nor does a page, whichever way the pages go on.
LEMMA PageOpened ==
    ASSUME CInv, NEW s, Settling(s), NEW more
    PROVE  Opened(AfterPage(s, more))
PROOF
  <1> DEFINE r == [s EXCEPT !.page = @ + 1]
  <1>1. IsCall(s)
    BY DEF Settling
  <1>2. Settling(r)
    BY <1>1 DEF Settling, IsCall, Field
  <1>3. \/ AfterPage(s, more) = Continue(s)
        \/ AfterPage(s, more) = Over(s, "error")
        \/ AfterPage(s, more) = WithToken(r)
        \/ AfterPage(s, more) = WithToken(s)
    BY DEF AfterPage
  <1> HIDE DEF r
  <1> QED BY <1>1, <1>2, <1>3, ContinueOpened, OverOpened, WithTokenOpened

-----------------------------------------------------------------------------
\* Acquire takes the cached token, or the lock to fetch another.
LEMMA AcquireStep ==
    ASSUME CInv, NEW c \in Caller, Acquire(c)
    PROVE  CInv'
PROOF
  <1>1. Settling(call[c]) /\ IsCall(call[c])
    BY CallsSettling DEF Settling
  <1>2. CASE Fresh
    <2> DEFINE r == Sent(call[c], "op", cache.value)
    <2>2. Opened(r)
      <3>1. clock + Budget \in Nat /\ clock \in Nat /\ cache.value \in 0..Len(grants)
        BY Numbers DEF CInv, CacheOK
      <3> QED BY <1>1, <1>2, <3>1, SentFields, SMTT(30) DEF Opened, Settling
    <2>3. call' = [call EXCEPT ![c] = r] /\ UNCHANGED <<clock, cache, grants, lock>>
      BY <1>2 DEF Acquire
    <2> HIDE DEF r
    <2> QED BY <2>2, <2>3, OpenStep
  <1>3. CASE ~Fresh
    <2> DEFINE s == [call[c] EXCEPT !.asked = clock]
               p == IF ~isv THEN "tenant" ELSE IF ticket THEN "app" ELSE "resend"
    <2>1. IsCall(s) /\ s.asked = clock /\ s.wake = call[c].wake
      BY <1>1 DEF IsCall, Field
    <2>2. p # "op"
      OBVIOUS
    <2>3. call' = [call EXCEPT ![c] = Sent(s, p, NoToken)] /\ UNCHANGED <<clock, cache, grants>>
      BY <1>3 DEF Acquire
    <2>4. lock = Nobody /\ lock' = c
      BY <1>3 DEF Acquire
    <2>5. cache.expires <= clock /\ clock \in Nat
      <3>1. cache.value \in Nat /\ cache.expires \in Nat /\ clock \in Nat
        BY DEF CInv, CacheOK
      <3>2. CASE cache.value = NoToken
        BY <3>1, <3>2 DEF CInv, CacheOK
      <3>3. CASE cache.value # NoToken
        BY <1>3, <3>1, <3>3 DEF Fresh
      <3> QED BY <3>1, <3>2, <3>3
    <2> HIDE DEF s, p
    <2>6. s.wake \in Nat /\ s.asked \in Nat /\ cache.expires <= s.asked /\ s.asked <= clock
      BY <1>1, <2>1, <2>5 DEF Settling
    <2>7. lock \in {c, Nobody}
      BY <2>4
    <2> QED BY <2>1, <2>2, <2>3, <2>4, <2>6, <2>7, FetchStep
  <1> QED BY <1>2, <1>3

\* A request that is to be repeated sleeps, and keeps what it carries.
LEMMA SleepStep ==
    ASSUME CInv, NEW c \in Caller, NEW s, NEW d \in Nat,
           IsCall(s), call[c].at = "flight",
           s.at = call[c].at, s.purpose = call[c].purpose, s.tok = call[c].tok, s.asked = call[c].asked,
           s.sent = call[c].sent, s.until = call[c].until, s.wake = call[c].wake,
           ~PastDeadline(s, d),
           UNCHANGED <<clock, cache, grants, lock>>,
           call' = [call EXCEPT ![c] = Slept(s, d)]
    PROVE  CInv'
PROOF
  <1> DEFINE r == Slept(s, d)
  <1>1. /\ IsCall(r) /\ r.at = "sleep" /\ r.purpose = s.purpose /\ r.tok = s.tok /\ r.asked = s.asked
        /\ r.sent = s.sent /\ r.until = s.until /\ r.wake = clock + d
    BY DEF Slept, IsCall, Field
  <1>2. call' = [call EXCEPT ![c] = r]
    OBVIOUS
  <1> HIDE DEF r
  <1>3. CallType(call[c]) /\ TokenOK(call[c]) /\ HolderOK(c) /\ clock \in Nat
    BY DEF CInv
  <1>4. clock + d <= s.until
    BY <1>3 DEF PastDeadline, CallType
  <1>5. CallType(r)
    BY <1>1, <1>3, <1>4 DEF CallType
  <1>6. TokenOK(r)
    BY <1>1, <1>3 DEF TokenOK, Pending
  <1>7. Fetching(r) => lock' = c /\ cache.expires <= r.asked /\ r.asked <= clock
    BY <1>1, <1>3 DEF HolderOK, Fetching, Pending
  <1> QED BY <1>1, <1>2, <1>5, <1>6, <1>7, CallStep

\* The next attempt is made before the deadline.
LEMMA WakeStep ==
    ASSUME CInv, NEW c \in Caller, Wake(c)
    PROVE  CInv'
PROOF
  <1> DEFINE r == Resent(call[c])
  <1>1. CallType(call[c]) /\ TokenOK(call[c]) /\ HolderOK(c) /\ clock \in Nat
    BY DEF CInv
  <1>2. /\ IsCall(r) /\ r.at = "flight" /\ r.purpose = call[c].purpose /\ r.tok = call[c].tok
        /\ r.asked = call[c].asked /\ r.sent = clock /\ r.until = call[c].until /\ r.wake = 0
    BY <1>1 DEF Resent, IsCall, Field, CallType
  <1>3. /\ call' = [call EXCEPT ![c] = r] /\ UNCHANGED <<clock, cache, lock, grants>>
        /\ call[c].at = "sleep" /\ clock >= call[c].wake
    BY DEF Wake
  <1> HIDE DEF r
  <1>4. CallType(r)
    <2>1. call[c].wake \in Nat /\ call[c].until \in Nat /\ call[c].wake <= call[c].until /\ clock <= call[c].wake
      BY <1>1, <1>3 DEF CallType
    <2>2. r.sent <= clock /\ clock <= r.sent + Timeout /\ r.sent <= r.until
      BY <1>1, <1>2, <1>3, <2>1, Numbers
    <2>3. r.asked \in Nat /\ r.sent \in Nat /\ r.until \in Nat /\ r.wake \in Nat
      BY <1>1, <1>2, <2>1 DEF CallType
    <2> QED BY <1>1, <1>2, <2>2, <2>3 DEF CallType
  <1>5. TokenOK(r)
    BY <1>1, <1>2, <1>3 DEF TokenOK, Pending
  <1>6. Fetching(r) => lock' = c /\ cache.expires <= r.asked /\ r.asked <= clock
    BY <1>1, <1>2, <1>3 DEF HolderOK, Fetching, Pending
  <1> QED BY <1>2, <1>3, <1>4, <1>5, <1>6, CallStep

\* A cancelled call gives the lock up.
LEMMA CancelStep ==
    ASSUME CInv, NEW c \in Caller, Cancel(c)
    PROVE  CInv'
PROOF
  <1>1. IsCall(call[c])
    BY CallsSettling DEF Settling
  <1>2. PICK executed \in BOOLEAN : call' = [call EXCEPT ![c] = Over(Applied(call[c], executed), "cancelled")]
    BY DEF Cancel
  <1>3. Opened(Over(Applied(call[c], executed), "cancelled"))
    BY <1>1, AppliedFields, OverOpened
  <1>4. UNCHANGED <<clock, cache, grants>> /\ lock' = IF lock = c THEN Nobody ELSE lock
    BY DEF Cancel
  <1> QED BY <1>2, <1>3, <1>4, OpenStep

\* A task calls an operation, or calls it again.
LEMMA BeginStep ==
    ASSUME CInv, NEW c \in Caller, Begin(c)
    PROVE  CInv'
PROOF
  <1>1. Settling(call[c]) /\ IsCall(call[c])
    BY CallsSettling DEF Settling
  <1>2. PICK view \in View, flow \in menu[c], own \in BOOLEAN, malformed \in BOOLEAN :
           LET s == Starting(call[c], view, flow, own, 0) IN
           call' = [call EXCEPT ![c] = IF malformed THEN Over(s, "error") ELSE WithToken(s)]
    BY DEF Begin
  <1> DEFINE s == Starting(call[c], view, flow, own, 0)
             r == IF malformed THEN Over(s, "error") ELSE WithToken(s)
  <1>3. Settling(s) /\ IsCall(s)
    BY <1>1, StartingFields DEF Settling
  <1>4. call' = [call EXCEPT ![c] = r]
    BY <1>2
  <1>5. UNCHANGED <<clock, cache, grants, lock>>
    BY DEF Begin
  <1> HIDE DEF s
  <1>6. Opened(r)
    BY <1>3, OverOpened, WithTokenOpened
  <1> HIDE DEF r
  <1> QED BY <1>4, <1>5, <1>6, OpenStep

\* Under the arguments it had.
LEMMA RepeatStep ==
    ASSUME CInv, NEW c \in Caller, Repeat(c)
    PROVE  CInv'
PROOF
  <1> DEFINE q == call[c]
             s == Starting(q, q.view, q.flow, q.own, q.total)
  <1>1. Settling(q) /\ IsCall(q)
    BY CallsSettling DEF Settling
  <1>2. Settling(s)
    BY <1>1, StartingFields DEF Settling
  <1>3. call' = [call EXCEPT ![c] = WithToken(s)] /\ UNCHANGED <<clock, cache, grants, lock>>
    BY DEF Repeat
  <1> HIDE DEF s
  <1>4. Opened(WithToken(s))
    BY <1>2, WithTokenOpened
  <1> QED BY <1>3, <1>4, OpenStep

\* A token is granted.  It was asked for after every other had left the cache, and the
\* request made with it is over before its end.
LEMMA GrantStep ==
    ASSUME CInv, NEW c \in Caller, call[c].at = "flight", call[c].purpose = "tenant",
           NEW life \in Lives, life # 0, NEW at \in call[c].sent .. clock,
           Granted(c, life, at), clock' = clock
    PROVE  CInv'
PROOF
  <1> DEFINE g == [asked |-> call[c].asked, expires |-> clock + Ttl(life),
                   end |-> at + life, long |-> life > Offset + MinTtl]
             n == Len(grants) + 1
             s == [call[c] EXCEPT !.asked = 0]
             r == Sent(s, "op", n)
  <1>1. CallType(call[c]) /\ HolderOK(c) /\ CacheOK /\ FetchedOnce /\ clock \in Nat /\ DOMAIN call = Caller
        /\ call = [e \in Caller |-> call[e]]
    BY DEF CInv
  <1>2. life \in Nat /\ at \in Nat /\ call[c].sent <= at /\ at <= clock /\ clock <= call[c].sent + Timeout
        /\ call[c].sent \in Nat /\ call[c].asked \in Nat /\ Ttl(life) \in Nat
    <2>1. life \in Nat
      BY ClientAssumption DEF ClientAssumption
    <2>2. call[c].sent \in Nat /\ call[c].asked \in Nat /\ clock <= call[c].sent + Timeout
      BY <1>1 DEF CallType
    <2>3. at \in Nat /\ call[c].sent <= at /\ at <= clock
      BY <1>1, <2>2
    <2> QED BY <2>1, <2>2, <2>3, Numbers
  <1>3. g \in Grant
    <2>1. (life > Offset + MinTtl) \in BOOLEAN
      OBVIOUS
    <2>2. clock + Ttl(life) \in Nat /\ at + life \in Nat
      BY <1>1, <1>2
    <2> QED BY <1>2, <2>1, <2>2, Zenon DEF Grant
  <1>4. lock = c /\ cache.expires <= call[c].asked /\ call[c].asked <= clock
    BY <1>1 DEF HolderOK, Fetching, Pending
  <1>5. g.asked = call[c].asked /\ g.expires = clock + Ttl(life) /\ g.end = at + life
        /\ (g.long => life > Offset + MinTtl)
    OBVIOUS
  <1>6. g.long => g.expires + Budget <= g.end /\ clock + Budget < g.end
    BY <1>2, <1>1, <1>5, Numbers DEF Ttl
  <1>7. /\ grants' = Append(grants, g) /\ Len(grants) < MaxGrants
        /\ cache' = [value |-> n, expires |-> clock + Ttl(life)]
        /\ lock' = Nobody /\ call' = [call EXCEPT ![c] = r]
    BY DEF Granted
  <1>8. IsCall(r) /\ r.at = "flight" /\ r.purpose = "op" /\ r.tok = n /\ r.sent = clock
        /\ r.until = clock + Budget /\ r.asked = 0 /\ r.wake = call[c].wake
    <2>1. IsCall(s) /\ s.asked = 0 /\ s.wake = call[c].wake
      BY <1>1 DEF CallType, IsCall, Field
    <2> HIDE DEF s
    <2> QED BY <2>1, SentFields
  <1> HIDE DEF g, r, s
  <1>9. /\ grants' \in Seq(Grant) /\ Len(grants') = n /\ DOMAIN grants = 1..Len(grants) /\ DOMAIN grants' = 1..n
        /\ grants'[n] = g /\ \A h \in DOMAIN grants : h \in DOMAIN grants' /\ h # n /\ grants'[h] = grants[h]
        /\ n \in Nat /\ n <= MaxGrants /\ n # NoToken
    BY <1>1, <1>3, <1>7, Numbers, SMTT(30) DEF CacheOK, NoToken
  <1>10. \A h \in DOMAIN grants : grants[h].expires \in Nat /\ grants[h].end \in Nat
    <2>1. \A h \in DOMAIN grants : grants[h] \in Grant
      BY <1>1 DEF CacheOK
    <2> QED BY <2>1 DEF Grant
  <1>11. cache.expires \in Nat /\ g.expires \in Nat /\ cache.expires <= g.asked /\ cache.expires <= g.expires
    BY <1>1, <1>2, <1>4, <1>5 DEF CacheOK
  <1>12. \A h \in DOMAIN grants : grants[h].expires <= g.asked /\ grants[h].expires <= g.expires
    BY <1>1, <1>2, <1>5, <1>10, <1>11, SMTT(30) DEF CacheOK
  <1>13. CacheOK'
    <2>1. cache'.value = n /\ cache'.expires = g.expires /\ cache' \in [value : Nat, expires : Nat]
      BY <1>5, <1>7, <1>9, <1>11
    <2>2. \A h \in DOMAIN grants' : h = n \/ h \in DOMAIN grants
      BY <1>9
    <2>3. \A h \in DOMAIN grants' : grants'[h].expires <= cache'.expires
      BY <1>9, <1>11, <1>12, <2>1, <2>2
    <2>4. \A h \in DOMAIN grants' : grants'[h].long => grants'[h].expires + Budget <= grants'[h].end
      BY <1>1, <1>6, <1>9, <2>2 DEF CacheOK
    <2> QED BY <1>9, <2>1, <2>3, <2>4 DEF CacheOK, NoToken
  <1>14. FetchedOnce'
    <2> SUFFICES ASSUME NEW h \in DOMAIN grants', NEW i \in DOMAIN grants', h < i
                 PROVE  grants'[h].expires <= grants'[i].asked
      BY DEF FetchedOnce
    <2>1. h \in DOMAIN grants
      BY <1>9
    <2>2. CASE i = n
      BY <1>9, <1>12, <2>1, <2>2
    <2>3. CASE i # n
      <3>1. i \in DOMAIN grants
        BY <1>9, <2>3
      <3> QED BY <1>1, <1>9, <2>1, <3>1 DEF FetchedOnce
    <2> QED BY <2>2, <2>3
  <1>15. ASSUME NEW e \in Caller
         PROVE  CallType(call[e])' /\ TokenOK(call[e])' /\ HolderOK(e)'
    <2>1. CASE e = c
      <3>1. call'[e] = r
        BY <1>1, <1>7, <2>1
      <3>2. CallType(call[e])'
        <4>0. call[c].wake \in Nat
          BY <1>1 DEF CallType
        <4>1. call[c].wake \in Nat /\ 0 \in Nat /\ n \in 0..Len(grants') /\ clock + Budget \in Nat
          BY <1>1, <1>9, <4>0, Numbers
        <4>2. call'[e].tok \in 0..Len(grants') \cup {UserToken}
          BY <1>8, <3>1, <4>1
        <4>3. clock <= clock + Timeout /\ clock <= clock + Budget /\ clock <= clock
          BY <1>1, Numbers
        <4> QED BY <1>1, <1>8, <3>1, <4>1, <4>2, <4>3 DEF CallType
      <3>3. TokenOK(call[e])'
        BY <1>6, <1>8, <1>9, <3>1 DEF TokenOK
      <3>4. HolderOK(e)'
        BY <1>8, <3>1 DEF HolderOK, Fetching
      <3> QED BY <3>2, <3>3, <3>4
    <2>2. CASE e # c
      <3>1. call'[e] = call[e] /\ CallType(call[e]) /\ TokenOK(call[e]) /\ HolderOK(e)
        BY <1>1, <1>7, <2>2 DEF CInv
      <3>2. CallType(call[e])'
        BY <1>1, <1>9, <3>1 DEF CallType, CacheOK
      <3>3. call[e].tok \in DOMAIN grants' => call[e].tok \in DOMAIN grants
        BY <1>1, <1>9, <3>1, Numbers DEF CallType, CacheOK, UserToken
      <3>4. TokenOK(call[e])'
        BY <1>9, <3>1, <3>3 DEF TokenOK, Pending
      <3>5. ~Fetching(call[e])
        BY <1>4, <2>2, <3>1 DEF HolderOK
      <3>6. HolderOK(e)'
        BY <3>1, <3>5 DEF HolderOK, Fetching, Pending
      <3> QED BY <3>2, <3>4, <3>6
    <2> QED BY <2>1, <2>2
  <1>16. DOMAIN call' = Caller /\ call' = [e \in Caller |-> call'[e]]
    BY <1>1, <1>7
  <1> QED BY <1>1, <1>13, <1>14, <1>15, <1>16 DEF CInv

\* The answer of a token endpoint.
LEMMA FetchedStep ==
    ASSUME CInv, NEW c \in Caller, call[c].at = "flight", call[c].purpose # "op", Fetched(c), clock' = clock
    PROVE  CInv'
PROOF
  <1>1. Settling(call[c]) /\ IsCall(call[c])
    BY CallsSettling DEF Settling
  <1>2. lock = c /\ cache.expires <= call[c].asked /\ call[c].asked <= clock
    BY DEF CInv, HolderOK, Fetching, Pending
  <1>3. ASSUME Failed(c, "error")
        PROVE  CInv'
    <2>1. Opened(Over(call[c], "error"))
      BY <1>1, OverOpened
    <2>2. /\ call' = [call EXCEPT ![c] = Over(call[c], "error")] /\ UNCHANGED <<clock, cache, grants>>
          /\ lock' = IF lock = c THEN Nobody ELSE lock
      BY <1>3 DEF Failed
    <2> QED BY <2>1, <2>2, OpenStep
  <1>4. CASE call[c].purpose = "app" /\ call' = [call EXCEPT ![c] = Sent(@, "tenant", NoToken)]
             /\ UNCHANGED <<lock, cache, grants>>
    <2>1. call' = [call EXCEPT ![c] = Sent(call[c], "tenant", NoToken)] /\ UNCHANGED <<clock, cache, grants>>
          /\ lock \in {c, Nobody} /\ lock' = c
      BY <1>2, <1>4
    <2>2. call[c].wake \in Nat /\ call[c].asked \in Nat
      BY <1>1 DEF Settling
    <2> QED BY <1>1, <1>2, <2>1, <2>2, FetchStep
  <1>5. ASSUME NEW life \in Lives, call[c].purpose = "tenant",
               IF life = 0 THEN Failed(c, "error")
               ELSE \E at \in call[c].sent .. clock : Granted(c, life, at)
        PROVE  CInv'
    <2>1. CASE life = 0
      BY <1>3, <1>5, <2>1
    <2>2. CASE life # 0
      <3>1. PICK at \in call[c].sent .. clock : Granted(c, life, at)
        BY <1>5, <2>2
      <3> QED BY <1>5, <2>2, <3>1, GrantStep
    <2> QED BY <2>1, <2>2
  <1> QED BY <1>3, <1>4, <1>5 DEF Fetched

\* An answer, or none.
LEMMA AnswerStep ==
    ASSUME CInv, NEW c \in Caller, Answer(c)
    PROVE  CInv'
PROOF
  <1>1. Settling(call[c]) /\ IsCall(call[c]) /\ call[c].at = "flight" /\ clock' = clock
    BY CallsSettling DEF Settling, Answer
  <1> DEFINE Ends(s, o) ==
               \/ o.kind = "ok" /\ s.purpose # "op" /\ Fetched(c)
               \/ /\ o.kind = "ok" /\ s.purpose = "op"
                  /\ \E more \in {"last", "next", "repeat"} :
                        /\ more = "next" => s.page < MaxPages
                        /\ call' = [call EXCEPT ![c] = AfterPage(s, more)]
                  /\ UNCHANGED <<cache, lock, grants>>
               \/ /\ o.kind # "ok"
                  /\ \E d \in 0..MaxDelay :
                        IF Retriable(s, o.kind) /\ ~PastDeadline(s, d)
                        THEN call' = [call EXCEPT ![c] = Slept(s, d)] /\ UNCHANGED <<cache, lock, grants>>
                        ELSE IF s.purpose = "op" /\ Op(s).pages = "chain" /\ o.kind = "api"
                        THEN call' = [call EXCEPT ![c] = Continue(s)] /\ UNCHANGED <<cache, lock, grants>>
                        ELSE /\ call' = [call EXCEPT ![c] = Over(s, IF o.kind \in {"server", "transport", "permission"} THEN o.kind ELSE "error")]
                             /\ lock' = IF lock = c THEN Nobody ELSE lock
                             /\ UNCHANGED <<cache, grants>>
  <1>2. PICK o \in Outcome : Ends(Applied(call[c], o.executed), o)
    BY DEF Answer
  <1> DEFINE s == Applied(call[c], o.executed)
  <1>3. /\ IsCall(s) /\ s.at = call[c].at /\ s.purpose = call[c].purpose /\ s.tok = call[c].tok
        /\ s.asked = call[c].asked /\ s.sent = call[c].sent /\ s.until = call[c].until /\ s.wake = call[c].wake
    BY <1>1, AppliedFields
  <1>4. Ends(s, o)
    BY <1>2
  <1> HIDE DEF s
  <1>5. Settling(s)
    BY <1>1, <1>3 DEF Settling
  <1>6. CASE s.purpose # "op" /\ Fetched(c)
    BY <1>1, <1>3, <1>6, FetchedStep
  <1>7. ASSUME NEW more, call' = [call EXCEPT ![c] = AfterPage(s, more)], UNCHANGED <<cache, lock, grants>>
        PROVE  CInv'
    <2>1. Opened(AfterPage(s, more))
      BY <1>5, PageOpened
    <2> QED BY <1>1, <1>7, <2>1, OpenStep
  <1>8. ASSUME NEW d \in 0..MaxDelay, ~PastDeadline(s, d), call' = [call EXCEPT ![c] = Slept(s, d)],
               UNCHANGED <<cache, lock, grants>>
        PROVE  CInv'
    <2>1. d \in Nat
      BY <1>8, ClientAssumption DEF ClientAssumption
    <2> QED BY <1>1, <1>3, <1>8, <2>1, SleepStep
  <1>9. ASSUME call' = [call EXCEPT ![c] = Continue(s)], UNCHANGED <<cache, lock, grants>>
        PROVE  CInv'
    <2>1. Opened(Continue(s))
      BY <1>5, ContinueOpened
    <2> QED BY <1>1, <1>9, <2>1, OpenStep
  <1>10. ASSUME NEW k, call' = [call EXCEPT ![c] = Over(s, k)],
                lock' = IF lock = c THEN Nobody ELSE lock, UNCHANGED <<cache, grants>>
         PROVE  CInv'
    <2>1. Opened(Over(s, k))
      BY <1>3, OverOpened
    <2> QED BY <1>1, <1>10, <2>1, OpenStep
  <1> DEFINE kind == IF o.kind \in {"server", "transport", "permission"} THEN o.kind ELSE "error"
  <1>11. CASE o.kind # "ok"
    <2>1. PICK d \in 0..MaxDelay :
             \/ ~PastDeadline(s, d) /\ call' = [call EXCEPT ![c] = Slept(s, d)] /\ UNCHANGED <<cache, lock, grants>>
             \/ call' = [call EXCEPT ![c] = Continue(s)] /\ UNCHANGED <<cache, lock, grants>>
             \/ /\ call' = [call EXCEPT ![c] = Over(s, kind)]
                /\ lock' = IF lock = c THEN Nobody ELSE lock
                /\ UNCHANGED <<cache, grants>>
      BY <1>4, <1>11
    <2> HIDE DEF kind
    <2> QED BY <2>1, <1>8, <1>9, <1>10
  <1> QED BY <1>4, <1>6, <1>7, <1>11

\* Time passes while no answer is late and no sleep is over.
LEMMA TickStep ==
    ASSUME CInv, Tick
    PROVE  CInv'
PROOF
  <1>1. clock \in Nat /\ clock' = clock + 1 /\ UNCHANGED <<cache, lock, grants, call>>
    BY DEF Tick, CInv
  <1>2. CacheOK' /\ FetchedOnce'
    BY <1>1 DEF CInv, CacheOK, FetchedOnce
  <1>3. ASSUME NEW c \in Caller
        PROVE  CallType(call[c])' /\ TokenOK(call[c])' /\ HolderOK(c)'
    <2>1. CallType(call[c]) /\ TokenOK(call[c]) /\ HolderOK(c)
      BY DEF CInv
    <2>2. /\ call[c].at = "flight" => clock < call[c].sent + Timeout
          /\ call[c].at = "sleep" => clock < call[c].wake
      BY DEF Tick
    <2>3. CallType(call[c])'
      <3>1. call[c].sent \in Nat /\ call[c].wake \in Nat
        BY <2>1 DEF CallType
      <3>2. call[c].at = "flight" => call[c].sent <= clock + 1 /\ clock + 1 <= call[c].sent + Timeout
        <4>1. call[c].at = "flight" => call[c].sent <= clock
          BY <2>1 DEF CallType
        <4> QED BY <1>1, <2>2, <3>1, <4>1, Numbers
      <3>3. call[c].at = "sleep" => clock + 1 <= call[c].wake
        BY <1>1, <2>2, <3>1
      <3> QED BY <1>1, <2>1, <3>2, <3>3 DEF CallType
    <2>4. TokenOK(call[c])'
      BY <1>1, <2>1 DEF TokenOK, Pending
    <2>5. HolderOK(c)'
      BY <1>1, <2>1 DEF HolderOK, Fetching, Pending, CallType
    <2> QED BY <2>3, <2>4, <2>5
  <1> QED BY <1>1, <1>2, <1>3 DEF CInv

\* The agent starts the operations of a tool, or takes their result.
LEMMA AgentCallStep ==
    ASSUME CInv, NEW c \in Agents, AgentStep(c)
    PROVE  CInv'
PROOF
  <1>1. c \in Caller
    BY ToolsAssumption DEF ToolsAssumption
  <1>2. Settling(call[c]) /\ IsCall(call[c])
    BY <1>1, CallsSettling DEF Settling
  <1>3. CASE UNCHANGED clientVars
    BY <1>3, SameClient DEF clientVars
  <1>4. CASE Propose(c) \/ Authorize(c) \/ Confirm(c) \/ Decline(c)
    BY <1>3, <1>4 DEF Propose, Authorize, Confirm, Decline
  <1>5. CASE Dispatch(c)
    <2>1. ASSUME NEW view, NEW ops,
                 call' = [call EXCEPT ![c] = WithToken([Starting(@, view, ops, FALSE, 0) EXCEPT !.left = 0])],
                 UNCHANGED <<clock, cache, lock, grants>>
          PROVE  CInv'
      <3> DEFINE q == Starting(call[c], view, ops, FALSE, 0)
                 s == [q EXCEPT !.left = 0]
      <3>1. Settling(q)
        <4>1. /\ IsCall(q) /\ q.tok = call[c].tok /\ q.asked = call[c].asked /\ q.sent = call[c].sent
              /\ q.until = call[c].until /\ q.wake = call[c].wake
          BY <1>2, ZenonT(40) DEF Starting, IsCall, Field
        <4> HIDE DEF q
        <4> QED BY <1>2, <4>1 DEF Settling
      <3>2. call' = [call EXCEPT ![c] = WithToken(s)]
        BY <2>1
      <3> HIDE DEF q
      <3>3. Settling(s)
        BY <3>1 DEF Settling, IsCall, Field
      <3> HIDE DEF s
      <3>4. Opened(WithToken(s))
        BY <3>3, WithTokenOpened
      <3> QED BY <1>1, <2>1, <3>2, <3>4, OpenStep
    <2>2. \/ UNCHANGED clientVars
          \/ \E plan \in ToolOf(turn[c]).plans :
                /\ call' = [call EXCEPT ![c] =
                      WithToken([Starting(@, ToolOf(turn[c]).view, plan.ops, FALSE, 0) EXCEPT !.left = 0])]
                /\ UNCHANGED <<clock, cache, lock, grants>>
      BY <1>5 DEF Dispatch
    <2> QED BY <1>3, <2>1, <2>2
  <1>6. CASE Return(c)
    <2>1. call' = [call EXCEPT ![c] = Idle] /\ UNCHANGED <<clock, cache, lock, grants>>
      BY <1>6 DEF Return
    <2>2. Opened(Idle)
      BY DEF Opened, Idle, IsCall, Field, NoToken, CInv, CacheOK
    <2> QED BY <1>1, <2>1, <2>2, OpenStep
  <1> QED BY <1>4, <1>5, <1>6 DEF AgentStep

-----------------------------------------------------------------------------
(***************************************************************************)
(* CInv holds in every state of an agent and its client.                   *)
(***************************************************************************)
THEOREM ClientInvariant == AgentSpec => []CInv
PROOF
  <1>1. AgentInit => CInv
    <2> SUFFICES ASSUME AgentInit
                 PROVE  CInv
      OBVIOUS
    <2>1. /\ clock = 0 /\ cache = [value |-> NoToken, expires |-> 0] /\ grants = <<>>
          /\ \E m \in Menus : call = [c \in Caller |-> [Idle EXCEPT !.left = m.calls[c]]]
      BY DEF AgentInit, ClientInit
    <2>2. CacheOK
      BY <2>1, Numbers DEF CacheOK, NoToken
    <2>3. FetchedOnce
      BY <2>1 DEF FetchedOnce
    <2>4. ASSUME NEW c \in Caller
          PROVE  IsCall(call[c]) /\ call[c].at = "idle" /\ call[c].asked = 0 /\ call[c].sent = 0
                 /\ call[c].until = 0 /\ call[c].wake = 0 /\ call[c].tok = 0
      BY <2>1 DEF Idle, IsCall, Field, NoToken
    <2>5. ASSUME NEW c \in Caller
          PROVE  CallType(call[c]) /\ TokenOK(call[c]) /\ HolderOK(c)
      BY <2>1, <2>4 DEF CallType, TokenOK, HolderOK, Fetching, Pending
    <2> QED BY <2>1, <2>2, <2>3, <2>5 DEF CInv
  <1>2. CInv /\ [AgentNext]_agentVars => CInv'
    <2> SUFFICES ASSUME CInv, [AgentNext]_agentVars
                 PROVE  CInv'
      OBVIOUS
    <2>1. ASSUME NEW c \in Agents, AgentStep(c)
          PROVE  CInv'
      BY <2>1, AgentCallStep
    <2>2. ASSUME NEW c \in Caller, ClientStep(c)
          PROVE  CInv'
      BY <2>2, BeginStep, AcquireStep, AnswerStep, WakeStep, CancelStep, RepeatStep DEF ClientStep
    <2>3. CASE AsUser \/ Ticket
      BY <2>3, SameClient DEF AsUser, Ticket
    <2>4. CASE Tick
      BY <2>4, TickStep
    <2>5. CASE UNCHANGED agentVars
      BY <2>5, SameClient DEF agentVars, clientVars
    <2> QED BY <2>1, <2>2, <2>3, <2>4, <2>5 DEF AgentNext, ClientNext
  <1> QED BY <1>1, <1>2, PTL DEF AgentSpec

(***************************************************************************)
(* Callers that find the token expired together fetch it once, whatever    *)
(* they and the agents do: the second look of TokenManager.token.          *)
(***************************************************************************)
THEOREM FetchedUnderLock == AgentSpec => []FetchedOnce
PROOF
  <1>1. CInv => FetchedOnce
    BY DEF CInv
  <1> QED BY <1>1, ClientInvariant, PTL

(***************************************************************************)
(* No attempt presents an app token after its end, provided that the       *)
(* offset covers the answer of the grant and the retries of a request      *)
(* (TokenManager, Transport._past_deadline).                               *)
(***************************************************************************)
THEOREM PresentedWhileLive == AgentSpec => []TokenLive
PROOF
  <1>1. CInv => TokenLive
    <2> SUFFICES ASSUME CInv, NEW c \in Caller, InOperation(c),
                        call[c].tok \in DOMAIN grants, grants[call[c].tok].long
                 PROVE  call[c].sent < grants[call[c].tok].end
      BY DEF TokenLive
    <2>1. CallType(call[c]) /\ TokenOK(call[c])
      BY DEF CInv
    <2>2. call[c].sent <= call[c].until /\ call[c].sent \in Nat /\ call[c].until \in Nat
      BY <2>1 DEF CallType, InOperation
    <2>3. call[c].until < grants[call[c].tok].end
      BY <2>1 DEF TokenOK, Pending, InOperation
    <2>4. grants[call[c].tok] \in Grant
      BY DEF CInv, CacheOK
    <2>5. grants[call[c].tok].end \in Nat
      BY <2>4 DEF Grant
    <2> QED BY <2>2, <2>3, <2>5
  <1> QED BY <1>1, ClientInvariant, PTL

-----------------------------------------------------------------------------
(***************************************************************************)
(* The operations and the tools.  These facts are read off their           *)
(* definitions: a write is one request of one page (OneShot); a tool that  *)
(* asks for no confirmation only reads, and all tools but two write with   *)
(* their last operation, when they complete (ToolFacts).                   *)
(***************************************************************************)
ReadingOperation == {op \in Operations : ~op.writes}

\* A write is sent once, and its namespace is one that a copy of the client resets.
OneShot(op) == op.ns \in NAMESPACE_SLOTS /\ (op.writes => op.pages = "one")

\* The kinds of requests.
LEMMA Shapes ==
    ASSUME NEW ns \in NAMESPACE_SLOTS
    PROVE  \A op \in {Post(ns), Put(ns), Patch(ns), Delete(ns), Limited(Patch(ns)), Keyed(Post(ns)),
                        MayBeKeyed(Post(ns)), Anonymous(Post(ns)), Get(ns), Query(ns), Paged(Get(ns)),
                        Paged(Query(ns)), Chain(Get(ns)), Unguarded(Query(ns)), Limited(Get(ns)),
                        Limited(Query(ns)), Limited(Paged(Get(ns))), Whole(Limited(Get(ns))),
                        AsUserToken(Get(ns))} : OneShot(op)
PROOF
  <1>1. \A op \in {Post(ns), Put(ns), Patch(ns), Delete(ns), Limited(Patch(ns)), Keyed(Post(ns)),
                 MayBeKeyed(Post(ns)), Anonymous(Post(ns))} : op.ns = ns /\ op.pages = "one"
    BY DEF Request, Post, Put, Patch, Delete, Limited, Keyed, MayBeKeyed, Anonymous
  <1>2. \A op \in {Get(ns), Query(ns), Paged(Get(ns)), Paged(Query(ns)), Chain(Get(ns)), Unguarded(Query(ns)),
                 Limited(Get(ns)), Limited(Query(ns)), Limited(Paged(Get(ns))), Whole(Limited(Get(ns))),
                 AsUserToken(Get(ns))} : op.ns = ns /\ ~op.writes
    BY ZenonT(40) DEF Request, Get, Query, Paged, Chain, Unguarded, Limited, Whole, AsUserToken
  <1> QED BY <1>1, <1>2 DEF OneShot

\* And so are all operations.
LEMMA OperationsOneShot == \A op \in Operations : OneShot(op)
PROOF
  <1>1. {"approval", "bitable", "board", "calendar", "contact", "directory", "docx", "drive", "im", "mail",
    "meeting_room", "oauth", "sheets", "task", "vc", "wiki"} \subseteq NAMESPACE_SLOTS
    BY DEF NAMESPACE_SLOTS
  <1>2. \A op \in {im_forward, im_get, im_get_resource, im_list, im_list_reply_chain, im_merge_forward,
    im_patch, im_urgent, im_push_follow_up, im_read_users, im_recall, im_reply, im_send, im_update,
    im_upload_file, im_upload_image, chats_add_members, chats_create, chats_disband, chats_get, chats_list,
    chats_list_members, chats_remove_members, chats_update, reactions_create, reactions_delete,
    reactions_list, pins_create} : OneShot(op)
    BY <1>1, Shapes DEF im_forward, im_get, im_get_resource, im_list, im_list_reply_chain, im_merge_forward,
      im_patch, im_urgent, im_push_follow_up, im_read_users, im_recall, im_reply, im_send, im_update,
      im_upload_file, im_upload_image, chats_add_members, chats_create, chats_disband, chats_get, chats_list,
      chats_list_members, chats_remove_members, chats_update, reactions_create, reactions_delete,
      reactions_list, pins_create
  <1>3. \A op \in {pins_delete, pins_list, files_copy, files_create_export_task, files_create_folder,
    files_delete, files_download, files_download_export, files_get_export_task, files_batch_query_metas,
    files_list, files_move, files_upload, permissions_create, permissions_delete, permissions_get_public,
    permissions_list, permissions_set_public, instances_cancel, instances_create, instances_get,
    instances_list, instances_query, approval_tasks_approve, approval_tasks_reject, approval_tasks_transfer,
    approval_tasks_query, approval_files_upload} : OneShot(op)
    BY <1>1, Shapes DEF pins_delete, pins_list, files_copy, files_create_export_task, files_create_folder,
      files_delete, files_download, files_download_export, files_get_export_task, files_batch_query_metas,
      files_list, files_move, files_upload, permissions_create, permissions_delete, permissions_get_public,
      permissions_list, permissions_set_public, instances_cancel, instances_create, instances_get,
      instances_list, instances_query, approval_tasks_approve, approval_tasks_reject, approval_tasks_transfer,
      approval_tasks_query, approval_files_upload
  <1>4. \A op \in {approval_comments_create, approval_comments_list, definitions_list, definitions_get,
    records_batch_create, records_batch_delete, records_batch_update, records_create, records_delete,
    records_get, records_list, records_search, records_update, tables_create, tables_delete, tables_list,
    fields_list, apps_get, users_batch_get, users_batch_get_id, users_create, users_delete, users_get,
    users_list, users_search, users_update, users_update_user_id, departments_create} : OneShot(op)
    BY <1>1, Shapes DEF approval_comments_create, approval_comments_list, definitions_list, definitions_get,
      records_batch_create, records_batch_delete, records_batch_update, records_create, records_delete,
      records_get, records_list, records_search, records_update, tables_create, tables_delete, tables_list,
      fields_list, apps_get, users_batch_get, users_batch_get_id, users_create, users_delete, users_get,
      users_list, users_search, users_update, users_update_user_id, departments_create
  <1>5. \A op \in {departments_delete, departments_get, departments_list, departments_parent,
    departments_update, employees_mget, mail_batch_modify, mail_get, mail_get_by_card, mail_list, mail_search,
    mail_send, folders_list, mail_events_subscribe, mail_events_unsubscribe, mail_users_query,
    docx_append_blocks, docx_batch_update_blocks, docx_create, docx_get, docx_get_block, docx_list_blocks,
    docx_patch_block, docx_get_raw_content, wiki_create_node, wiki_get_node, wiki_get_space, wiki_list_nodes}
    : OneShot(op)
    BY <1>1, Shapes DEF departments_delete, departments_get, departments_list, departments_parent,
      departments_update, employees_mget, mail_batch_modify, mail_get, mail_get_by_card, mail_list,
      mail_search, mail_send, folders_list, mail_events_subscribe, mail_events_unsubscribe, mail_users_query,
      docx_append_blocks, docx_batch_update_blocks, docx_create, docx_get, docx_get_block, docx_list_blocks,
      docx_patch_block, docx_get_raw_content, wiki_create_node, wiki_get_node, wiki_get_space, wiki_list_nodes
  <1>6. \A op \in {wiki_list_spaces, wiki_move_node, wiki_search, wiki_update_node_title, sheets_append_range,
    sheets_create, sheets_delete_dimension, sheets_get, sheets_list_sheets, sheets_read_range, sheets_rename,
    sheets_write_range, whiteboards_download_as_image, whiteboards_get_theme, whiteboards_list_nodes,
    events_create, events_delete, events_get, events_list, events_list_range, events_instance_view,
    events_update, events_reply, calendars_create, calendars_delete, calendars_get, calendars_list,
    calendars_primary} : OneShot(op)
    BY <1>1, Shapes DEF wiki_list_spaces, wiki_move_node, wiki_search, wiki_update_node_title,
      sheets_append_range, sheets_create, sheets_delete_dimension, sheets_get, sheets_list_sheets,
      sheets_read_range, sheets_rename, sheets_write_range, whiteboards_download_as_image,
      whiteboards_get_theme, whiteboards_list_nodes, events_create, events_delete, events_get, events_list,
      events_list_range, events_instance_view, events_update, events_reply, calendars_create,
      calendars_delete, calendars_get, calendars_list, calendars_primary
  <1>7. \A op \in {calendars_update, attendees_add, attendees_delete, attendees_list, freebusy_query,
    rooms_list_buildings, rooms_batch_get_buildings, rooms_list, rooms_batch_get, rooms_freebusy,
    tasks_create, tasks_delete, tasks_get, tasks_list, tasks_update, task_comments_create, task_comments_list,
    task_comments_update, task_comments_delete, reserves_apply, reserves_delete, reserves_get,
    reserves_update, meetings_get, meetings_list_by_no, oauth_exchange_code, oauth_refresh, oauth_user_info} :
    OneShot(op)
    BY <1>1, Shapes DEF calendars_update, attendees_add, attendees_delete, attendees_list, freebusy_query,
      rooms_list_buildings, rooms_batch_get_buildings, rooms_list, rooms_batch_get, rooms_freebusy,
      tasks_create, tasks_delete, tasks_get, tasks_list, tasks_update, task_comments_create,
      task_comments_list, task_comments_update, task_comments_delete, reserves_apply, reserves_delete,
      reserves_get, reserves_update, meetings_get, meetings_list_by_no, oauth_exchange_code, oauth_refresh,
      oauth_user_info
  <1> QED BY <1>2, <1>3, <1>4, <1>5, <1>6, <1>7 DEF Operations

\* The menus hold flows of operations, of which one with a key is alone.
LEMMA FlowsOfOperations ==
    ASSUME NEW flow \in Flows
    PROVE  flow \in Seq(Operations) /\ flow # <<>> /\ (flow[1].key # "none" => Len(flow) = 1)
PROOF
  <1>1. CASE flow \in {<<op>> : op \in Operations}
    <2>1. PICK op \in Operations : flow = <<op>>
      BY <1>1
    <2> QED BY <2>1
  <1>2. /\ departments_parent.key = "none" /\ departments_list.key = "none" /\ wiki_get_node.key = "none"
    BY DEF departments_parent, departments_list, wiki_get_node, Paged, Get, Request
  <1>3. {departments_parent, departments_list, users_list, wiki_get_node, docx_get_raw_content} \subseteq Operations
    BY DEF Operations
  <1>4. CASE flow \in departments_parent_ids \cup departments_expand_ids \cup fetch_organization_snapshot
    <2>1. \/ flow = <<departments_parent>> \/ flow = <<departments_parent, departments_parent>>
          \/ flow = <<departments_list, users_list, users_list>>
      BY <1>4 DEF departments_parent_ids, departments_expand_ids, fetch_organization_snapshot
    <2>2. CASE flow = <<departments_parent>>
      BY <1>3, <2>2
    <2>3. CASE flow = <<departments_parent, departments_parent>>
      BY <1>2, <1>3, <2>3
    <2>4. CASE flow = <<departments_list, users_list, users_list>>
      BY <1>2, <1>3, <2>4
    <2> QED BY <2>1, <2>2, <2>3, <2>4
  <1>5. CASE flow \in raw_document_content
    <2>1. \/ flow = <<docx_get_raw_content>> \/ flow = <<wiki_get_node, docx_get_raw_content>>
          \/ flow = <<wiki_get_node>>
      BY <1>5 DEF raw_document_content
    <2>2. CASE flow = <<docx_get_raw_content>>
      BY <1>3, <2>2
    <2>3. CASE flow = <<wiki_get_node, docx_get_raw_content>>
      BY <1>2, <1>3, <2>3
    <2>4. CASE flow = <<wiki_get_node>>
      BY <1>3, <2>4
    <2> QED BY <2>1, <2>2, <2>3, <2>4
  <1> QED BY <1>1, <1>4, <1>5 DEF Flows

PlanOK(plan) ==
    plan.ops \in Seq(Operations) /\ plan.end \in {"completed", "declined", "raised", "invalid"}

\* A plan that only reads, and one of which at most the last operation writes.
PlanReads(plan) == PlanOK(plan) /\ plan.ops \in Seq(ReadingOperation)

PlanWrites(plan) ==
    /\ PlanOK(plan)
    /\ \A i \in DOMAIN plan.ops : Once(plan.ops[i]) => i = Len(plan.ops)
    /\ plan.end = "completed"

ToolField == {"plans", "effect", "confirm", "view", "scoped", "wrapped", "caught"}

\* A tool that may be dispatched, with a confirmation if it writes.
ToolOK(tool) ==
    /\ tool = [f \in ToolField |-> tool[f]]
    /\ tool.plans # {}
    /\ tool.view \in View
    /\ tool.caught \subseteq ReadingOperation
    /\ \A plan \in tool.plans : PlanOK(plan)
    /\ ~tool.confirm => \A plan \in tool.plans : PlanReads(plan)

\* One that writes with its last operation, and only when it says that it is done.
WritesLast(tool) == ToolOK(tool) /\ \A plan \in tool.plans : PlanReads(plan) \/ PlanWrites(plan)

Readers(plans) == plans # {} /\ \A plan \in plans : PlanReads(plan)

\* A flow that only reads is one of operations.
LEMMA ReadsAreOperations ==
    ASSUME NEW f \in Seq(ReadingOperation)
    PROVE  f \in Seq(Operations)
PROOF
  <1>1. \A i \in 1..Len(f) : f[i] \in Operations
    BY DEF ReadingOperation
  <1>2. f = [i \in 1..Len(f) |-> f[i]] /\ Len(f) \in Nat
    OBVIOUS
  <1> QED BY <1>1, <1>2

\* The plans of some flows.
LEMMA PlansOf ==
    ASSUME NEW flows, NEW end
    PROVE  /\ \A plan \in Plans(flows, end) : plan.ops \in flows /\ plan.end = end
           /\ flows # {} => Plans(flows, end) # {}
PROOF
  <1>1. \A plan \in Plans(flows, end) : \E f \in flows : plan = [ops |-> f, end |-> end]
    BY DEF Plans
  <1>2. \A f \in flows : [ops |-> f, end |-> end] \in Plans(flows, end)
    BY DEF Plans
  <1>3. flows # {} => Plans(flows, end) # {}
    BY <1>2
  <1> QED BY <1>1, <1>3

\* Plans of flows that only read.
LEMMA ReadingPlans ==
    ASSUME NEW flows, flows # {}, \A f \in flows : f \in Seq(ReadingOperation)
    PROVE  Readers(Completes(flows)) /\ Readers(Declines(flows)) /\ Readers(Raises(flows))
PROOF
  <1>1. \A f \in flows : f \in Seq(Operations)
    BY ReadsAreOperations
  <1> QED BY <1>1, PlansOf DEF Completes, Declines, Raises, Readers, PlanReads, PlanOK

\* Of two sets of plans that only read, so does their union.
LEMMA MorePlans ==
    ASSUME NEW P, NEW Q, Readers(P), Readers(Q)
    PROVE  Readers(P \cup Q)
  BY DEF Readers

\* A tool all of whose plans only read needs no confirmation.
LEMMA ReadingTools ==
    ASSUME NEW plans, Readers(plans)
    PROVE  WritesLast(Reading(plans)) /\ WritesLast(Unmarked(plans))
  BY DEF Readers, PlanReads, WritesLast, ToolOK, Reading, Unmarked, Tool, ToolField, View

\* A tool that asks for a confirmation may write.
LEMMA WritingTools ==
    ASSUME NEW plans, plans # {}, \A plan \in plans : PlanReads(plan) \/ PlanWrites(plan)
    PROVE  WritesLast(Writing(plans))
  BY DEF PlanReads, PlanWrites, WritesLast, ToolOK, Writing, Tool, ToolField, View

\* The marks of a tool leave its plans alone.
LEMMA MarkedTools ==
    ASSUME NEW tool, WritesLast(tool), NEW op \in ReadingOperation
    PROVE  /\ WritesLast(ByApp(tool)) /\ WritesLast(Scoped(tool)) /\ WritesLast(Wrapped(tool))
           /\ WritesLast(Catching(tool, op))
PROOF
  <1> DEFINE Same(r) == r.plans = tool.plans /\ r.confirm = tool.confirm /\ r = [f \in ToolField |-> r[f]]
  <1>1. tool = [f \in ToolField |-> tool[f]]
    BY DEF WritesLast, ToolOK
  <1>2. Same(ByApp(tool)) /\ ByApp(tool).view \in View /\ ByApp(tool).caught = tool.caught
    BY <1>1 DEF ByApp, ToolField, View
  <1>3. Same(Scoped(tool)) /\ Scoped(tool).view = tool.view /\ Scoped(tool).caught = tool.caught
    BY <1>1 DEF Scoped, ToolField
  <1>4. Same(Wrapped(tool)) /\ Wrapped(tool).view = tool.view /\ Wrapped(tool).caught = tool.caught
    BY <1>1 DEF Wrapped, ToolField
  <1>5. Same(Catching(tool, op)) /\ Catching(tool, op).view = tool.view /\ Catching(tool, op).caught = {op}
    BY <1>1 DEF Catching, ToolField
  <1> QED BY <1>2, <1>3, <1>4, <1>5 DEF WritesLast, ToolOK

\* Flows of up to three operations.
LEMMA ShortFlows ==
    ASSUME NEW S
    PROVE  /\ <<>> \in Seq(S)
           /\ \A a \in S : <<a>> \in Seq(S)
           /\ \A a, b \in S : <<a, b>> \in Seq(S)
           /\ \A a, b, d \in S : <<a, b, d>> \in Seq(S)
  OBVIOUS
\* One operation that only reads.
LEMMA OneRead ==
    ASSUME NEW op \in ReadingOperation
    PROVE  Readers(Completes(One(op)))
PROOF
  <1>1. One(op) # {} /\ \A f \in One(op) : f \in Seq(ReadingOperation)
    BY ShortFlows DEF One
  <1> QED BY <1>1, ReadingPlans

\* Results without any operation.
LEMMA NoOperation ==
    /\ Readers(Completes({<<>>})) /\ Readers(Declines({<<>>})) /\ Readers(Raises({<<>>})) /\ Readers(Refuses)
PROOF
  <1>1. <<>> \in Seq(ReadingOperation) /\ <<>> \in Seq(Operations)
    OBVIOUS
  <1>2. Readers(Refuses)
    BY <1>1, PlansOf DEF Refuses, Readers, PlanReads, PlanOK
  <1> QED BY <1>1, <1>2, ReadingPlans

\* A flow whose last operation may write.
LEMMA LastMayWrite ==
    ASSUME NEW plan, NEW op \in Operations, NEW a \in ReadingOperation, plan.end = "completed",
           plan.ops = <<op>> \/ plan.ops = <<a, op>>
    PROVE  PlanWrites(plan)
PROOF
  <1>1. a \in Operations /\ ~Once(a)
    BY DEF ReadingOperation, Once
  <1> DEFINE f == plan.ops
  <1>2. f \in Seq(Operations) /\ DOMAIN f = 1..Len(f) /\ Len(f) \in {1, 2} /\ (Len(f) = 2 => f[1] = a)
    <2>1. CASE f = <<op>>
      BY <2>1
    <2>2. CASE f = <<a, op>>
      BY <1>1, <2>2
    <2> QED BY <2>1, <2>2
  <1> HIDE DEF f
  <1>3. \A i \in DOMAIN f : Once(f[i]) => i = Len(f)
    BY <1>1, <1>2
  <1> QED BY <1>2, <1>3 DEF PlanWrites, PlanOK, f

\* One write, alone or after the calendar was found.
LEMMA OneWrite ==
    ASSUME NEW op \in Operations, NEW a \in ReadingOperation, NEW more, Readers(more)
    PROVE  WritesLast(Writing(Completes(One(op)))) /\ WritesLast(Writing(Completes(One(op)) \cup more))
PROOF
  <1>2. Completes(One(op)) # {} /\ \A plan \in Completes(One(op)) : plan.ops = <<op>> /\ plan.end = "completed"
    <2>1. One(op) # {} /\ \A f \in One(op) : f = <<op>>
      BY DEF One
    <2> QED BY <2>1, PlansOf DEF Completes
  <1>3. \A plan \in Completes(One(op)) : PlanWrites(plan)
    BY <1>2, LastMayWrite
  <1> QED BY <1>2, <1>3, WritingTools DEF Readers

\* Two ways, with or without the calendar.
LEMMA CalendarWrite ==
    ASSUME NEW op \in Operations, calendars_primary \in ReadingOperation
    PROVE  WritesLast(Writing(Completes(OnCalendar(op)) \cup NoCalendar))
PROOF
  <1> DEFINE P == Completes(OnCalendar(op))
  <1>1. P # {} /\ \A plan \in P : plan.ops \in OnCalendar(op) /\ plan.end = "completed"
    <2>1. OnCalendar(op) # {}
      BY DEF OnCalendar
    <2> QED BY <2>1, PlansOf DEF Completes
  <1>2. ASSUME NEW plan \in P
        PROVE  PlanWrites(plan)
    <2>1. plan.end = "completed" /\ (plan.ops = <<op>> \/ plan.ops = <<calendars_primary, op>>)
      BY <1>1 DEF OnCalendar
    <2> QED BY <2>1, LastMayWrite
  <1>3. Readers(NoCalendar)
    <2>1. {<<calendars_primary>>} # {} /\ \A f \in {<<calendars_primary>>} : f \in Seq(ReadingOperation)
      BY ShortFlows
    <2> QED BY <2>1, ReadingPlans DEF NoCalendar
  <1> DEFINE Q == P \cup NoCalendar
  <1>4. Q # {} /\ \A plan \in Q : PlanReads(plan) \/ PlanWrites(plan)
    BY <1>1, <1>2, <1>3 DEF Readers
  <1> HIDE DEF Q
  <1>5. WritesLast(Writing(Q))
    BY <1>4, WritingTools
  <1> QED BY <1>5 DEF Q

\* Ways to a document.
LEMMA DocumentReads ==
    ASSUME NEW flow, flow = <<>> \/ (\E op \in ReadingOperation : flow = <<op>>),
           docx_get_raw_content \in ReadingOperation, wiki_get_node \in ReadingOperation
    PROVE  Readers(DocumentAfter(flow))
PROOF
  <1>1. flow \in Seq(ReadingOperation)
    BY ShortFlows
  <1>2. \A f \in Seq(ReadingOperation) : flow \o f \in Seq(ReadingOperation)
    BY <1>1
  <1>3. /\ <<docx_get_raw_content>> \in Seq(ReadingOperation) /\ <<wiki_get_node>> \in Seq(ReadingOperation)
        /\ <<wiki_get_node, docx_get_raw_content>> \in Seq(ReadingOperation)
    BY ShortFlows
  <1> DEFINE F == {flow \o <<docx_get_raw_content>>, flow \o <<wiki_get_node, docx_get_raw_content>>}
             G == {flow, flow \o <<wiki_get_node>>}
  <1>4. F # {} /\ G # {} /\ (\A f \in F : f \in Seq(ReadingOperation)) /\ (\A f \in G : f \in Seq(ReadingOperation))
    BY <1>1, <1>2, <1>3
  <1>5. DocumentAfter(flow) = Completes(F) \cup Declines(G)
    BY DEF DocumentAfter
  <1> HIDE DEF F, G
  <1> QED BY <1>4, <1>5, ReadingPlans, MorePlans

\* The operations of the tools.
LEMMA OperationsOfTools ==
    /\ {calendars_primary, events_instance_view, freebusy_query, rooms_list_buildings, rooms_list,
      rooms_freebusy, wiki_search, files_list, docx_get_raw_content, wiki_get_node, im_list_reply_chain,
      meetings_get, meetings_list_by_no, docx_list_blocks, sheets_read_range, whiteboards_list_nodes,
      tasks_list, task_comments_list, records_list, definitions_list, definitions_get, instances_get,
      approval_tasks_query, mail_list, mail_search, mail_get, folders_list, users_search} \subseteq
      ReadingOperation
    /\ {events_create, events_update, events_delete, events_reply, attendees_add, docx_create,
      docx_append_blocks, docx_patch_block, files_delete, sheets_append_range, sheets_write_range,
      sheets_delete_dimension, tasks_create, task_comments_create, tasks_update, tasks_delete,
      task_comments_update, task_comments_delete, records_create, records_update, records_delete,
      instances_create, approval_files_upload, instances_cancel, approval_tasks_approve, approval_tasks_reject,
      reserves_apply, reserves_update, reserves_delete, mail_send, files_upload} \subseteq Operations
PROOF
  <1>0. \A ns : /\ ~Get(ns).writes /\ ~Query(ns).writes /\ ~Paged(Get(ns)).writes /\ ~Paged(Query(ns)).writes
                /\ ~Chain(Get(ns)).writes /\ ~Limited(Get(ns)).writes
    BY DEF Request, Get, Query, Paged, Chain, Limited
  <1>1. \A op \in {calendars_primary, events_instance_view, freebusy_query, rooms_list_buildings, rooms_list,
    rooms_freebusy, wiki_search, files_list, docx_get_raw_content, wiki_get_node, im_list_reply_chain,
    meetings_get, meetings_list_by_no, docx_list_blocks, sheets_read_range, whiteboards_list_nodes, tasks_list,
    task_comments_list, records_list, definitions_list, definitions_get, instances_get, approval_tasks_query,
    mail_list, mail_search, mail_get, folders_list, users_search} : ~op.writes
    BY <1>0 DEF calendars_primary, events_instance_view, freebusy_query, rooms_list_buildings, rooms_list,
      rooms_freebusy, wiki_search, files_list, docx_get_raw_content, wiki_get_node, im_list_reply_chain,
      meetings_get, meetings_list_by_no, docx_list_blocks, sheets_read_range, whiteboards_list_nodes,
      tasks_list, task_comments_list, records_list, definitions_list, definitions_get, instances_get,
      approval_tasks_query, mail_list, mail_search, mail_get, folders_list, users_search
  <1>2. {calendars_primary, events_instance_view, freebusy_query, rooms_list_buildings, rooms_list,
    rooms_freebusy, wiki_search, files_list, docx_get_raw_content, wiki_get_node, im_list_reply_chain,
    meetings_get, meetings_list_by_no, docx_list_blocks, sheets_read_range, whiteboards_list_nodes, tasks_list,
    task_comments_list, records_list, definitions_list, definitions_get, instances_get, approval_tasks_query,
    mail_list, mail_search, mail_get, folders_list, users_search} \subseteq Operations
    BY DEF Operations
  <1>3. {events_create, events_update, events_delete, events_reply, attendees_add, docx_create,
    docx_append_blocks, docx_patch_block, files_delete, sheets_append_range, sheets_write_range,
    sheets_delete_dimension, tasks_create, task_comments_create, tasks_update, tasks_delete,
    task_comments_update, task_comments_delete, records_create, records_update, records_delete,
    instances_create, approval_files_upload, instances_cancel, approval_tasks_approve, approval_tasks_reject,
    reserves_apply, reserves_update, reserves_delete, mail_send, files_upload} \subseteq Operations
    BY DEF Operations
  <1> QED BY <1>1, <1>2, <1>3 DEF ReadingOperation

\* Every tool but two writes with its last operation.
LEMMA ToolsSound ==
    \A name \in DOMAIN Registry \ {"book_meeting_room", "create_approval_instance"} : WritesLast(Registry[name])
PROOF
  <1>1. calendars_primary \in ReadingOperation /\ ReadingOperation \subseteq Operations
    BY OperationsOfTools DEF ReadingOperation
  <1>2. ASSUME NEW op \in ReadingOperation, NEW more, Readers(more)
        PROVE  WritesLast(Reading(Completes(One(op)))) /\ WritesLast(Reading(Completes(One(op)) \cup more))
    <2>1. Readers(Completes(One(op))) /\ Readers(Completes(One(op)) \cup more)
      BY <1>2, OneRead, MorePlans
    <2> QED BY <2>1, ReadingTools
  <1>3. \A op \in Operations : WritesLast(Writing(Completes(One(op))))
    BY <1>1, NoOperation, OneWrite
  <1>4. \A op \in Operations : WritesLast(Writing(Completes(One(op)) \cup Declines({<<>>})))
    BY <1>1, NoOperation, OneWrite
  <1>5. \A op \in Operations : WritesLast(Writing(Completes(One(op)) \cup Refuses))
    BY <1>1, NoOperation, OneWrite
  <1>6. \A tool : WritesLast(tool) => WritesLast(ByApp(tool)) /\ WritesLast(Scoped(tool)) /\ WritesLast(Wrapped(tool))
    BY <1>1, MarkedTools
  <1>7. \A tool \in {create_document, append_to_document, update_document, delete_document, append_to_sheet,
    update_sheet_range, delete_sheet_rows, create_bitable_record, update_bitable_record, delete_bitable_record,
    update_reservation, cancel_reservation} : WritesLast(tool)
    BY <1>3, <1>4, <1>5, <1>6, OperationsOfTools DEF create_document, append_to_document, update_document,
      delete_document, append_to_sheet, update_sheet_range, delete_sheet_rows, create_bitable_record,
      update_bitable_record, delete_bitable_record, update_reservation, cancel_reservation
  <1>8. \A tool \in {create_task, comment_on_task, update_task, delete_task, update_task_comment,
    delete_task_comment, cancel_approval_instance, approve_approval_task, reject_approval_task, reserve_meeting,
    upload_shared_file_to_drive, send_mail_message} : WritesLast(tool)
    BY <1>3, <1>4, <1>5, <1>6, OperationsOfTools DEF create_task, comment_on_task, update_task, delete_task,
      update_task_comment, delete_task_comment, cancel_approval_instance, approve_approval_task,
      reject_approval_task, reserve_meeting, upload_shared_file_to_drive, send_mail_message
  <1>9. \A tool \in {get_message_thread, list_document_blocks, read_sheet_range, list_whiteboard_nodes,
    list_bitable_records, list_approval_definitions, list_meeting_room_buildings, list_meeting_rooms,
    query_meeting_room_freebusy, list_my_tasks, list_task_comments, list_mail_messages} : WritesLast(tool)
    BY <1>2, <1>6, NoOperation, OperationsOfTools DEF get_message_thread, list_document_blocks,
      read_sheet_range, list_whiteboard_nodes, list_bitable_records, list_approval_definitions,
      list_meeting_room_buildings, list_meeting_rooms, query_meeting_room_freebusy, list_my_tasks,
      list_task_comments, list_mail_messages
  <1>10. \A tool \in {search_mail_messages, get_mail_message, list_mail_folders, get_approval_definition,
    list_my_pending_approvals, find_user, query_calendar_freebusy} : WritesLast(tool)
    BY <1>2, <1>6, NoOperation, OperationsOfTools DEF search_mail_messages, get_mail_message, list_mail_folders,
      get_approval_definition, list_my_pending_approvals, find_user, query_calendar_freebusy
  <1>11. \A tool \in {create_calendar_event, update_calendar_event, cancel_calendar_event, respond_to_invite} :
    WritesLast(tool)
    BY <1>1, <1>6, CalendarWrite, OperationsOfTools DEF create_calendar_event, update_calendar_event,
      cancel_calendar_event, respond_to_invite
  <1>12. \A tool \in {list_my_payment_accounts, list_shared_files, describe_shared_file} : WritesLast(tool)
    BY <1>6, NoOperation, MorePlans, ReadingTools DEF list_my_payment_accounts, list_shared_files,
      describe_shared_file
  <1>13. WritesLast(list_calendar_events)
    <2>1. <<events_instance_view>> \in Seq(ReadingOperation) /\ <<calendars_primary>> \in Seq(ReadingOperation)
          /\ <<calendars_primary, events_instance_view>> \in Seq(ReadingOperation)
      BY OperationsOfTools, ShortFlows
    <2>2. Readers(Completes(OnCalendar(events_instance_view))) /\ Readers(NoCalendar)
      <3>1. /\ OnCalendar(events_instance_view) # {} /\ {<<calendars_primary>>} # {}
            /\ \A f \in OnCalendar(events_instance_view) : f \in Seq(ReadingOperation)
            /\ \A f \in {<<calendars_primary>>} : f \in Seq(ReadingOperation)
        BY <2>1 DEF OnCalendar
      <3> QED BY <3>1, ReadingPlans DEF NoCalendar
    <2>3. Readers(Completes(OnCalendar(events_instance_view)) \cup NoCalendar \cup Raises({<<>>}))
      BY <2>2, NoOperation, MorePlans
    <2> QED BY <1>6, <2>3, ReadingTools DEF list_calendar_events
  <1>14. WritesLast(search_documents)
    <2>1. <<wiki_search>> \in Seq(ReadingOperation) /\ <<files_list>> \in Seq(ReadingOperation)
      BY OperationsOfTools, ShortFlows
    <2>2. {<<wiki_search>>, <<files_list>>} # {} /\ \A f \in {<<wiki_search>>, <<files_list>>} : f \in Seq(ReadingOperation)
      BY <2>1
    <2> QED BY <2>2, ReadingPlans, ReadingTools DEF search_documents
  <1>15. WritesLast(get_document_content) /\ WritesLast(get_meeting_record)
    <2>1. Readers(DocumentAfter(<<>>)) /\ Readers(DocumentAfter(<<meetings_get>>))
          /\ Readers(DocumentAfter(<<meetings_list_by_no>>))
      BY OperationsOfTools, DocumentReads
    <2>2. Readers(DocumentAfter(<<>>) \cup DocumentAfter(<<meetings_get>>) \cup DocumentAfter(<<meetings_list_by_no>>))
      BY <2>1, MorePlans
    <2> QED BY <2>1, <2>2, ReadingTools DEF get_document_content, get_meeting_record
  <1>16. WritesLast(get_approval_status)
    <2> DEFINE F == {<<>>, <<instances_get>>}
    <2>1. F # {} /\ \A f \in F : f \in Seq(ReadingOperation)
      BY OperationsOfTools, ShortFlows
    <2> HIDE DEF F
    <2>2. Readers(Declines(F))
      BY <2>1, ReadingPlans
    <2> QED BY <1>2, <1>6, <2>2, OperationsOfTools DEF get_approval_status, F
  <1>17. WritesLast(summarize_mail_message)
    <2> DEFINE F == {<<>>, <<mail_get>>}
    <2>0. mail_get \in ReadingOperation
      BY OperationsOfTools
    <2>1. F # {} /\ \A f \in F : f \in Seq(ReadingOperation)
      BY <2>0, ShortFlows
    <2> HIDE DEF F
    <2>2. Readers(Completes(One(mail_get)) \cup Declines(F))
      BY <2>0, <2>1, ReadingPlans, MorePlans, OneRead
    <2>3. WritesLast(Wrapped(Unmarked(Completes(One(mail_get)) \cup Declines(F))))
      BY <1>6, <2>2, ReadingTools
    <2> QED BY <2>0, <2>3, MarkedTools DEF summarize_mail_message, F
  <1>18. WritesLast(summarize_mail_messages)
    <2> DEFINE F == {<<mail_list, mail_get>>, <<mail_list>>, <<mail_get>>}
               G == {<<>>, <<mail_list, mail_get>>, <<mail_get>>}
    <2>0. mail_get \in ReadingOperation /\ mail_list \in ReadingOperation
      BY OperationsOfTools
    <2>1. F # {} /\ G # {} /\ (\A f \in F : f \in Seq(ReadingOperation)) /\ (\A f \in G : f \in Seq(ReadingOperation))
      BY <2>0, ShortFlows
    <2> HIDE DEF F, G
    <2>2. Readers(Completes(F) \cup Declines(G))
      BY <2>1, ReadingPlans, MorePlans
    <2>3. WritesLast(Wrapped(Unmarked(Completes(F) \cup Declines(G))))
      BY <1>6, <2>2, ReadingTools
    <2> QED BY <2>0, <2>3, MarkedTools DEF summarize_mail_messages, F, G
  <1> QED BY <1>7, <1>8, <1>9, <1>10, <1>11, <1>12, <1>13, <1>14, <1>15, <1>16, <1>17, <1>18 DEF Registry

\* The two that write before.
LEMMA OtherTools ==
    /\ ToolOK(book_meeting_room)
    /\ ToolOK(create_approval_instance) /\ create_approval_instance.wrapped = FALSE
PROOF
  <1> DEFINE F == {<<calendars_primary, events_create, attendees_add>>, <<calendars_primary, events_create>>}
             G == {<<definitions_get, instances_create>>,
                   <<definitions_get, approval_files_upload, instances_create>>}
             H == {<<>>, <<definitions_get>>, <<definitions_get, approval_files_upload>>}
             K == {<<calendars_primary>>}
  <1>1. /\ calendars_primary \in Operations /\ events_create \in Operations /\ attendees_add \in Operations
        /\ definitions_get \in Operations /\ instances_create \in Operations
        /\ approval_files_upload \in Operations
    BY OperationsOfTools DEF ReadingOperation
  <1>2. \A f \in F \cup G \cup H \cup K : f \in Seq(Operations)
    <2>1. /\ <<calendars_primary, events_create, attendees_add>> \in Seq(Operations)
          /\ <<calendars_primary, events_create>> \in Seq(Operations) /\ <<calendars_primary>> \in Seq(Operations)
      BY <1>1
    <2>2. /\ <<definitions_get, instances_create>> \in Seq(Operations) /\ <<definitions_get>> \in Seq(Operations)
          /\ <<definitions_get, approval_files_upload, instances_create>> \in Seq(Operations)
          /\ <<definitions_get, approval_files_upload>> \in Seq(Operations) /\ <<>> \in Seq(Operations)
      BY <1>1
    <2> QED BY <2>1, <2>2
  <1>3. F # {} /\ G # {}
    OBVIOUS
  <1> HIDE DEF F, G, H, K
  <1>4. ASSUME NEW flows, flows \subseteq F \cup G \cup H \cup K,
               NEW end \in {"completed", "declined", "raised", "invalid"}
        PROVE  \A plan \in Plans(flows, end) : PlanOK(plan)
    BY <1>2, <1>4, PlansOf DEF PlanOK
  <1> DEFINE P == Completes(F) \cup Raises(K)
             Q == Completes(G) \cup Declines(H)
  <1>5. P # {} /\ Q # {} /\ (\A plan \in P : PlanOK(plan)) /\ (\A plan \in Q : PlanOK(plan))
    BY <1>3, <1>4, PlansOf DEF Completes, Raises, Declines
  <1>6. book_meeting_room = Wrapped(Writing(P)) /\ create_approval_instance = ByApp(Writing(Q))
    BY DEF book_meeting_room, create_approval_instance, NoCalendar, F, G, H, K
  <1> HIDE DEF P, Q
  <1>7. ToolOK(Wrapped(Writing(P)))
    BY <1>5 DEF ToolOK, Wrapped, Writing, Tool, ToolField, View
  <1>8. ToolOK(ByApp(Writing(Q))) /\ ByApp(Writing(Q)).wrapped = FALSE
    BY <1>5 DEF ToolOK, ByApp, Writing, Tool, ToolField, View
  <1> QED BY <1>6, <1>7, <1>8

\* What the agents rely on.
LEMMA ToolFacts ==
    ASSUME NEW name \in Tools
    PROVE  /\ ToolOK(Registry[name])
           /\ name \notin {"book_meeting_room", "create_approval_instance"} => WritesLast(Registry[name])
           /\ name = "create_approval_instance" => Registry[name].wrapped = FALSE
PROOF
  <1>1. name \in DOMAIN Registry
    BY ToolsAssumption DEF ToolsAssumption
  <1>2. CASE name = "book_meeting_room"
    BY <1>2, OtherTools DEF Registry
  <1>3. CASE name = "create_approval_instance"
    BY <1>3, OtherTools DEF Registry
  <1>4. CASE name \notin {"book_meeting_room", "create_approval_instance"}
    BY <1>1, <1>4, ToolsSound DEF WritesLast
  <1> QED BY <1>2, <1>3, <1>4

-----------------------------------------------------------------------------
(***************************************************************************)
(* Requests.  A namespace of a view is bound to that view (BoundOK), so    *)
(* that the user's token goes with the user's view (SenderOK); and a write *)
(* that may not be repeated has not been applied while its call is not     *)
(* over (WriteOK).                                                         *)
(***************************************************************************)
BoundOK == \A b \in bound : \E v \in View, n \in NAMESPACE_SLOTS : b = <<v, n, v>>

\* A call of some operations, of which one with the caller's key is alone.
Chosen(s) ==
    /\ s.flow \in Seq(Operations) /\ s.flow # <<>>
    /\ s.view \in View
    /\ s.own \in BOOLEAN
    /\ s.own = TRUE => Len(s.flow) = 1 /\ Op(s).key # "none" /\ s.total \in {0, 1}

WriteOK(s) ==
    Once(Op(s)) =>
        /\ s.done \in {0, 1}
        /\ s.at # "over" => s.done = 0
        /\ s.result \in {"error", "permission"} => s.done = 0

SenderOK(s) ==
    Op(s).token = "app" =>
        /\ s.at = "lock" \/ Fetching(s) => s.view = "app"
        /\ Pending(s) /\ s.purpose = "op" => (s.tok = UserToken <=> s.view = "user")

RequestOK(s) ==
    IF s.at = "idle" THEN s.own = FALSE /\ s.flow = <<>>
    ELSE Chosen(s) /\ WriteOK(s) /\ SenderOK(s) /\ (s.at # "over" => s.result = "none")

RInv ==
    /\ BoundOK
    /\ menu \in [Caller -> SUBSET Flows]
    /\ \A c \in Caller : RequestOK(call[c])

\* A call that may send its next request.
Ready(s) == IsCall(s) /\ Chosen(s) /\ s.result = "none" /\ (Once(Op(s)) => s.done = 0)

\* What a call does, beside its requests.
SameWork(s, r) ==
    /\ IsCall(r)
    /\ r.view = s.view /\ r.flow = s.flow /\ r.own = s.own /\ r.left = s.left
    /\ r.done = s.done /\ r.total = s.total /\ r.writes = s.writes /\ r.touched = s.touched

\* Requests, sleeps and ends of a call change neither its operations nor its writes.
LEMMA RequestSame ==
    ASSUME NEW s, IsCall(s), NEW p, NEW t, NEW k, NEW d
    PROVE  /\ SameWork(s, Sent(s, p, t)) /\ Sent(s, p, t).result = s.result
           /\ SameWork(s, Slept(s, d)) /\ Slept(s, d).result = s.result /\ Slept(s, d).at = "sleep"
           /\ Slept(s, d).purpose = s.purpose /\ Slept(s, d).tok = s.tok
           /\ SameWork(s, Resent(s)) /\ Resent(s).result = s.result /\ Resent(s).at = "flight"
           /\ Resent(s).purpose = s.purpose /\ Resent(s).tok = s.tok
           /\ SameWork(s, Over(s, k)) /\ Over(s, k).at = "over"
           /\ Over(s, k).result = IF k \in {"server", "transport", "cancelled"} THEN "unknown" ELSE k
PROOF
  <1>1. SameWork(s, Sent(s, p, t)) /\ Sent(s, p, t).result = s.result
    BY DEF Sent, IsCall, Field, SameWork
  <1>2. /\ SameWork(s, Slept(s, d)) /\ Slept(s, d).result = s.result /\ Slept(s, d).at = "sleep"
        /\ Slept(s, d).purpose = s.purpose /\ Slept(s, d).tok = s.tok
    BY DEF Slept, IsCall, Field, SameWork
  <1>3. /\ SameWork(s, Resent(s)) /\ Resent(s).result = s.result /\ Resent(s).at = "flight"
        /\ Resent(s).purpose = s.purpose /\ Resent(s).tok = s.tok
    BY DEF Resent, IsCall, Field, SameWork
  <1>4. /\ SameWork(s, Over(s, k)) /\ Over(s, k).at = "over"
        /\ Over(s, k).result = IF k \in {"server", "transport", "cancelled"} THEN "unknown" ELSE k
    BY ZenonT(40) DEF Over, IsCall, Field, SameWork
  <1> QED BY <1>1, <1>2, <1>3, <1>4

\* The same work is as well chosen.
LEMMA SameChosen ==
    ASSUME NEW s, NEW r, SameWork(s, r)
    PROVE  (Chosen(s) => Chosen(r)) /\ Op(r) = Op(s)
  BY DEF SameWork, Chosen, Op

\* The operation of a call is one of the API.
LEMMA OpOfCall ==
    ASSUME NEW s, Chosen(s)
    PROVE  Op(s) \in Operations /\ Op(s) = s.flow[1] /\ OneShot(Op(s)) /\ Len(s.flow) \in Nat \ {0}
PROOF
  <1>1. Op(s) \in Operations /\ Op(s) = s.flow[1] /\ Len(s.flow) \in Nat \ {0}
    BY DEF Chosen, Op
  <1> QED BY <1>1, OperationsOneShot

\* A namespace is bound to the view it is read from.
LEMMA ClientOfView ==
    ASSUME BoundOK, NEW view, NEW slot
    PROVE  ClientOf(view, slot) = view
PROOF
  <1>1. \A w : <<view, slot, w>> \in bound => w = view
    BY DEF BoundOK
  <1>2. CASE \E w \in View : <<view, slot, w>> \in bound
    <2> DEFINE w == CHOOSE w \in View : <<view, slot, w>> \in bound
    <2>1. <<view, slot, w>> \in bound /\ ClientOf(view, slot) = w
      BY <1>2 DEF ClientOf
    <2> QED BY <1>1, <2>1
  <1>3. CASE ~\E w \in View : <<view, slot, w>> \in bound
    BY <1>3 DEF ClientOf
  <1> QED BY <1>2, <1>3

\* A namespace is read before an operation of it is called.
LEMMA AccessKeeps ==
    ASSUME BoundOK, NEW view \in View, NEW op \in Operations, Access(view, op.ns)
    PROVE  BoundOK'
PROOF
  <1>1. op.ns \in NAMESPACE_SLOTS /\ ClientOf(view, op.ns) = view
    BY OperationsOneShot, ClientOfView DEF OneShot
  <1> QED BY <1>1 DEF Access, BoundOK

\* The view decides whose token is sent.
LEMMA WithTokenRequest ==
    ASSUME CInv, BoundOK, NEW s, Ready(s)
    PROVE  RequestOK(WithToken(s))
PROOF
  <1> DEFINE r == WithToken(s)
             op == Op(s)
  <1>1. \/ op.token # "app" /\ \E t : r = Sent(s, "op", t)
        \/ op.token = "app" /\ s.view = "user" /\ r = Sent(s, "op", UserToken)
        \/ (op.token = "app" => s.view # "user") /\ Fresh /\ r = Sent(s, "op", cache.value)
        \/ (op.token = "app" => s.view # "user") /\ r = [s EXCEPT !.at = "lock"]
    <2>1. ClientOf(s.view, op.ns) = s.view
      BY ClientOfView
    <2> QED BY <2>1 DEF WithToken
  <1>2. IsCall(s) /\ Chosen(s) /\ s.result = "none"
    BY DEF Ready
  <1>3. cache.value # UserToken
    BY Numbers DEF CInv, CacheOK
  <1>4. \A t : LET q == Sent(s, "op", t) IN
               SameWork(s, q) /\ q.result = "none" /\ q.at = "flight" /\ q.purpose = "op" /\ q.tok = t
    BY <1>2, RequestSame, SentFields
  <1>5. SameWork(s, [s EXCEPT !.at = "lock"]) /\ [s EXCEPT !.at = "lock"].at = "lock"
        /\ [s EXCEPT !.at = "lock"].result = "none"
    BY <1>2 DEF SameWork, IsCall, Field
  <1>6. /\ SameWork(s, r) /\ r.result = "none" /\ r.at \in {"flight", "lock"}
        /\ r.at = "flight" => r.purpose = "op"
        /\ op.token = "app" => /\ r.at = "lock" => s.view # "user"
                               /\ r.at = "flight" => (r.tok = UserToken <=> s.view = "user")
    <2>1. CASE op.token # "app" /\ \E t : r = Sent(s, "op", t)
      BY <1>4, <2>1
    <2>2. CASE op.token = "app" /\ s.view = "user" /\ r = Sent(s, "op", UserToken)
      BY <1>4, <2>2
    <2>3. CASE (op.token = "app" => s.view # "user") /\ Fresh /\ r = Sent(s, "op", cache.value)
      BY <1>3, <1>4, <2>3
    <2>4. CASE (op.token = "app" => s.view # "user") /\ r = [s EXCEPT !.at = "lock"]
      BY <1>5, <2>4
    <2> QED BY <1>1, <2>1, <2>2, <2>3, <2>4
  <1> HIDE DEF r
  <1>7. Chosen(r) /\ Op(r) = op
    BY <1>2, <1>6, SameChosen
  <1>8. WriteOK(r)
    BY <1>6, <1>7 DEF Ready, WriteOK, SameWork
  <1>9. SenderOK(r)
    BY <1>2, <1>6, <1>7 DEF SenderOK, SameWork, Chosen, View, Fetching, Pending
  <1>10. RequestOK(r)
    BY <1>6, <1>7, <1>8, <1>9 DEF RequestOK
  <1> QED BY <1>10 DEF r

\* A call that is answered ends; one that was refused has written nothing.
LEMMA OverRequest ==
    ASSUME NEW s, IsCall(s), Chosen(s), NEW k,
           Once(Op(s)) => s.done \in {0, 1},
           Once(Op(s)) /\ k \in {"error", "permission"} => s.done = 0
    PROVE  RequestOK(Over(s, k))
PROOF
  <1> DEFINE r == Over(s, k)
  <1>1. SameWork(s, r) /\ r.at = "over" /\ (r.result \in {"error", "permission"} => k \in {"error", "permission"})
    BY RequestSame
  <1> HIDE DEF r
  <1>2. Chosen(r) /\ Op(r) = Op(s)
    BY <1>1, SameChosen
  <1>3. WriteOK(r)
    BY <1>1, <1>2 DEF WriteOK, SameWork
  <1>4. SenderOK(r)
    BY <1>1 DEF SenderOK, Fetching, Pending
  <1>5. RequestOK(r)
    BY <1>1, <1>2, <1>3, <1>4 DEF RequestOK
  <1> QED BY <1>5 DEF r

\* The next operation of a flow.
LEMMA TailReady ==
    ASSUME NEW s, IsCall(s), Chosen(s), s.result = "none", Len(s.flow) # 1
    PROVE  LET r == [s EXCEPT !.flow = Tail(@), !.page = 1, !.done = 0] IN
           /\ Ready(r) /\ r.flow = Tail(s.flow) /\ r.done = 0 /\ r.writes = s.writes /\ r.touched = s.touched
           /\ r.left = s.left
PROOF
  <1> DEFINE r == [s EXCEPT !.flow = Tail(@), !.page = 1, !.done = 0]
  <1>1. /\ IsCall(r) /\ r.flow = Tail(s.flow) /\ r.done = 0 /\ r.writes = s.writes /\ r.touched = s.touched
        /\ r.left = s.left /\ r.view = s.view /\ r.own = s.own /\ r.result = s.result
    BY DEF IsCall, Field
  <1> HIDE DEF r
  <1>2. s.own = FALSE /\ s.flow \in Seq(Operations) /\ Len(s.flow) \in Nat \ {0} /\ Len(s.flow) # 1
    BY OpOfCall DEF Chosen
  <1>3. Tail(s.flow) \in Seq(Operations) /\ Len(Tail(s.flow)) = Len(s.flow) - 1
    BY <1>2
  <1>4. Tail(s.flow) # <<>>
    <2>1. Len(Tail(s.flow)) # 0
      BY <1>2, <1>3
    <2>2. Len(<<>>) = 0
      OBVIOUS
    <2> QED BY <2>1, <2>2
  <1>5. Chosen(r)
    BY <1>1, <1>2, <1>3, <1>4 DEF Chosen
  <1>6. Ready(r)
    BY <1>1, <1>5 DEF Ready
  <1> QED BY <1>1, <1>6 DEF r

\* The next operation of a helper, or its end.
LEMMA ContinueRequest ==
    ASSUME CInv, BoundOK, NEW s, IsCall(s), Chosen(s), s.result = "none",
           Once(Op(s)) => s.done \in {0, 1}
    PROVE  RequestOK(Continue(s))
PROOF
  <1>1. CASE Len(s.flow) = 1
    BY <1>1, OverRequest DEF Continue
  <1>2. CASE Len(s.flow) # 1
    <2> DEFINE r == [s EXCEPT !.flow = Tail(@), !.page = 1, !.done = 0]
    <2>1. Ready(r)
      BY <1>2, TailReady
    <2>2. Continue(s) = WithToken(r)
      BY <1>2 DEF Continue
    <2> HIDE DEF r
    <2> QED BY <2>1, <2>2, WithTokenRequest
  <1> QED BY <1>1, <1>2

\* Only reads have pages.
LEMMA PageRequest ==
    ASSUME CInv, BoundOK, NEW s, IsCall(s), Chosen(s), s.result = "none",
           Once(Op(s)) => s.done \in {0, 1}, NEW more
    PROVE  RequestOK(AfterPage(s, more))
PROOF
  <1>1. CASE Op(s).pages = "one"
    BY <1>1, ContinueRequest DEF AfterPage
  <1>2. CASE Op(s).pages # "one"
    <2> DEFINE r == [s EXCEPT !.page = @ + 1]
    <2>1. ~Once(Op(s))
      BY <1>2, OpOfCall DEF OneShot, Once
    <2>2. SameWork(s, r) /\ r.result = "none"
      BY DEF SameWork, IsCall, Field
    <2>3. \/ AfterPage(s, more) = Continue(s)
          \/ AfterPage(s, more) = Over(s, "error")
          \/ AfterPage(s, more) = WithToken(r)
          \/ AfterPage(s, more) = WithToken(s)
      BY DEF AfterPage
    <2> HIDE DEF r
    <2>4. Ready(s) /\ Ready(r)
      BY <2>1, <2>2, SameChosen DEF Ready, SameWork
    <2> QED BY <2>1, <2>3, <2>4, ContinueRequest, OverRequest, WithTokenRequest
  <1> QED BY <1>1, <1>2

\* A write is applied when it has not been, and once under a key of the caller.
LEMMA AppliedRequest ==
    ASSUME NEW s, IsCall(s), Chosen(s), WriteOK(s), s.at # "over", NEW e
    PROVE  LET r == Applied(s, e) IN
           /\ IsCall(r) /\ Chosen(r) /\ Op(r) = Op(s) /\ r.at = s.at /\ r.result = s.result
           /\ r.purpose = s.purpose /\ r.tok = s.tok /\ r.view = s.view
           /\ Once(Op(s)) => r.done \in {0, 1}
           /\ ~e \/ s.purpose # "op" => r = s
PROOF
  <1> DEFINE r == Applied(s, e)
  <1>1. CASE r = s
    BY <1>1 DEF WriteOK
  <1>2. CASE r # s
    <2>1. /\ r = [s EXCEPT !.done = @ + 1, !.total = @ + 1, !.touched = TRUE,
                           !.writes = IF Op(s).verb \in IDEMPOTENT_METHODS THEN @ ELSE @ + 1]
          /\ ~(~e \/ s.purpose # "op")
          /\ Op(s).key # "none" => ~(s.done > 0 \/ (s.own = TRUE /\ s.total > 0))
      BY <1>2 DEF Applied, Uuid
    <2>2. /\ IsCall(r) /\ r.at = s.at /\ r.result = s.result /\ r.purpose = s.purpose /\ r.tok = s.tok
          /\ r.view = s.view /\ r.flow = s.flow /\ r.own = s.own /\ r.done = s.done + 1 /\ r.total = s.total + 1
      BY <2>1 DEF IsCall, Field
    <2>3. Op(r) = Op(s)
      BY <2>2 DEF Op
    <2>4. Chosen(r)
      BY <2>1, <2>2, <2>3 DEF Chosen
    <2>5. Once(Op(s)) => r.done \in {0, 1}
      BY <2>2 DEF WriteOK
    <2> QED BY <2>1, <2>2, <2>3, <2>4, <2>5
  <1> QED BY <1>1, <1>2

\* What an answer says of the request.
LEMMA OutcomeFacts ==
    ASSUME NEW o \in Outcome
    PROVE  o.kind \notin {"ok", "server", "transport"} => ~o.executed
PROOF
  <1>1. CASE o \in [kind : {"server", "transport"}, executed : BOOLEAN]
    BY <1>1
  <1>2. CASE o \in {[kind |-> Kind(r), executed |-> Kind(r) = "ok"] : r \in Reply}
    <2>1. PICK r \in Reply : o = [kind |-> Kind(r), executed |-> Kind(r) = "ok"]
      BY <1>2
    <2>2. o.kind = Kind(r) /\ o.executed = (Kind(r) = "ok")
      BY <2>1
    <2> HIDE DEF Kind
    <2> QED BY <2>2
  <1> QED BY <1>1, <1>2 DEF Outcome

-----------------------------------------------------------------------------
(***************************************************************************)
(* What a call goes on to write.  A call that only reads stays one         *)
(* (ReadsOnly); the operations it has left bound what it writes (Within);  *)
(* and when only the last operation of a flow writes, nothing has been     *)
(* written before it is applied (LastWrite).                               *)
(***************************************************************************)
\* The operations that are left only read, and nothing was written.
ReadsOnly(s) ==
    s.flow \in Seq(ReadingOperation) /\ s.flow # <<>> /\ s.touched = FALSE /\ s.writes = 0

\* The writes that are left.
ToDo(s) == {i \in DOMAIN s.flow : Once(s.flow[i]) /\ (i = 1 => s.done = 0)}

Within(s, n) ==
    s.writes \in Nat /\ Cardinality(ToDo(s)) \in Nat /\ s.writes + Cardinality(ToDo(s)) <= n

LastWrite(s) ==
    /\ \A i \in DOMAIN s.flow : Once(s.flow[i]) => i = Len(s.flow)
    /\ s.writes = 0 \/ (Once(Op(s)) /\ s.done # 0)

Keeps(s, r) ==
    /\ IsCall(r) /\ r.left = s.left
    /\ ReadsOnly(s) => ReadsOnly(r)
    /\ LastWrite(s) => LastWrite(r)
    /\ \A n \in Nat : Within(s, n) => Within(r, n)

\* Keeping is transitive.
LEMMA KeepsTwice ==
    ASSUME NEW q, NEW r, NEW s, Keeps(q, r), Keeps(r, s)
    PROVE  Keeps(q, s)
  BY DEF Keeps

\* The same work goes on.
LEMMA SameKeeps ==
    ASSUME NEW s, NEW r, SameWork(s, r)
    PROVE  Keeps(s, r)
PROOF
  <1>1. r.flow = s.flow /\ r.done = s.done /\ r.writes = s.writes /\ r.touched = s.touched /\ Op(r) = Op(s)
        /\ IsCall(r) /\ r.left = s.left
    BY DEF SameWork, Op
  <1>2. ToDo(r) = ToDo(s)
    BY <1>1 DEF ToDo
  <1>3. ReadsOnly(s) => ReadsOnly(r)
    BY <1>1 DEF ReadsOnly
  <1>4. LastWrite(s) => LastWrite(r)
    BY <1>1 DEF LastWrite
  <1>5. \A n \in Nat : Within(s, n) => Within(r, n)
    BY <1>1, <1>2 DEF Within
  <1> QED BY <1>1, <1>3, <1>4, <1>5 DEF Keeps

\* The writes that are left are finitely many.
LEMMA ToDoFinite ==
    ASSUME NEW s, Chosen(s)
    PROVE  /\ Len(s.flow) \in Nat /\ DOMAIN s.flow = 1..Len(s.flow)
           /\ ToDo(s) \subseteq 1..Len(s.flow) /\ IsFiniteSet(ToDo(s)) /\ Cardinality(ToDo(s)) \in Nat
PROOF
  <1>1. Len(s.flow) \in Nat /\ DOMAIN s.flow = 1..Len(s.flow)
    BY DEF Chosen
  <1>2. ToDo(s) \subseteq 1..Len(s.flow)
    BY <1>1 DEF ToDo
  <1>3. IsFiniteSet(1..Len(s.flow))
    BY <1>1, FS_Interval
  <1>4. IsFiniteSet(ToDo(s))
    BY <1>2, <1>3, FS_Subset
  <1> QED BY <1>1, <1>2, <1>4, FS_CardinalityType

\* A write that is applied is one less to do.
LEMMA AppliedKeeps ==
    ASSUME NEW s, IsCall(s), Chosen(s), WriteOK(s), s.at # "over", NEW e
    PROVE  Keeps(s, Applied(s, e))
PROOF
  <1> DEFINE r == Applied(s, e)
  <1>1. CASE r = s
    BY <1>1 DEF Keeps
  <1>2. CASE r # s
    <2>1. /\ r = [s EXCEPT !.done = @ + 1, !.total = @ + 1, !.touched = TRUE,
                           !.writes = IF Op(s).verb \in IDEMPOTENT_METHODS THEN @ ELSE @ + 1]
          /\ Op(s).writes
      BY <1>2 DEF Applied
    <2>2. /\ IsCall(r) /\ r.left = s.left /\ r.flow = s.flow /\ r.done = s.done + 1
          /\ r.writes = IF Op(s).verb \in IDEMPOTENT_METHODS THEN s.writes ELSE s.writes + 1
      BY <2>1 DEF IsCall, Field
    <2> HIDE DEF r
    <2>3. Op(r) = Op(s) /\ Op(s) = s.flow[1] /\ (Once(Op(s)) => s.done = 0)
      BY <2>2, OpOfCall DEF Op, WriteOK
    <2>4. ~ReadsOnly(s)
      <3>1. ReadsOnly(s) => Op(s) \in ReadingOperation
        BY DEF ReadsOnly, Op
      <3> QED BY <2>1, <3>1 DEF ReadingOperation
    <2>5. CASE Once(Op(s))
      <3>1. r.done = 1 /\ r.writes = s.writes + 1 /\ s.done = 0
        BY <2>2, <2>3, <2>5 DEF Once
      <3>2. LastWrite(s) => LastWrite(r)
        BY <2>2, <2>3, <2>5, <3>1 DEF LastWrite
      <3>3. 1 \in ToDo(s) /\ ToDo(r) = ToDo(s) \ {1}
        BY <2>2, <2>3, <2>5, <3>1, OpOfCall, ToDoFinite DEF ToDo
      <3>4. Cardinality(ToDo(r)) = Cardinality(ToDo(s)) - 1 /\ Cardinality(ToDo(s)) \in Nat
            /\ Cardinality(ToDo(r)) \in Nat
        BY <3>3, ToDoFinite, FS_RemoveElement, FS_CardinalityType
      <3>5. \A n \in Nat : Within(s, n) => Within(r, n)
        BY <3>1, <3>4 DEF Within
      <3> QED BY <2>2, <2>4, <3>2, <3>5 DEF Keeps, r
    <2>6. CASE ~Once(Op(s))
      <3>1. r.writes = s.writes
        BY <2>1, <2>2, <2>6 DEF Once
      <3>2. LastWrite(s) => LastWrite(r)
        BY <2>2, <2>6, <3>1 DEF LastWrite
      <3>3. ToDo(r) = ToDo(s)
        BY <2>2, <2>3, <2>6 DEF ToDo
      <3>4. \A n \in Nat : Within(s, n) => Within(r, n)
        BY <3>1, <3>3 DEF Within
      <3> QED BY <2>2, <2>4, <3>2, <3>4 DEF Keeps, r
    <2> QED BY <2>5, <2>6
  <1> QED BY <1>1, <1>2

\* The choice of a token leaves the operations alone.
LEMMA WithTokenKeeps ==
    ASSUME NEW s, IsCall(s)
    PROVE  Keeps(s, WithToken(s))
PROOF
  <1> DEFINE r == WithToken(s)
  <1>1. \/ r = Sent(s, "op", NoToken)
        \/ r = Sent(s, "op", UserToken)
        \/ r = Sent(s, "op", cache.value)
        \/ r = [s EXCEPT !.at = "lock"]
    BY DEF WithToken
  <1>2. SameWork(s, [s EXCEPT !.at = "lock"])
    BY DEF SameWork, IsCall, Field
  <1>3. \A t : SameWork(s, Sent(s, "op", t))
    BY RequestSame
  <1> HIDE DEF r
  <1>4. SameWork(s, r)
    BY <1>1, <1>2, <1>3
  <1> QED BY <1>4, SameKeeps DEF r

\* The next operation is the first of the rest of the flow.
LEMMA TailKeeps ==
    ASSUME NEW s, IsCall(s), Chosen(s), s.result = "none", Len(s.flow) # 1
    PROVE  Keeps(s, [s EXCEPT !.flow = Tail(@), !.page = 1, !.done = 0])
PROOF
  <1> DEFINE r == [s EXCEPT !.flow = Tail(@), !.page = 1, !.done = 0]
  <1>1. /\ Ready(r) /\ r.flow = Tail(s.flow) /\ r.done = 0 /\ r.writes = s.writes /\ r.touched = s.touched
        /\ r.left = s.left
    BY TailReady
  <1> HIDE DEF r
  <1>2. IsCall(r) /\ Chosen(r)
    BY <1>1 DEF Ready
  <1>3. s.flow \in Seq(Operations) /\ Len(s.flow) \in Nat \ {0} /\ Op(s) = s.flow[1]
    BY OpOfCall DEF Chosen
  <1>4. /\ Len(r.flow) = Len(s.flow) - 1
        /\ DOMAIN r.flow = 1..(Len(s.flow) - 1) /\ DOMAIN s.flow = 1..Len(s.flow)
        /\ \A i \in 1..(Len(s.flow) - 1) : r.flow[i] = s.flow[i + 1]
    BY <1>1, <1>3
  <1>5. ReadsOnly(s) => ReadsOnly(r)
    <2> SUFFICES ASSUME ReadsOnly(s)
                 PROVE  ReadsOnly(r)
      OBVIOUS
    <2>1. s.flow \in Seq(ReadingOperation) /\ s.flow # <<>> /\ s.touched = FALSE /\ s.writes = 0
      BY DEF ReadsOnly
    <2>2. Tail(s.flow) \in Seq(ReadingOperation)
      BY <2>1
    <2>3. r.flow # <<>>
      BY <1>2 DEF Chosen
    <2> QED BY <1>1, <2>1, <2>2, <2>3 DEF ReadsOnly
  <1>6. LastWrite(s) => LastWrite(r)
    <2> SUFFICES ASSUME LastWrite(s)
                 PROVE  LastWrite(r)
      OBVIOUS
    <2>1. ASSUME NEW i \in DOMAIN r.flow, Once(r.flow[i])
          PROVE  i = Len(r.flow)
      <3>1. i + 1 \in DOMAIN s.flow /\ Once(s.flow[i + 1])
        BY <1>3, <1>4, <2>1
      <3>2. i + 1 = Len(s.flow)
        BY <3>1 DEF LastWrite
      <3> QED BY <1>3, <1>4, <3>2
    <2>2. s.writes = 0
      <3>1. 1 \in DOMAIN s.flow
        BY <1>3, <1>4
      <3>2. ~Once(Op(s))
        BY <1>3, <3>1 DEF LastWrite
      <3> QED BY <3>2 DEF LastWrite
    <2> QED BY <1>1, <2>1, <2>2 DEF LastWrite
  <1>7. Cardinality(ToDo(r)) <= Cardinality(ToDo(s))
    <2> DEFINE f == [i \in ToDo(r) |-> i + 1]
    <2>1. ASSUME NEW i \in ToDo(r)
          PROVE  i \in Nat \ {0} /\ i + 1 \in ToDo(s)
      <3>1. i \in 1..(Len(s.flow) - 1) /\ Once(r.flow[i])
        BY <1>4, <2>1 DEF ToDo
      <3>2. i + 1 \in DOMAIN s.flow /\ Once(s.flow[i + 1]) /\ i + 1 # 1 /\ i \in Nat \ {0}
        BY <1>3, <1>4, <3>1
      <3> QED BY <3>2 DEF ToDo
    <2>2. f \in [ToDo(r) -> ToDo(s)]
      BY <2>1
    <2>3. \A i, j \in ToDo(r) : f[i] = f[j] => i = j
      BY <2>1
    <2> HIDE DEF f
    <2>4. f \in Injection(ToDo(r), ToDo(s))
      BY <2>2, <2>3 DEF Injection, IsInjective
    <2> QED BY <2>4, ToDoFinite, FS_Injection
  <1>8. \A n \in Nat : Within(s, n) => Within(r, n)
    <2>1. Cardinality(ToDo(r)) \in Nat /\ Cardinality(ToDo(s)) \in Nat
      BY <1>2, ToDoFinite
    <2> QED BY <1>1, <1>7, <2>1 DEF Within
  <1>9. Keeps(s, r)
    BY <1>1, <1>2, <1>5, <1>6, <1>8 DEF Keeps
  <1> QED BY <1>9 DEF r

\* The next operation of a flow, or its end.
LEMMA ContinueKeeps ==
    ASSUME NEW s, IsCall(s), Chosen(s), s.result = "none"
    PROVE  Keeps(s, Continue(s))
PROOF
  <1>1. CASE Len(s.flow) = 1
    BY <1>1, RequestSame, SameKeeps DEF Continue
  <1>2. CASE Len(s.flow) # 1
    <2> DEFINE r == [s EXCEPT !.flow = Tail(@), !.page = 1, !.done = 0]
    <2>1. Keeps(s, r)
      BY <1>2, TailKeeps
    <2>2. Continue(s) = WithToken(r)
      BY <1>2 DEF Continue
    <2> HIDE DEF r
    <2>3. Keeps(r, WithToken(r))
      BY <2>1, WithTokenKeeps DEF Keeps
    <2> QED BY <2>1, <2>2, <2>3, KeepsTwice
  <1> QED BY <1>1, <1>2

\* Nor do the pages of a list write.
LEMMA PageKeeps ==
    ASSUME NEW s, IsCall(s), Chosen(s), s.result = "none", NEW more
    PROVE  Keeps(s, AfterPage(s, more))
PROOF
  <1> DEFINE r == [s EXCEPT !.page = @ + 1]
  <1>1. SameWork(s, r) /\ IsCall(r)
    BY DEF IsCall, Field, SameWork
  <1>2. \/ AfterPage(s, more) = Continue(s)
        \/ AfterPage(s, more) = Over(s, "error")
        \/ AfterPage(s, more) = WithToken(r)
        \/ AfterPage(s, more) = WithToken(s)
    BY DEF AfterPage
  <1> HIDE DEF r
  <1>3. Keeps(s, WithToken(r))
    BY <1>1, SameKeeps, WithTokenKeeps, KeepsTwice
  <1>4. Keeps(s, Over(s, "error"))
    BY RequestSame, SameKeeps
  <1> QED BY <1>2, <1>3, <1>4, ContinueKeeps, WithTokenKeeps

-----------------------------------------------------------------------------
(***************************************************************************)
(* A step of the client changes the call of one caller.                    *)
(***************************************************************************)
\* What a call becomes.
Becomes(s, r) == RequestOK(r) /\ (s.left = 0 => Keeps(s, r))

\* A call that makes the same request keeps what is known of it.
LEMMA SameRequest ==
    ASSUME NEW s, NEW r, RequestOK(s), s.at \notin {"idle", "over"}, SameWork(s, r), r.result = s.result,
           r.at # "idle",
           Op(s).token = "app" =>
               /\ r.at = "lock" \/ Fetching(r) => s.view = "app"
               /\ Pending(r) /\ r.purpose = "op" => (r.tok = UserToken <=> s.view = "user")
    PROVE  Becomes(s, r)
PROOF
  <1>1. Chosen(s) /\ WriteOK(s) /\ s.result = "none"
    BY DEF RequestOK
  <1>2. Chosen(r) /\ Op(r) = Op(s) /\ r.view = s.view /\ r.done = s.done
    BY <1>1, SameChosen DEF SameWork
  <1>3. WriteOK(r)
    BY <1>1, <1>2 DEF WriteOK
  <1>4. SenderOK(r)
    BY <1>2 DEF SenderOK
  <1>5. RequestOK(r)
    BY <1>1, <1>2, <1>3, <1>4 DEF RequestOK
  <1> QED BY <1>5, SameKeeps DEF Becomes

\* An operation is called, or called again.
LEMMA StartsRequest ==
    ASSUME CInv, RInv, NEW c \in Caller, Begin(c) \/ Repeat(c)
    PROVE  BoundOK' /\ \E r : call' = [call EXCEPT ![c] = r] /\ Becomes(call[c], r)
PROOF
  <1> DEFINE q == call[c]
  <1>1. IsCall(q) /\ RequestOK(q) /\ BoundOK
    BY CallsSettling DEF Settling, RInv
  <1>2. ASSUME NEW view \in View, NEW flow \in Seq(Operations), flow # <<>>, NEW own \in BOOLEAN, NEW total,
               own = TRUE => Len(flow) = 1 /\ flow[1].key # "none" /\ total \in {0, 1}
        PROVE  Ready(Starting(q, view, flow, own, total))
    <2> DEFINE s == Starting(q, view, flow, own, total)
    <2>1. /\ IsCall(s) /\ s.view = view /\ s.flow = flow /\ s.own = own /\ s.total = total
          /\ s.done = 0 /\ s.result = "none"
      BY <1>1, ZenonT(40) DEF Starting, IsCall, Field
    <2> HIDE DEF s
    <2>2. Op(s) = flow[1]
      BY <2>1 DEF Op
    <2>3. Chosen(s)
      BY <1>2, <2>1, <2>2 DEF Chosen
    <2>4. Ready(s)
      BY <2>1, <2>3 DEF Ready
    <2> QED BY <2>4 DEF s
  <1>3. CASE Begin(c)
    <2>1. PICK view \in View, flow \in menu[c], own \in BOOLEAN, malformed \in BOOLEAN :
             /\ own => flow[1].key # "none"
             /\ Access(view, flow[1].ns)
             /\ LET s == Starting(q, view, flow, own, 0) IN
                call' = [call EXCEPT ![c] = IF malformed THEN Over(s, "error") ELSE WithToken(s)]
      BY <1>3 DEF Begin
    <2> DEFINE s == Starting(q, view, flow, own, 0)
    <2>2. flow \in Flows
      BY DEF RInv
    <2>3. flow \in Seq(Operations) /\ flow # <<>> /\ (flow[1].key # "none" => Len(flow) = 1) /\ flow[1] \in Operations
      BY <2>2, FlowsOfOperations
    <2>4. Ready(s)
      BY <1>2, <2>1, <2>3
    <2>5. q.left # 0
      BY <1>3 DEF Begin
    <2>6. BoundOK'
      BY <1>1, <2>1, <2>3, AccessKeeps
    <2> HIDE DEF s
    <2>7. RequestOK(WithToken(s))
      BY <1>1, <2>4, WithTokenRequest
    <2>8. RequestOK(Over(s, "error"))
      BY <2>4, OverRequest DEF Ready
    <2>9. \E r : call' = [call EXCEPT ![c] = r] /\ Becomes(q, r)
      <3>1. CASE malformed = TRUE
        BY <2>1, <2>5, <2>8, <3>1 DEF Becomes, s
      <3>2. CASE malformed = FALSE
        BY <2>1, <2>5, <2>7, <3>2 DEF Becomes, s
      <3> QED BY <3>1, <3>2
    <2> QED BY <2>6, <2>9
  <1>4. CASE Repeat(c)
    <2> DEFINE s == Starting(q, q.view, q.flow, q.own, q.total)
    <2>1. call' = [call EXCEPT ![c] = WithToken(s)] /\ bound' = bound /\ q.left # 0 /\ q.at = "over"
      BY <1>4 DEF Repeat
    <2>2. Chosen(q)
      BY <1>1, <2>1 DEF RequestOK
    <2>3. Ready(s)
      BY <1>2, <2>2, OpOfCall DEF Chosen
    <2> HIDE DEF s
    <2>4. RequestOK(WithToken(s))
      BY <1>1, <2>3, WithTokenRequest
    <2>5. Becomes(q, WithToken(s))
      BY <2>1, <2>4 DEF Becomes
    <2>6. BoundOK'
      BY <1>1, <2>1 DEF BoundOK
    <2> QED BY <2>1, <2>5, <2>6
  <1> QED BY <1>3, <1>4

\* The lock is taken, a sleep ends, the task is cancelled.
LEMMA WaitsRequest ==
    ASSUME CInv, RInv, NEW c \in Caller, Acquire(c) \/ Wake(c) \/ Cancel(c)
    PROVE  \E r : call' = [call EXCEPT ![c] = r] /\ Becomes(call[c], r)
PROOF
  <1> DEFINE q == call[c]
  <1>1. IsCall(q) /\ RequestOK(q)
    BY CallsSettling DEF Settling, RInv
  <1>2. CASE Acquire(c)
    <2> DEFINE s == [q EXCEPT !.asked = clock]
               p == IF ~isv THEN "tenant" ELSE IF ticket THEN "app" ELSE "resend"
    <2>1. /\ q.at = "lock"
          /\ \/ call' = [call EXCEPT ![c] = Sent(q, "op", cache.value)]
             \/ call' = [call EXCEPT ![c] = Sent(s, p, NoToken)]
      BY <1>2 DEF Acquire
    <2>2. Op(q).token = "app" => q.view = "app"
      BY <1>1, <2>1 DEF RequestOK, SenderOK
    <2>3. cache.value # UserToken
      BY Numbers DEF CInv, CacheOK
    <2>4. Becomes(q, Sent(q, "op", cache.value))
      <3> DEFINE r == Sent(q, "op", cache.value)
      <3>1. SameWork(q, r) /\ r.result = q.result /\ r.at = "flight" /\ r.purpose = "op" /\ r.tok = cache.value
        BY <1>1, RequestSame, SentFields
      <3> HIDE DEF r
      <3>2. Becomes(q, r)
        BY <1>1, <2>1, <2>2, <2>3, <3>1, SameRequest DEF Fetching
      <3> QED BY <3>2 DEF r
    <2>5. Becomes(q, Sent(s, p, NoToken))
      <3> DEFINE r == Sent(s, p, NoToken)
      <3>1. SameWork(q, s) /\ IsCall(s) /\ s.result = q.result
        BY <1>1 DEF SameWork, IsCall, Field
      <3>2. p # "op"
        OBVIOUS
      <3> HIDE DEF s, p
      <3>3. SameWork(s, r) /\ r.result = s.result /\ r.at = "flight" /\ r.purpose = p
        BY <3>1, RequestSame, SentFields
      <3> HIDE DEF r
      <3>4. SameWork(q, r) /\ r.result = q.result
        BY <3>1, <3>3 DEF SameWork
      <3>5. Becomes(q, r)
        BY <1>1, <2>1, <2>2, <3>2, <3>3, <3>4, SameRequest
      <3> QED BY <3>5 DEF r
    <2> HIDE DEF s, p
    <2> QED BY <2>1, <2>4, <2>5
  <1>3. CASE Wake(c)
    <2>1. call' = [call EXCEPT ![c] = Resent(q)] /\ q.at = "sleep"
      BY <1>3 DEF Wake
    <2>2. /\ SameWork(q, Resent(q)) /\ Resent(q).result = q.result /\ Resent(q).at = "flight"
          /\ Resent(q).purpose = q.purpose /\ Resent(q).tok = q.tok
      BY <1>1, RequestSame
    <2>3. Op(q).token = "app" =>
             /\ q.purpose # "op" => q.view = "app"
             /\ q.purpose = "op" => (q.tok = UserToken <=> q.view = "user")
      BY <1>1, <2>1 DEF RequestOK, SenderOK, Fetching, Pending
    <2>4. Becomes(q, Resent(q))
      BY <1>1, <2>1, <2>2, <2>3, SameRequest DEF Fetching
    <2> QED BY <2>1, <2>4
  <1>4. CASE Cancel(c)
    <2>1. PICK e \in BOOLEAN : call' = [call EXCEPT ![c] = Over(Applied(q, e), "cancelled")]
      BY <1>4 DEF Cancel
    <2>2. q.at \in {"lock", "flight", "sleep"}
      BY <1>4 DEF Cancel
    <2> DEFINE s == Applied(q, e)
    <2>3. Chosen(q) /\ WriteOK(q)
      BY <1>1, <2>2 DEF RequestOK
    <2>4. IsCall(s) /\ Chosen(s) /\ (Once(Op(s)) => s.done \in {0, 1}) /\ Keeps(q, s)
      BY <1>1, <2>2, <2>3, AppliedRequest, AppliedKeeps
    <2> HIDE DEF s
    <2>5. RequestOK(Over(s, "cancelled"))
      BY <2>4, OverRequest
    <2>6. Keeps(q, Over(s, "cancelled"))
      BY <2>4, RequestSame, SameKeeps, KeepsTwice
    <2>7. Becomes(q, Over(s, "cancelled"))
      BY <2>5, <2>6 DEF Becomes
    <2> QED BY <2>1, <2>7 DEF s
  <1> QED BY <1>2, <1>3, <1>4

\* An answer of a token endpoint.
LEMMA FetchedRequest ==
    ASSUME CInv, RInv, NEW c \in Caller, call[c].at = "flight", call[c].purpose # "op", Fetched(c)
    PROVE  \E r : call' = [call EXCEPT ![c] = r] /\ Becomes(call[c], r)
PROOF
  <1> DEFINE q == call[c]
             Goal == \E r : call' = [call EXCEPT ![c] = r] /\ Becomes(call[c], r)
  <1>1. IsCall(q) /\ RequestOK(q) /\ Chosen(q) /\ WriteOK(q)
    BY CallsSettling DEF Settling, RInv, RequestOK
  <1>2. Op(q).token = "app" => q.view = "app"
    BY <1>1 DEF RequestOK, SenderOK, Fetching, Pending
  <1>3. ASSUME call' = [call EXCEPT ![c] = Over(q, "error")]
        PROVE  Goal
    <2>1. RequestOK(Over(q, "error"))
      BY <1>1, OverRequest DEF WriteOK
    <2>2. Keeps(q, Over(q, "error"))
      BY <1>1, RequestSame, SameKeeps
    <2>3. Becomes(q, Over(q, "error"))
      BY <2>1, <2>2 DEF Becomes
    <2> QED BY <1>3, <2>3
  <1>4. ASSUME call' = [call EXCEPT ![c] = Sent(q, "tenant", NoToken)]
        PROVE  Goal
    <2> DEFINE r == Sent(q, "tenant", NoToken)
    <2>1. SameWork(q, r) /\ r.result = q.result /\ r.at = "flight" /\ r.purpose = "tenant"
      BY <1>1, RequestSame, SentFields
    <2> HIDE DEF r
    <2>2. Becomes(q, r)
      BY <1>1, <1>2, <2>1, SameRequest
    <2> QED BY <1>4, <2>2 DEF r
  <1>5. ASSUME NEW life, NEW at, Granted(c, life, at)
        PROVE  Goal
    <2> DEFINE s == [q EXCEPT !.asked = 0]
               r == Sent(s, "op", Len(grants) + 1)
    <2>1. call' = [call EXCEPT ![c] = r] /\ Len(grants) < MaxGrants
      BY <1>5 DEF Granted
    <2>2. SameWork(q, s) /\ IsCall(s) /\ s.result = q.result
      BY <1>1 DEF SameWork, IsCall, Field
    <2> HIDE DEF s
    <2>3. SameWork(s, r) /\ r.result = s.result /\ r.at = "flight" /\ r.purpose = "op" /\ r.tok = Len(grants) + 1
      BY <2>2, RequestSame, SentFields
    <2>4. Len(grants) + 1 # UserToken
      BY <2>1, Numbers DEF CInv, CacheOK, UserToken
    <2> HIDE DEF r
    <2>5. SameWork(q, r) /\ r.result = q.result
      BY <2>2, <2>3 DEF SameWork
    <2>6. Becomes(q, r)
      BY <1>1, <1>2, <2>3, <2>4, <2>5, SameRequest DEF Fetching
    <2> QED BY <2>1, <2>6
  <1>6. \/ call' = [call EXCEPT ![c] = Over(q, "error")]
        \/ call' = [call EXCEPT ![c] = Sent(q, "tenant", NoToken)]
        \/ \E life \in Lives : \E at \in q.sent .. clock : Granted(c, life, at)
    BY DEF Fetched, Failed
  <1>7. CASE \E life \in Lives : \E at \in q.sent .. clock : Granted(c, life, at)
    <2>1. PICK life \in Lives, at \in q.sent .. clock : Granted(c, life, at)
      BY <1>7
    <2> QED BY <1>5, <2>1
  <1> QED BY <1>3, <1>4, <1>6, <1>7

\* An answer of the platform to an operation, or none.
LEMMA AnswerRequest ==
    ASSUME CInv, RInv, NEW c \in Caller, Answer(c)
    PROVE  \E r : call' = [call EXCEPT ![c] = r] /\ Becomes(call[c], r)
PROOF
  <1> DEFINE q == call[c]
  <1>1. IsCall(q) /\ RequestOK(q) /\ q.at = "flight" /\ BoundOK
    BY CallsSettling DEF Settling, RInv, Answer
  <1>2. Chosen(q) /\ WriteOK(q) /\ SenderOK(q) /\ q.result = "none"
    BY <1>1 DEF RequestOK
  <1>3. PICK o \in Outcome :
           LET s == Applied(q, o.executed) IN
           \/ o.kind = "ok" /\ s.purpose # "op" /\ Fetched(c)
           \/ \E more : o.kind = "ok" /\ call' = [call EXCEPT ![c] = AfterPage(s, more)]
           \/ \E d : Retriable(s, o.kind) /\ o.kind # "ok" /\ call' = [call EXCEPT ![c] = Slept(s, d)]
           \/ call' = [call EXCEPT ![c] = Continue(s)]
           \/ /\ o.kind # "ok"
              /\ call' = [call EXCEPT ![c] = Over(s, IF o.kind \in {"server", "transport", "permission"} THEN o.kind ELSE "error")]
    BY <1>1 DEF Answer
  <1> DEFINE s == Applied(q, o.executed)
  <1>4. /\ IsCall(s) /\ Chosen(s) /\ Op(s) = Op(q) /\ s.at = "flight" /\ s.result = "none"
        /\ s.purpose = q.purpose /\ s.tok = q.tok /\ s.view = q.view
        /\ Once(Op(s)) => s.done \in {0, 1}
        /\ ~o.executed \/ q.purpose # "op" => s = q
        /\ Keeps(q, s)
    BY <1>1, <1>2, AppliedRequest, AppliedKeeps
  <1> HIDE DEF s
  <1>5. ASSUME NEW r, RequestOK(r), Keeps(s, r)
        PROVE  Becomes(q, r)
    BY <1>4, <1>5, KeepsTwice DEF Becomes
  <1>6. CASE s.purpose # "op" /\ Fetched(c)
    BY <1>1, <1>4, <1>6, FetchedRequest
  <1>7. ASSUME NEW more, call' = [call EXCEPT ![c] = AfterPage(s, more)]
        PROVE  \E r : call' = [call EXCEPT ![c] = r] /\ Becomes(q, r)
    BY <1>1, <1>4, <1>5, <1>7, PageRequest, PageKeeps
  <1>8. CASE call' = [call EXCEPT ![c] = Continue(s)]
    BY <1>1, <1>4, <1>5, <1>8, ContinueRequest, ContinueKeeps
  <1>9. Once(Op(q)) => q.done = 0
    BY <1>1, <1>2 DEF WriteOK
  <1>10. ASSUME NEW d, Retriable(s, o.kind), o.kind # "ok", call' = [call EXCEPT ![c] = Slept(s, d)]
         PROVE  \E r : call' = [call EXCEPT ![c] = r] /\ Becomes(q, r)
    <2> DEFINE r == Slept(s, d)
    <2>1. /\ SameWork(s, r) /\ r.result = "none" /\ r.at = "sleep" /\ r.purpose = q.purpose /\ r.tok = q.tok
      BY <1>4, RequestSame
    <2> HIDE DEF r
    <2>2. Once(Op(s)) => s.done = 0
      <3> SUFFICES ASSUME Once(Op(s)), q.purpose = "op"
                   PROVE  s.done = 0
        BY <1>4, <1>9
      <3>1. Verb(s) \notin IDEMPOTENT_METHODS
        BY <1>4 DEF Verb, Once
      <3>2. o.kind = "rate"
        BY <1>10, <3>1 DEF Retriable
      <3> QED BY <1>4, <1>9, <3>2, OutcomeFacts
    <2>3. Chosen(r) /\ Op(r) = Op(s) /\ r.done = s.done /\ r.view = q.view
      BY <1>4, <2>1, SameChosen DEF SameWork
    <2>4. WriteOK(r)
      BY <2>1, <2>2, <2>3 DEF WriteOK
    <2>5. SenderOK(r)
      BY <1>1, <1>2, <1>4, <2>1, <2>3 DEF SenderOK, Fetching, Pending
    <2>6. RequestOK(r)
      BY <2>1, <2>3, <2>4, <2>5 DEF RequestOK
    <2>7. Becomes(q, r)
      BY <1>5, <2>1, <2>6, SameKeeps
    <2> QED BY <1>10, <2>7 DEF r
  <1>11. ASSUME NEW k, k \in {"error", "permission"} => o.kind \notin {"ok", "server", "transport"},
                call' = [call EXCEPT ![c] = Over(s, k)]
         PROVE  \E r : call' = [call EXCEPT ![c] = r] /\ Becomes(q, r)
    <2>1. Once(Op(s)) /\ k \in {"error", "permission"} => s.done = 0
      BY <1>4, <1>9, <1>11, OutcomeFacts
    <2>2. RequestOK(Over(s, k))
      BY <1>4, <2>1, OverRequest
    <2>3. Keeps(s, Over(s, k))
      BY <1>4, RequestSame, SameKeeps
    <2> QED BY <1>5, <1>11, <2>2, <2>3
  <1>12. CASE /\ o.kind # "ok"
              /\ call' = [call EXCEPT ![c] = Over(s, IF o.kind \in {"server", "transport", "permission"} THEN o.kind ELSE "error")]
    BY <1>11, <1>12
  <1> QED BY <1>3, <1>6, <1>7, <1>8, <1>10, <1>12 DEF s

\* One call changes, and of a call that is not begun again neither the calls left nor
\* what it may write.
LEMMA ClientStepKeeps ==
    ASSUME CInv, RInv, NEW c \in Caller, ClientStep(c)
    PROVE  /\ BoundOK' /\ menu' = menu
           /\ \E r : call' = [call EXCEPT ![c] = r] /\ Becomes(call[c], r)
PROOF
  <1>1. menu' = menu
    BY DEF ClientStep, Begin, Repeat, Acquire, Wake, Cancel, Answer
  <1>2. CASE Begin(c) \/ Repeat(c)
    BY <1>1, <1>2, StartsRequest
  <1>3. CASE Acquire(c) \/ Wake(c) \/ Cancel(c)
    <2>1. bound' = bound
      BY <1>3 DEF Acquire, Wake, Cancel
    <2>2. BoundOK'
      BY <2>1 DEF BoundOK, RInv
    <2> QED BY <1>1, <1>3, <2>2, WaitsRequest
  <1>4. CASE Answer(c)
    <2>1. bound' = bound
      BY <1>4 DEF Answer
    <2>2. BoundOK'
      BY <2>1 DEF BoundOK, RInv
    <2> QED BY <1>1, <1>4, <2>2, AnswerRequest
  <1> QED BY <1>2, <1>3, <1>4 DEF ClientStep

-----------------------------------------------------------------------------
(***************************************************************************)
(* The turns of the agents.  SafeTurn says of a tool call that is          *)
(* dispatched that it has been confirmed or needs no confirmation;         *)
(* SpentOK, that only a run that ended the call has written, and then no   *)
(* more than one way through the handler writes; RunOK, that the           *)
(* operations that run are those of such a way.                            *)
(***************************************************************************)
TurnField ==
    {"tool", "policy", "at", "by", "prior", "confirmed", "end", "wrote", "touched", "answer"}

IsTurn(t) == t = [f \in TurnField |-> t[f]]

\* The two tools that write before their last operation.
Early == {"book_meeting_room", "create_approval_instance"}

SafeTurn(t) ==
    /\ IsTurn(t)
    /\ t.touched \in BOOLEAN /\ t.confirmed \in BOOLEAN /\ t.prior \in BOOLEAN
    /\ t.at # "idle" \/ t.tool # "none" => t.tool \in Tools
    /\ t.touched = TRUE => t.confirmed = TRUE
    /\ t.by = "approval" => t.confirmed = TRUE
    /\ t.at = "authorizing" /\ t.prior = TRUE => t.confirmed = TRUE
    /\ t.at \in {"dispatch", "running"} => t.confirmed = TRUE \/ ~NeedsConfirmation(t)

SpentOK(t) ==
    /\ t.wrote \in Nat
    /\ t.at = "idle" => t.wrote = 0
    /\ t.at # "ended" => t.answer = "none" /\ (t.tool # "book_meeting_room" => t.wrote = 0)
    /\ t.at = "ended" /\ t.tool # "book_meeting_room" =>
          \E plan \in ToolOf(t).plans : t.wrote <= Intended(plan)
    /\ t.answer = "failed" /\ t.by = "approval" /\ t.tool \notin Early => t.wrote = 0

RunOK(t, s) ==
    t.at = "running" =>
        /\ s.left = 0
        /\ t.confirmed = TRUE \/ ReadsOnly(s)
        /\ \E plan \in ToolOf(t).plans :
              /\ t.end = plan.end
              /\ Within(s, Intended(plan))
              /\ t.tool \notin Early => LastWrite(s)
              /\ PlanReads(plan) => ReadsOnly(s)

AInv ==
    /\ CInv
    /\ RInv
    /\ DOMAIN turn = Agents /\ turn = [c \in Agents |-> turn[c]]
    /\ \A c \in Agents : SafeTurn(turn[c]) /\ SpentOK(turn[c]) /\ RunOK(turn[c], call[c])

\* What the confirmation of a turn depends on.
LEMMA SameNeed ==
    ASSUME NEW t, NEW r, r.tool = t.tool, r.policy = t.policy
    PROVE  (NeedsConfirmation(r) <=> NeedsConfirmation(t)) /\ ToolOf(r) = ToolOf(t)
  BY DEF NeedsConfirmation, ToolOf

\* A plan has a number of writes.
LEMMA IntendedNumber ==
    ASSUME NEW name \in Tools, NEW plan \in Registry[name].plans
    PROVE  Intended(plan) \in Nat
PROOF
  <1> DEFINE S == {i \in DOMAIN plan.ops : Once(plan.ops[i])}
  <1>1. plan.ops \in Seq(Operations)
    BY ToolFacts DEF ToolOK, PlanOK
  <1>2. Len(plan.ops) \in Nat /\ S \subseteq 1..Len(plan.ops)
    BY <1>1
  <1>3. IsFiniteSet(S)
    <2>1. IsFiniteSet(1..Len(plan.ops))
      BY <1>2, FS_Interval
    <2> HIDE DEF S
    <2> QED BY <1>2, <2>1, FS_Subset
  <1> QED BY <1>3, FS_CardinalityType DEF Intended

\* A call that keeps its operations keeps to its plan.
LEMMA RunKeeps ==
    ASSUME NEW t, NEW s, NEW r, t.tool \in Tools, RunOK(t, s), s.left = 0 => Keeps(s, r)
    PROVE  RunOK(t, r)
PROOF
  <1> SUFFICES ASSUME t.at = "running"
               PROVE  RunOK(t, r)
    BY DEF RunOK
  <1>1. s.left = 0 /\ Keeps(s, r) /\ (t.confirmed = TRUE \/ ReadsOnly(s))
    BY DEF RunOK
  <1>2. PICK plan \in ToolOf(t).plans :
           /\ t.end = plan.end
           /\ Within(s, Intended(plan))
           /\ t.tool \notin Early => LastWrite(s)
           /\ PlanReads(plan) => ReadsOnly(s)
    BY DEF RunOK
  <1>3. Intended(plan) \in Nat
    BY <1>2, IntendedNumber DEF ToolOf
  <1> QED BY <1>1, <1>2, <1>3 DEF Keeps, RunOK

-----------------------------------------------------------------------------
\* A turn that moves on has written no more.
Moves(t, next) ==
    /\ next.tool = t.tool /\ next.wrote = t.wrote
    /\ \/ next.at = "ended"
       \/ next.at \in {"authorizing", "confirming", "dispatch"} /\ next.answer = t.answer

\* It may do so whenever it wants, as long as nothing has been written.
LEMMA MoveSpends ==
    ASSUME NEW t, NEW next, t.tool \in Tools, t.at # "ended", SpentOK(t), Moves(t, next)
    PROVE  SpentOK(next) /\ next.at # "running"
PROOF
  <1>1. next.tool = t.tool /\ next.wrote \in Nat /\ (t.tool # "book_meeting_room" => next.wrote = 0) /\ t.answer = "none"
    BY DEF Moves, SpentOK
  <1>2. PICK plan : plan \in ToolOf(t).plans
    BY ToolFacts DEF ToolOK, ToolOf
  <1>3. 0 <= Intended(plan)
    BY <1>2, IntendedNumber DEF ToolOf
  <1>4. next.at = "ended" /\ next.tool # "book_meeting_room" =>
           \E p \in ToolOf(next).plans : next.wrote <= Intended(p)
    BY <1>1, <1>2, <1>3 DEF ToolOf
  <1>5. next.at = "ended" \/ (next.at \in {"authorizing", "confirming", "dispatch"} /\ next.answer = "none")
    BY <1>1 DEF Moves
  <1> QED BY <1>1, <1>4, <1>5 DEF SpentOK, Early

\* The turns that suspend, end or dispatch a call.
LEMMA EndedSafe ==
    ASSUME NEW t, SafeTurn(t), t.tool \in Tools, NEW answer
    PROVE  SafeTurn(Ended(t, answer)) /\ Moves(t, Ended(t, answer))
  BY DEF Ended, SafeTurn, IsTurn, TurnField, Moves

\* An authorization is asked for under an approval only if there is one.
LEMMA AuthorizingSafe ==
    ASSUME NEW t, SafeTurn(t), t.tool \in Tools, NEW p \in BOOLEAN, p = TRUE => t.confirmed = TRUE,
           NEW next \in Authorizing(t, p)
    PROVE  SafeTurn(next) /\ Moves(t, next)
PROOF
  <1> DEFINE r == [t EXCEPT !.at = "authorizing", !.prior = p]
  <1>1. SafeTurn(r) /\ Moves(t, r)
    BY DEF SafeTurn, IsTurn, TurnField, Moves
  <1> HIDE DEF r
  <1>2. next = r \/ next = Ended(t, "failed")
    BY DEF Authorizing, r
  <1> QED BY <1>1, <1>2, EndedSafe

\* A dispatch without an approval of its own follows one, or needs none.
LEMMA DispatchingSafe ==
    ASSUME NEW t, SafeTurn(t), t.tool \in Tools, NEW by, by # "approval",
           t.confirmed = TRUE \/ ~NeedsConfirmation(t), NEW next \in Dispatching(t, by)
    PROVE  SafeTurn(next) /\ Moves(t, next)
PROOF
  <1>1. next = [t EXCEPT !.at = "dispatch", !.by = by]
    BY DEF Dispatching
  <1>2. /\ IsTurn(next) /\ next.at = "dispatch" /\ next.by = by /\ next.tool = t.tool
        /\ next.policy = t.policy /\ next.touched = t.touched /\ next.confirmed = t.confirmed
        /\ next.prior = t.prior /\ next.wrote = t.wrote /\ next.answer = t.answer
    BY <1>1 DEF SafeTurn, IsTurn, TurnField
  <1>3. ~NeedsConfirmation(t) => ~NeedsConfirmation(next)
    BY <1>2, SameNeed
  <1>4. SafeTurn(next)
    BY <1>2, <1>3 DEF SafeTurn
  <1> QED BY <1>2, <1>4 DEF Moves

\* What needs a confirmation is not dispatched before it.
LEMMA ConfirmedFirstSafe ==
    ASSUME NEW t, SafeTurn(t), t.tool \in Tools, NEW by, by # "approval",
           NEW next \in ConfirmedFirst(t, by)
    PROVE  SafeTurn(next) /\ Moves(t, next)
PROOF
  <1>1. CASE NeedsConfirmation(t)
    <2> DEFINE r == [t EXCEPT !.at = "confirming"]
    <2>1. SafeTurn(r) /\ Moves(t, r)
      BY DEF SafeTurn, IsTurn, TurnField, Moves
    <2> HIDE DEF r
    <2>2. next = r \/ next = Ended(t, "failed")
      BY <1>1 DEF ConfirmedFirst, Confirming, r
    <2> QED BY <2>1, <2>2, EndedSafe
  <1>2. CASE ~NeedsConfirmation(t)
    BY <1>2, DispatchingSafe DEF ConfirmedFirst
  <1> QED BY <1>1, <1>2

\* Every outcome ends the call, or asks for an authorization under the approval.
LEMMA OutcomesSafe ==
    ASSUME NEW t, SafeTurn(t), t.tool \in Tools, NEW outcome, NEW next \in Outcomes(t, outcome)
    PROVE  SafeTurn(next) /\ Moves(t, next)
PROOF
  <1> DEFINE p == (t.by = "approval")
  <1>1. \/ next \in Authorizing(t, p)
        \/ \E answer : next = Ended(t, answer)
    BY DEF Outcomes
  <1>2. p \in BOOLEAN /\ (p = TRUE => t.confirmed = TRUE)
    BY DEF SafeTurn
  <1> HIDE DEF p
  <1> QED BY <1>1, <1>2, AuthorizingSafe, EndedSafe

\* Only a missing authorization suspends the call again, and after an approval neither
\* an exception nor a result is told as a failure.
LEMMA OutcomesSay ==
    ASSUME NEW t, IsTurn(t), NEW outcome, NEW next \in Outcomes(t, outcome)
    PROVE  /\ next.by = t.by
           /\ next.at # "ended" => outcome = "needs_auth"
           /\ next.answer = "failed" /\ t.by = "approval" /\ next.at = "ended" =>
                 outcome \notin {"completed", "raised"}
PROOF
  <1>1. \A answer : LET r == Ended(t, answer) IN r.by = t.by /\ r.at = "ended" /\ r.answer = answer
    BY DEF Ended, IsTurn, TurnField
  <1>2. LET r == [t EXCEPT !.at = "authorizing", !.prior = (t.by = "approval")] IN
        r.by = t.by /\ r.at = "authorizing"
    BY DEF IsTurn, TurnField
  <1>3. CASE outcome = "completed"
    BY <1>1, <1>3 DEF Outcomes
  <1>4. CASE outcome = "needs_auth" /\ t.by # "oauth"
    BY <1>1, <1>2, <1>4 DEF Outcomes, Authorizing
  <1>5. CASE outcome = "raised" /\ t.by = "approval"
    BY <1>1, <1>5 DEF Outcomes
  <1>6. CASE ~(outcome = "completed") /\ ~(outcome = "needs_auth" /\ t.by # "oauth")
             /\ ~(outcome = "raised" /\ t.by = "approval")
    BY <1>1, <1>6 DEF Outcomes
  <1> QED BY <1>3, <1>4, <1>5, <1>6

-----------------------------------------------------------------------------
\* What an agent leaves to the client.
LEMMA ClientLeft ==
    ASSUME RInv, call' = call, bound' = bound, menu' = menu
    PROVE  RInv'
PROOF
  <1>1. BoundOK'
    BY DEF RInv, BoundOK
  <1>2. ASSUME NEW c \in Caller
        PROVE  RequestOK(call[c])'
    BY DEF RInv, RequestOK, Chosen, WriteOK, SenderOK, Op, Once, Fetching, Pending
  <1> QED BY <1>1, <1>2 DEF RInv

\* One call changes.
LEMMA CallChanges ==
    ASSUME RInv, CInv, BoundOK', menu' = menu, NEW c \in Caller, NEW r, RequestOK(r),
           call' = [call EXCEPT ![c] = r]
    PROVE  RInv' /\ call'[c] = r /\ \A e \in Caller \ {c} : call'[e] = call[e]
PROOF
  <1>1. call'[c] = r /\ \A e \in Caller \ {c} : call'[e] = call[e]
    BY DEF CInv
  <1>2. ASSUME NEW e \in Caller
        PROVE  RequestOK(call[e])'
    <2>1. RequestOK(call'[e])
      BY <1>1 DEF RInv
    <2> QED BY <2>1 DEF RequestOK, Chosen, WriteOK, SenderOK, Op, Once, Fetching, Pending
  <1> QED BY <1>1, <1>2 DEF RInv

\* One agent takes a step.
LEMMA TurnStep ==
    ASSUME AInv, CInv', RInv', NEW c \in Agents, NEW next, SafeTurn(next), SpentOK(next),
           turn' = [turn EXCEPT ![c] = next],
           \A e \in Agents \ {c} : call'[e] = call[e],
           RunOK(next, call'[c])
    PROVE  AInv'
PROOF
  <1>1. DOMAIN turn' = Agents /\ turn' = [e \in Agents |-> turn'[e]] /\ turn'[c] = next
        /\ \A e \in Agents \ {c} : turn'[e] = turn[e]
    BY DEF AInv
  <1>2. ASSUME NEW e \in Agents
        PROVE  SafeTurn(turn[e])' /\ SpentOK(turn[e])' /\ RunOK(turn[e], call[e])'
    <2>1. SafeTurn(turn'[e]) /\ SpentOK(turn'[e]) /\ RunOK(turn'[e], call'[e])
      <3>1. CASE e = c
        BY <1>1, <3>1
      <3>2. CASE e # c
        BY <1>1, <3>2 DEF AInv
      <3> QED BY <3>1, <3>2
    <2>2. SafeTurn(turn[e])'
      BY <2>1 DEF SafeTurn, IsTurn, NeedsConfirmation, ToolOf
    <2>3. SpentOK(turn[e])'
      BY <2>1 DEF SpentOK, ToolOf
    <2>4. RunOK(turn[e], call[e])'
      BY <2>1 DEF RunOK, ToolOf, ReadsOnly, Within, ToDo, LastWrite, Op, Once
    <2> QED BY <2>2, <2>3, <2>4
  <1> QED BY <1>1, <1>2 DEF AInv

\* One agent takes a step that leaves its call alone and does not start it.
LEMMA TurnMoves ==
    ASSUME AInv, CInv', NEW c \in Agents, NEW next, SafeTurn(next), SpentOK(next), next.at # "running",
           turn' = [turn EXCEPT ![c] = next], UNCHANGED clientVars
    PROVE  AInv'
PROOF
  <1>1. call' = call /\ bound' = bound /\ menu' = menu
    BY DEF clientVars
  <1>2. RInv'
    BY <1>1, ClientLeft DEF AInv
  <1>3. RunOK(next, call'[c])
    BY DEF RunOK
  <1> QED BY <1>1, <1>2, <1>3, TurnStep

\* A step of the client, whoever takes it.
LEMMA ClientSafe ==
    ASSUME AInv, CInv', NEW c \in Caller, ClientStep(c), turn' = turn
    PROVE  AInv'
PROOF
  <1>1. CInv /\ RInv /\ DOMAIN turn = Agents /\ turn = [e \in Agents |-> turn[e]]
    BY DEF AInv
  <1>2. PICK r : call' = [call EXCEPT ![c] = r] /\ Becomes(call[c], r)
    BY <1>1, ClientStepKeeps
  <1>3. RInv' /\ call'[c] = r /\ \A e \in Caller \ {c} : call'[e] = call[e]
    BY <1>1, <1>2, ClientStepKeeps, CallChanges DEF Becomes
  <1>4. ASSUME NEW e \in Agents
        PROVE  SafeTurn(turn[e])' /\ SpentOK(turn[e])' /\ RunOK(turn[e], call[e])'
    <2>1. SafeTurn(turn[e]) /\ SpentOK(turn[e]) /\ RunOK(turn[e], call[e]) /\ e \in Caller
      BY ToolsAssumption DEF AInv, ToolsAssumption
    <2>2. RunOK(turn[e], call'[e])
      <3>1. CASE e # c
        BY <1>3, <2>1, <3>1
      <3>2. CASE e = c /\ turn[e].tool \in Tools
        BY <1>2, <1>3, <2>1, <3>2, RunKeeps DEF Becomes
      <3>3. CASE turn[e].tool \notin Tools
        BY <2>1, <3>3 DEF SafeTurn, RunOK
      <3> QED BY <3>1, <3>2, <3>3
    <2>3. SafeTurn(turn[e])'
      BY <2>1 DEF SafeTurn, IsTurn, NeedsConfirmation, ToolOf
    <2>4. SpentOK(turn[e])'
      BY <2>1 DEF SpentOK, ToolOf
    <2>5. RunOK(turn[e], call[e])'
      BY <2>2 DEF RunOK, ToolOf, ReadsOnly, Within, ToDo, LastWrite, Op, Once
    <2> QED BY <2>3, <2>4, <2>5
  <1> QED BY <1>1, <1>3, <1>4 DEF AInv

\* The proposal of a call suspends it, ends it, or dispatches what needs no confirmation.
LEMMA ProposeSafe ==
    ASSUME AInv, CInv', NEW c \in Agents, Propose(c)
    PROVE  AInv'
PROOF
  <1>1. PICK tool \in Tools, policy \in Policies, authorized \in BOOLEAN :
           LET t == [turn[c] EXCEPT !.tool = tool, !.policy = policy] IN
           \E next \in CASE ~Offered(t) -> {Ended(t, "failed")}
                         [] Offered(t) /\ ToolOf(t).scoped /\ ~authorized -> Authorizing(t, FALSE)
                         [] OTHER -> ConfirmedFirst(t, "loop") :
              turn' = [turn EXCEPT ![c] = next]
    BY DEF Propose
  <1> DEFINE t == [turn[c] EXCEPT !.tool = tool, !.policy = policy]
  <1>2. PICK next : /\ turn' = [turn EXCEPT ![c] = next]
                    /\ \/ next = Ended(t, "failed")
                       \/ next \in Authorizing(t, FALSE)
                       \/ next \in ConfirmedFirst(t, "loop")
    BY <1>1
  <1>3. SafeTurn(turn[c]) /\ SpentOK(turn[c]) /\ turn[c].at = "idle"
    BY DEF AInv, Propose
  <1>4. SafeTurn(t) /\ t.tool \in Tools
    BY <1>3 DEF SafeTurn, IsTurn, TurnField
  <1>5. t.at = "idle" /\ t.wrote = 0 /\ t.answer = "none"
    BY <1>3 DEF SafeTurn, IsTurn, TurnField, SpentOK
  <1> HIDE DEF t
  <1>6. SpentOK(t) /\ t.at # "ended"
    BY <1>5 DEF SpentOK
  <1>7. SafeTurn(next) /\ Moves(t, next)
    <2>1. CASE next = Ended(t, "failed")
      BY <1>4, <2>1, EndedSafe
    <2>2. CASE next \in Authorizing(t, FALSE)
      BY <1>4, <2>2, AuthorizingSafe
    <2>3. CASE next \in ConfirmedFirst(t, "loop")
      BY <1>4, <2>3, ConfirmedFirstSafe
    <2> QED BY <1>2, <2>1, <2>2, <2>3
  <1>8. SpentOK(next) /\ next.at # "running"
    BY <1>4, <1>6, <1>7, MoveSpends
  <1>9. UNCHANGED clientVars
    BY DEF Propose
  <1> QED BY <1>2, <1>7, <1>8, <1>9, TurnMoves

\* The owner authorizes, confirms or declines.
LEMMA OwnerSafe ==
    ASSUME AInv, CInv', NEW c \in Agents, Authorize(c) \/ Confirm(c) \/ Decline(c)
    PROVE  AInv'
PROOF
  <1> DEFINE t == turn[c]
  <1>1. SafeTurn(t) /\ SpentOK(t) /\ DOMAIN turn = Agents
    BY DEF AInv
  <1>2. UNCHANGED clientVars /\ t.at \in {"authorizing", "confirming"}
    BY DEF Authorize, Confirm, Decline
  <1>3. t.tool \in Tools
    BY <1>1, <1>2 DEF SafeTurn
  <1>4. ASSUME NEW next, SafeTurn(next), Moves(t, next), turn' = [turn EXCEPT ![c] = next]
        PROVE  AInv'
    <2>1. SpentOK(next) /\ next.at # "running"
      BY <1>1, <1>2, <1>3, <1>4, MoveSpends
    <2> QED BY <1>2, <1>4, <2>1, TurnMoves
  <1>5. CASE Authorize(c)
    <2>1. PICK next \in IF t.prior THEN Dispatching(t, "oauth") ELSE ConfirmedFirst(t, "oauth") :
             turn' = [turn EXCEPT ![c] = next]
      BY <1>5 DEF Authorize
    <2>2. t.prior \in BOOLEAN /\ (t.prior = TRUE => t.confirmed = TRUE)
      BY <1>1, <1>5 DEF Authorize, SafeTurn
    <2> HIDE DEF t
    <2>3. SafeTurn(next) /\ Moves(t, next)
      <3>1. CASE t.prior = TRUE
        BY <1>1, <1>3, <2>1, <2>2, <3>1, DispatchingSafe
      <3>2. CASE t.prior = FALSE
        BY <1>1, <1>3, <2>1, <2>2, <3>2, ConfirmedFirstSafe
      <3> QED BY <2>2, <3>1, <3>2
    <2> QED BY <1>4, <2>1, <2>3
  <1>6. CASE Confirm(c)
    <2> DEFINE r == [t EXCEPT !.at = "dispatch", !.by = "approval", !.confirmed = TRUE]
    <2>1. turn' = [turn EXCEPT ![c] = r]
      BY <1>1, <1>6 DEF Confirm
    <2>2. SafeTurn(r) /\ Moves(t, r)
      BY <1>1, <1>3 DEF SafeTurn, IsTurn, TurnField, Moves
    <2> HIDE DEF r
    <2> QED BY <1>4, <2>1, <2>2
  <1>7. CASE Decline(c)
    <2>1. turn' = [turn EXCEPT ![c] = Ended(t, "rejected")]
      BY <1>1, <1>7 DEF Decline
    <2>2. SafeTurn(Ended(t, "rejected")) /\ Moves(t, Ended(t, "rejected"))
      BY <1>1, <1>3, EndedSafe
    <2> QED BY <1>4, <2>1, <2>2
  <1> QED BY <1>5, <1>6, <1>7

\* The operations of a plan may start.
LEMMA PlanStarts ==
    ASSUME NEW t, t.tool \in Tools, NEW plan \in ToolOf(t).plans, plan.ops # <<>>, NEW q, IsCall(q)
    PROVE  LET s == [Starting(q, ToolOf(t).view, plan.ops, FALSE, 0) EXCEPT !.left = 0] IN
           /\ Ready(s) /\ s.left = 0
           /\ ToolOf(t).view \in View /\ plan.ops[1] \in Operations
           /\ PlanReads(plan) => ReadsOnly(s)
           /\ ~ToolOf(t).confirm => PlanReads(plan)
           /\ Within(s, Intended(plan))
           /\ t.tool \notin Early => LastWrite(s)
PROOF
  <1> DEFINE tool == ToolOf(t)
             s == [Starting(q, ToolOf(t).view, plan.ops, FALSE, 0) EXCEPT !.left = 0]
  <1>1. /\ IsCall(s) /\ s.left = 0 /\ s.flow = plan.ops /\ s.view = tool.view /\ s.own = FALSE
        /\ s.touched = FALSE /\ s.writes = 0 /\ s.done = 0 /\ s.result = "none"
    BY ZenonT(40) DEF Starting, IsCall, Field
  <1> HIDE DEF s
  <1>2. ToolOK(tool) /\ (t.tool \notin Early => WritesLast(tool))
    BY ToolFacts DEF ToolOf, Early
  <1> HIDE DEF tool
  <1>3. PlanOK(plan) /\ tool.view \in View /\ (~tool.confirm => PlanReads(plan))
    BY <1>2 DEF ToolOK, tool
  <1>4. plan.ops \in Seq(Operations) /\ plan.ops[1] \in Operations
    BY <1>3 DEF PlanOK
  <1>5. Chosen(s)
    BY <1>1, <1>3, <1>4 DEF Chosen
  <1>6. Ready(s)
    BY <1>1, <1>5 DEF Ready
  <1>7. PlanReads(plan) => ReadsOnly(s)
    BY <1>1 DEF PlanReads, ReadsOnly
  <1>8. Within(s, Intended(plan))
    <2>1. ToDo(s) = {i \in DOMAIN plan.ops : Once(plan.ops[i])}
      BY <1>1 DEF ToDo
    <2>2. Intended(plan) \in Nat
      BY IntendedNumber DEF ToolOf
    <2> QED BY <1>1, <2>1, <2>2 DEF Within, Intended
  <1>9. t.tool \notin Early => LastWrite(s)
    <2> SUFFICES ASSUME t.tool \notin Early
                 PROVE  LastWrite(s)
      OBVIOUS
    <2>1. CASE PlanReads(plan)
      <3>1. \A i \in DOMAIN plan.ops : plan.ops[i] \in ReadingOperation
        BY <2>1 DEF PlanReads
      <3> QED BY <1>1, <3>1 DEF LastWrite, ReadingOperation, Once
    <2>2. CASE PlanWrites(plan)
      BY <1>1, <2>2 DEF LastWrite, PlanWrites
    <2> QED BY <1>2, <2>1, <2>2 DEF WritesLast, tool
  <1> QED BY <1>1, <1>3, <1>4, <1>6, <1>7, <1>8, <1>9 DEF s, tool

\* A dispatch is answered at once, or starts operations that may be started.
LEMMA DispatchSafe ==
    ASSUME AInv, CInv', NEW c \in Agents, Dispatch(c)
    PROVE  AInv'
PROOF
  <1> DEFINE t == turn[c]
  <1>1. SafeTurn(t) /\ SpentOK(t) /\ t.at = "dispatch" /\ DOMAIN turn = Agents /\ t.tool \in Tools
        /\ DOMAIN call = Caller /\ c \in Caller /\ IsCall(call[c]) /\ CInv /\ RInv /\ BoundOK
    BY ToolsAssumption DEF AInv, SafeTurn, Dispatch, ToolsAssumption, CInv, CallType, RInv
  <1>2. CASE \E outcome : \E next \in Outcomes(t, outcome) : turn' = [turn EXCEPT ![c] = next] /\ UNCHANGED clientVars
    <2>1. PICK outcome : \E next \in Outcomes(t, outcome) : turn' = [turn EXCEPT ![c] = next] /\ UNCHANGED clientVars
      BY <1>2
    <2>2. PICK next \in Outcomes(t, outcome) : turn' = [turn EXCEPT ![c] = next] /\ UNCHANGED clientVars
      BY <2>1
    <2> HIDE DEF t
    <2>3. SafeTurn(next) /\ Moves(t, next)
      BY <1>1, OutcomesSafe
    <2>4. SpentOK(next) /\ next.at # "running"
      BY <1>1, <2>3, MoveSpends
    <2> QED BY <2>2, <2>3, <2>4, TurnMoves
  <1>3. ASSUME NEW plan \in ToolOf(t).plans, plan.ops # <<>>, Access(ToolOf(t).view, plan.ops[1].ns),
               call' = [call EXCEPT ![c] = WithToken([Starting(@, ToolOf(t).view, plan.ops, FALSE, 0) EXCEPT !.left = 0])],
               turn' = [turn EXCEPT ![c] = [@ EXCEPT !.at = "running", !.end = plan.end]],
               menu' = menu
        PROVE  AInv'
    <2> DEFINE s == [Starting(call[c], ToolOf(t).view, plan.ops, FALSE, 0) EXCEPT !.left = 0]
               next == [t EXCEPT !.at = "running", !.end = plan.end]
    <2>1. /\ Ready(s) /\ s.left = 0
          /\ ToolOf(t).view \in View /\ plan.ops[1] \in Operations
          /\ PlanReads(plan) => ReadsOnly(s)
          /\ ~ToolOf(t).confirm => PlanReads(plan)
          /\ Within(s, Intended(plan))
          /\ t.tool \notin Early => LastWrite(s)
      BY <1>1, <1>3, PlanStarts
    <2>2. call' = [call EXCEPT ![c] = WithToken(s)] /\ turn' = [turn EXCEPT ![c] = next]
      BY <1>1, <1>3
    <2>3. /\ IsTurn(next) /\ next.at = "running" /\ next.by = t.by /\ next.tool = t.tool
          /\ next.policy = t.policy /\ next.touched = t.touched /\ next.confirmed = t.confirmed
          /\ next.prior = t.prior /\ next.wrote = t.wrote /\ next.answer = t.answer /\ next.end = plan.end
      BY <1>1 DEF SafeTurn, IsTurn, TurnField
    <2> HIDE DEF s, next
    <2>4. (NeedsConfirmation(next) <=> NeedsConfirmation(t)) /\ ToolOf(next) = ToolOf(t)
      BY <2>3, SameNeed
    <2>5. SafeTurn(next)
      BY <1>1, <2>3, <2>4 DEF SafeTurn
    <2>6. SpentOK(next)
      BY <1>1, <2>3 DEF SpentOK
    <2>7. next.confirmed = TRUE \/ ReadsOnly(s)
      <3> SUFFICES ASSUME ~NeedsConfirmation(t)
                   PROVE  ReadsOnly(s)
        BY <1>1, <2>3 DEF SafeTurn
      <3>1. ~ToolOf(t).confirm
        BY DEF NeedsConfirmation
      <3> QED BY <2>1, <3>1
    <2>8. RunOK(next, s)
      BY <1>3, <2>1, <2>3, <2>4, <2>7 DEF RunOK
    <2>9. IsCall(s)
      BY <2>1 DEF Ready
    <2>10. RunOK(next, WithToken(s))
      BY <1>1, <2>3, <2>8, <2>9, RunKeeps, WithTokenKeeps
    <2>11. RequestOK(WithToken(s)) /\ BoundOK'
      BY <1>1, <1>3, <2>1, WithTokenRequest, AccessKeeps
    <2>12. RInv' /\ call'[c] = WithToken(s) /\ \A e \in Caller \ {c} : call'[e] = call[e]
      BY <1>1, <1>3, <2>2, <2>11, CallChanges
    <2>13. RunOK(next, call'[c]) /\ \A e \in Agents \ {c} : call'[e] = call[e]
      BY <2>10, <2>12, ToolsAssumption DEF ToolsAssumption
    <2> QED BY <2>2, <2>5, <2>6, <2>12, <2>13, TurnStep
  <1>4. \/ \E outcome : \E next \in Outcomes(t, outcome) : turn' = [turn EXCEPT ![c] = next] /\ UNCHANGED clientVars
        \/ \E plan \in ToolOf(t).plans :
              /\ plan.ops # <<>>
              /\ Access(ToolOf(t).view, plan.ops[1].ns)
              /\ call' = [call EXCEPT ![c] = WithToken([Starting(@, ToolOf(t).view, plan.ops, FALSE, 0) EXCEPT !.left = 0])]
              /\ turn' = [turn EXCEPT ![c] = [@ EXCEPT !.at = "running", !.end = plan.end]]
              /\ menu' = menu
    BY DEF Dispatch
  <1> QED BY <1>2, <1>3, <1>4

\* A handler that neither completes nor raises has written nothing, but for the two
\* that write early; and the one of these that asks for no authorization ends the call.
LEMMA NothingWritten ==
    ASSUME NEW t, t.at = "running", t.tool \in Tools, NEW s, s.at = "over", RequestOK(s), RunOK(t, s)
    PROVE  /\ t.tool \notin Early /\ ResultOf(t, s) \notin {"completed", "raised"} => s.writes = 0
           /\ t.tool = "create_approval_instance" => ResultOf(t, s) # "needs_auth"
PROOF
  <1> DEFINE tool == ToolOf(t)
  <1>1. ToolOK(tool) /\ (t.tool \notin Early => WritesLast(tool))
        /\ (t.tool = "create_approval_instance" => tool.wrapped = FALSE)
    BY ToolFacts DEF ToolOf, Early
  <1>2. PICK plan \in tool.plans :
           /\ t.end = plan.end
           /\ t.tool \notin Early => LastWrite(s)
           /\ PlanReads(plan) => ReadsOnly(s)
    BY DEF RunOK
  <1> HIDE DEF tool
  <1>3. plan.end \in {"completed", "declined", "raised", "invalid"}
    BY <1>1, <1>2 DEF ToolOK, PlanOK
  <1>4. \/ s.result = "ok" /\ ResultOf(t, s) = t.end
        \/ s.result # "ok" /\ Op(s) \in tool.caught /\ ResultOf(t, s) = "declined"
        \/ s.result = "permission" /\ tool.wrapped /\ ResultOf(t, s) = "needs_auth"
        \/ ResultOf(t, s) = "raised"
    BY DEF ResultOf, tool
  <1>5. ASSUME t.tool \notin Early, ResultOf(t, s) \notin {"completed", "raised"}
        PROVE  s.writes = 0
    <2>1. CASE s.result = "ok" /\ ResultOf(t, s) = t.end
      <3>1. ~PlanWrites(plan)
        BY <1>2, <1>5, <2>1 DEF PlanWrites
      <3>2. PlanReads(plan)
        BY <1>1, <1>2, <1>5, <3>1 DEF WritesLast
      <3> QED BY <1>2, <3>2 DEF ReadsOnly
    <2>2. CASE Op(s) \in tool.caught
      <3>1. ~Once(Op(s))
        BY <1>1, <2>2 DEF ToolOK, ReadingOperation, Once
      <3> QED BY <1>2, <1>5, <3>1 DEF LastWrite
    <2>3. CASE s.result = "permission"
      <3>1. Once(Op(s)) => s.done = 0
        BY <2>3 DEF RequestOK, WriteOK
      <3> QED BY <1>2, <1>5, <3>1 DEF LastWrite
    <2> QED BY <1>4, <1>5, <2>1, <2>2, <2>3
  <1>6. ASSUME t.tool = "create_approval_instance"
        PROVE  ResultOf(t, s) # "needs_auth"
    BY <1>1, <1>2, <1>3, <1>4, <1>6
  <1> QED BY <1>5, <1>6

\* The result of a tool: one that was not confirmed has written nothing.
LEMMA ReturnSafe ==
    ASSUME AInv, CInv', NEW c \in Agents, Return(c)
    PROVE  AInv'
PROOF
  <1> DEFINE t == [turn[c] EXCEPT !.wrote = @ + call[c].writes, !.touched = @ \/ call[c].touched]
             s == call[c]
             u == turn[c]
  <1>1. /\ SafeTurn(u) /\ SpentOK(u) /\ RunOK(u, s) /\ u.at = "running" /\ s.at = "over"
        /\ DOMAIN call = Caller /\ DOMAIN turn = Agents /\ c \in Caller /\ RequestOK(s) /\ CInv /\ RInv
    BY ToolsAssumption DEF AInv, Return, CInv, RInv, ToolsAssumption
  <1>2. PICK next \in Outcomes(t, ResultOf(t, s)) : turn' = [turn EXCEPT ![c] = next]
    BY DEF Return
  <1>3. /\ IsTurn(t) /\ t.at = "running" /\ t.by = u.by /\ t.tool = u.tool /\ t.end = u.end
        /\ t.policy = u.policy /\ t.confirmed = u.confirmed /\ t.prior = u.prior /\ t.answer = u.answer
        /\ t.touched = (u.touched \/ s.touched) /\ t.wrote = u.wrote + s.writes
    BY <1>1 DEF SafeTurn, IsTurn, TurnField
  <1>4. call' = [call EXCEPT ![c] = Idle] /\ bound' = bound /\ menu' = menu
    BY DEF Return
  <1> HIDE DEF t, s, u
  <1>5. t.touched \in BOOLEAN /\ (t.touched = TRUE => t.confirmed = TRUE)
    <2>1. u.confirmed = TRUE \/ s.touched = FALSE
      BY <1>1 DEF RunOK, ReadsOnly
    <2> QED BY <1>1, <1>3, <2>1 DEF SafeTurn
  <1>6. (NeedsConfirmation(t) <=> NeedsConfirmation(u)) /\ ToolOf(t) = ToolOf(u)
    BY <1>3, SameNeed
  <1>7. SafeTurn(t) /\ t.tool \in Tools
    BY <1>1, <1>3, <1>5, <1>6 DEF SafeTurn
  <1>8. SafeTurn(next) /\ Moves(t, next)
    BY <1>2, <1>7, OutcomesSafe
  <1>9. PICK plan \in ToolOf(t).plans : Within(s, Intended(plan))
    BY <1>1, <1>6 DEF RunOK
  <1>10. s.writes \in Nat /\ s.writes <= Intended(plan)
    <2>1. Intended(plan) \in Nat
      BY <1>7, <1>9, IntendedNumber DEF ToolOf
    <2> QED BY <1>9, <2>1 DEF Within
  <1>11. t.tool # "book_meeting_room" => t.wrote = s.writes
    BY <1>1, <1>3, <1>10 DEF SpentOK
  <1>12. RunOK(t, s)
    BY <1>1, <1>3, <1>6 DEF RunOK
  <1>13. /\ t.tool \notin Early /\ ResultOf(t, s) \notin {"completed", "raised"} => s.writes = 0
         /\ t.tool = "create_approval_instance" => ResultOf(t, s) # "needs_auth"
    BY <1>1, <1>3, <1>7, <1>12, NothingWritten
  <1>14. /\ next.by = t.by
         /\ next.at # "ended" => ResultOf(t, s) = "needs_auth"
         /\ next.answer = "failed" /\ t.by = "approval" /\ next.at = "ended" =>
               ResultOf(t, s) \notin {"completed", "raised"}
    BY <1>2, <1>3, OutcomesSay
  <1>15. /\ next.tool = t.tool /\ next.wrote = t.wrote /\ t.wrote \in Nat /\ next.at \notin {"idle", "running"}
         /\ next.at # "ended" => next.answer = "none"
    BY <1>1, <1>3, <1>8, <1>10 DEF Moves, SpentOK
  <1>16. next.at # "ended" /\ t.tool # "book_meeting_room" => next.wrote = 0
    BY <1>11, <1>13, <1>14, <1>15 DEF Early
  <1>17. next.at = "ended" /\ t.tool # "book_meeting_room" => next.wrote <= Intended(plan)
    BY <1>10, <1>11, <1>15
  <1>18. next.answer = "failed" /\ next.by = "approval" /\ t.tool \notin Early => next.wrote = 0
    BY <1>11, <1>13, <1>14, <1>15 DEF Early
  <1>19. ToolOf(next) = ToolOf(t)
    BY <1>15 DEF ToolOf
  <1>20. SpentOK(next)
    BY <1>9, <1>15, <1>16, <1>17, <1>18, <1>19 DEF SpentOK
  <1>21. RequestOK(Idle)
    BY DEF RequestOK, Idle
  <1>22. BoundOK'
    BY <1>1, <1>4 DEF RInv, BoundOK
  <1>23. RInv' /\ \A e \in Caller \ {c} : call'[e] = call[e]
    BY <1>1, <1>4, <1>21, <1>22, CallChanges
  <1>24. RunOK(next, call'[c]) /\ \A e \in Agents \ {c} : call'[e] = call[e]
    BY <1>15, <1>23, ToolsAssumption DEF RunOK, ToolsAssumption
  <1> QED BY <1>2, <1>8, <1>20, <1>23, <1>24, TurnStep

-----------------------------------------------------------------------------
(***************************************************************************)
(* AInv holds in every state of the agents and their client.               *)
(***************************************************************************)
THEOREM AgentInvariant == AgentSpec => []AInv
PROOF
  <1>1. AgentInit /\ CInv => AInv
    <2> SUFFICES ASSUME AgentInit, CInv
                 PROVE  AInv
      OBVIOUS
    <2>1. turn = [c \in Agents |-> Quiet]
      BY DEF AgentInit
    <2>2. SafeTurn(Quiet) /\ SpentOK(Quiet) /\ Quiet.at = "idle"
      BY DEF SafeTurn, SpentOK, Quiet, IsTurn, TurnField
    <2> HIDE DEF Quiet
    <2>3. \A c \in Agents : SafeTurn(turn[c]) /\ SpentOK(turn[c]) /\ RunOK(turn[c], call[c])
      BY <2>1, <2>2 DEF RunOK
    <2>4. PICK m \in Menus : menu = m.flows /\ call = [c \in Caller |-> [Idle EXCEPT !.left = m.calls[c]]]
      BY DEF AgentInit, ClientInit
    <2>5. bound = {}
      BY DEF AgentInit, ClientInit
    <2>6. \A left : RequestOK([Idle EXCEPT !.left = left])
      BY DEF RequestOK, Idle
    <2>7. RInv
      <3>1. BoundOK
        BY <2>5 DEF BoundOK
      <3>2. menu \in [Caller -> SUBSET Flows]
        BY <2>4, ClientAssumption DEF ClientAssumption
      <3> HIDE DEF Idle
      <3>3. \A c \in Caller : RequestOK(call[c])
        BY <2>4, <2>6
      <3> QED BY <3>1, <3>2, <3>3 DEF RInv
    <2> QED BY <2>1, <2>3, <2>7 DEF AInv
  <1>2. AInv /\ CInv' /\ [AgentNext]_agentVars => AInv'
    <2> SUFFICES ASSUME AInv, CInv', [AgentNext]_agentVars
                 PROVE  AInv'
      OBVIOUS
    <2>1. ASSUME NEW c \in Agents, AgentStep(c)
          PROVE  AInv'
      BY <2>1, ProposeSafe, OwnerSafe, DispatchSafe, ReturnSafe DEF AgentStep
    <2>2. ASSUME NEW c \in Caller, ClientStep(c), turn' = turn
          PROVE  AInv'
      BY <2>2, ClientSafe
    <2>3. ASSUME UNCHANGED <<call, turn, menu>>, BoundOK'
          PROVE  AInv'
      <3>1. ASSUME NEW c \in Agents
            PROVE  SafeTurn(turn[c])' /\ SpentOK(turn[c])' /\ RunOK(turn[c], call[c])'
        <4>1. SafeTurn(turn[c]) /\ SpentOK(turn[c]) /\ RunOK(turn[c], call[c])
          BY DEF AInv
        <4>2. SafeTurn(turn[c])'
          BY <2>3, <4>1 DEF SafeTurn, IsTurn, NeedsConfirmation, ToolOf
        <4>3. SpentOK(turn[c])'
          BY <2>3, <4>1 DEF SpentOK, ToolOf
        <4>4. RunOK(turn[c], call[c])'
          BY <2>3, <4>1 DEF RunOK, ToolOf, ReadsOnly, Within, ToDo, LastWrite, Op, Once
        <4> QED BY <4>2, <4>3, <4>4
      <3>2. ASSUME NEW c \in Caller
            PROVE  RequestOK(call[c])'
        BY <2>3 DEF AInv, RInv, RequestOK, Chosen, WriteOK, SenderOK, Op, Once, Fetching, Pending
      <3>3. RInv'
        BY <2>3, <3>2 DEF AInv, RInv
      <3> QED BY <2>3, <3>1, <3>3 DEF AInv
    <2>4. CASE (AsUser \/ Ticket \/ Tick) /\ UNCHANGED turn
      <3>1. BoundOK'
        <4>1. CASE AsUser
          BY <4>1 DEF AInv, RInv, BoundOK, AsUser
        <4>2. CASE Ticket \/ Tick
          BY <4>2 DEF AInv, RInv, BoundOK, Ticket, Tick
        <4> QED BY <2>4, <4>1, <4>2
      <3> QED BY <2>3, <2>4, <3>1 DEF AsUser, Ticket, Tick
    <2>5. CASE UNCHANGED agentVars
      <3>1. BoundOK'
        BY <2>5 DEF AInv, RInv, BoundOK, agentVars, clientVars
      <3> QED BY <2>3, <2>5, <3>1 DEF agentVars, clientVars
    <2> QED BY <2>1, <2>2, <2>4, <2>5 DEF AgentNext, ClientNext
  <1> QED BY <1>1, <1>2, ClientInvariant, PTL DEF AgentSpec

(***************************************************************************)
(* Nothing is written for a tool call that nobody has confirmed, whatever  *)
(* the tools and the policies: a tool that asks for no confirmation only   *)
(* reads, and no way to its dispatch skips the one it asks for (loop.py,   *)
(* oauth.py, approval.py, scheduled_policy.py).                            *)
(***************************************************************************)
THEOREM WritesAreConfirmed == AgentSpec => []UnconfirmedWritesNothing
PROOF
  <1>1. AInv => UnconfirmedWritesNothing
    <2> SUFFICES ASSUME AInv, NEW c \in Agents, Touched(c)
                 PROVE  turn[c].confirmed
      BY DEF UnconfirmedWritesNothing
    <2>1. SafeTurn(turn[c]) /\ RunOK(turn[c], call[c])
      BY DEF AInv
    <2>2. CASE turn[c].touched
      BY <2>1, <2>2 DEF SafeTurn
    <2>3. CASE turn[c].at = "running" /\ call[c].touched
      BY <2>1, <2>3 DEF RunOK, ReadsOnly
    <2> QED BY <2>2, <2>3 DEF Touched
  <1> QED BY <1>1, AgentInvariant, PTL

(***************************************************************************)
(* One confirmation buys the writes of one run of the tool, for every tool *)
(* but the booking of a room: a call is dispatched again only for a        *)
(* missing authorization, and what was dispatched before was then refused  *)
(* at the operation that writes (approval.py, oauth.py, Transport._send).  *)
(***************************************************************************)
THEOREM ConfirmationBuysOneRun == AgentSpec => []ConfirmedWriteOnce
PROOF
  <1>1. AInv => ConfirmedWriteOnce
    <2> SUFFICES ASSUME AInv, NEW c \in Agents, turn[c].tool \notin {"none", "book_meeting_room"}
                 PROVE  \E plan \in ToolOf(turn[c]).plans : Written(c) <= Intended(plan)
      BY DEF ConfirmedWriteOnce
    <2> DEFINE t == turn[c]
               s == call[c]
    <2>1. SafeTurn(t) /\ SpentOK(t) /\ RunOK(t, s) /\ t.tool \in Tools /\ t.tool # "book_meeting_room"
      BY DEF AInv, SafeTurn
    <2>2. Written(c) = t.wrote + (IF t.at = "running" THEN s.writes ELSE 0)
      BY DEF Written
    <2> HIDE DEF t, s
    <2>3. \E plan \in ToolOf(t).plans : Written(c) <= Intended(plan)
      <3>1. CASE t.at = "ended"
        BY <2>1, <2>2, <3>1 DEF SpentOK
      <3>2. CASE t.at \notin {"ended", "running"}
        <4>1. Written(c) = 0
          BY <2>1, <2>2, <3>2 DEF SpentOK
        <4>2. PICK plan : plan \in ToolOf(t).plans
          BY <2>1, ToolFacts DEF ToolOK, ToolOf
        <4>3. 0 <= Intended(plan)
          BY <2>1, <4>2, IntendedNumber DEF ToolOf
        <4> QED BY <4>1, <4>2, <4>3
      <3>3. CASE t.at = "running"
        <4>1. Written(c) = s.writes
          <5>1. t.wrote = 0 /\ Written(c) = t.wrote + s.writes
            BY <2>1, <2>2, <3>3 DEF SpentOK
          <5>2. s.writes \in Nat
            BY <2>1, <3>3 DEF RunOK, Within
          <5> QED BY <5>1, <5>2
        <4>2. PICK plan \in ToolOf(t).plans : Within(s, Intended(plan))
          BY <2>1, <3>3 DEF RunOK
        <4>3. Intended(plan) \in Nat
          BY <2>1, <4>2, IntendedNumber DEF ToolOf
        <4>4. s.writes <= Intended(plan)
          BY <4>2, <4>3 DEF Within
        <4> QED BY <4>1, <4>2, <4>4
      <3> QED BY <3>1, <3>2, <3>3
    <2> QED BY <2>3 DEF t
  <1> QED BY <1>1, AgentInvariant, PTL

(***************************************************************************)
(* A confirmed call that is reported as failed, and not as unknown, has    *)
(* written nothing, for every tool that writes with its last operation:    *)
(* an exception after an approval is told as unknown, and all else that    *)
(* ends a handler early comes before its write or refuses it (approval.py, *)
(* reauth_on_permission_error).                                            *)
(***************************************************************************)
THEOREM FailureIsClean == AgentSpec => []FailedWroteNothing
PROOF
  <1>1. AInv => FailedWroteNothing
    <2> SUFFICES ASSUME AInv, NEW c \in Agents, turn[c].answer = "failed", turn[c].by = "approval",
                        turn[c].tool \notin {"book_meeting_room", "create_approval_instance"}
                 PROVE  Written(c) = 0
      BY DEF FailedWroteNothing
    <2>1. SpentOK(turn[c])
      BY DEF AInv
    <2>2. turn[c].at = "ended" /\ turn[c].wrote = 0
      BY <2>1 DEF SpentOK, Early
    <2> QED BY <2>2 DEF Written
  <1> QED BY <1>1, AgentInvariant, PTL

(***************************************************************************)
(* A write whose verb may not be repeated is applied at most once by one   *)
(* call and not at all by one that is refused, however many answers are    *)
(* lost; and at most once under a uuid of the caller, who may call again   *)
(* (Transport._should_retry): such a write is retried only after an answer *)
(* that says it was not executed.                                          *)
(***************************************************************************)
THEOREM NeverWrittenTwice == AgentSpec => []WrittenOnce
PROOF
  <1>1. AInv => WrittenOnce
    <2> SUFFICES ASSUME AInv, NEW c \in Caller
                 PROVE  /\ call[c].own => call[c].total <= 1
                        /\ call[c].flow # <<>> /\ Once(Op(call[c])) =>
                              /\ call[c].done <= 1
                              /\ call[c].result \in {"error", "permission"} => call[c].done = 0
      BY DEF WrittenOnce
    <2>1. RequestOK(call[c])
      BY DEF AInv, RInv
    <2>2. CASE call[c].at = "idle"
      BY <2>1, <2>2 DEF RequestOK
    <2>3. CASE call[c].at # "idle"
      BY <2>1, <2>3 DEF RequestOK, Chosen, WriteOK
    <2> QED BY <2>2, <2>3
  <1> QED BY <1>1, AgentInvariant, PTL

(***************************************************************************)
(* What is called through the view of a user carries the user's token and  *)
(* what is called through the app's never does, whichever view was used    *)
(* first and however often a view is copied (as_user): a copy keeps none   *)
(* of the namespaces that operations use, so a namespace is only ever that *)
(* of the view it is read from.                                            *)
(***************************************************************************)
THEOREM SentAsViewed == AgentSpec => []ViewToken
PROOF
  <1>1. AInv => ViewToken
    <2> SUFFICES ASSUME AInv, NEW c \in Caller, InOperation(c), Op(call[c]).token = "app"
                 PROVE  call[c].tok = UserToken <=> call[c].view = "user"
      BY DEF ViewToken
    <2>1. call[c].at = "flight" /\ call[c].purpose = "op" /\ RequestOK(call[c])
      BY DEF AInv, RInv, InOperation
    <2> QED BY <2>1 DEF RequestOK, SenderOK, Pending
  <1> QED BY <1>1, AgentInvariant, PTL
=============================================================================
