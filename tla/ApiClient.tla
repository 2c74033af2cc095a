----------------------------- MODULE ApiClient -----------------------------
(***************************************************************************)
(* FeishuClient and what lies under it: the views of a client and the      *)
(* namespaces they cache (client.py), the app token of TokenManager with   *)
(* its cache and its lock (auth/tokens.py), the requests that fetch it     *)
(* (auth/credentials.py), the retries of Transport._send (_transport.py,   *)
(* errors.py) and the pages of a list (pagination.py).  The operations are *)
(* those of FeishuApi.                                                     *)
(*                                                                         *)
(* The platform is external: it may execute a request whose answer is      *)
(* lost, refuse it, or fail before or after executing it.  Time is a       *)
(* clock; an answer takes at most Timeout, a sleep ends when it is due.    *)
(***************************************************************************)
EXTENDS FeishuApi, Naturals

CONSTANTS
    Caller,        \* tasks that share one client
    Menus,         \* what the callers do: the operations and the number of calls of each
    MaxPages,      \* bound: pages of a list
    MaxAttempts,   \* RetryPolicy.max_attempts
    Budget,        \* RetryPolicy.elapsed_budget
    MaxDelay,      \* RetryPolicy.max_delay
    Timeout,       \* the request timeout
    Offset,        \* TokenManager refresh_offset
    MinTtl,        \* TokenManager min_ttl
    Lives,         \* lifetimes of the app tokens the platform grants; 0 for a malformed one
    MaxGrants,     \* bound: app tokens granted
    MaxClock       \* bound: time

ASSUME ClientAssumption ==
    /\ MaxAttempts \in Nat \ {0}
    /\ {Budget, MaxDelay, Timeout, Offset, MinTtl, MaxGrants, MaxClock} \subseteq Nat
    /\ Lives \subseteq Nat
    /\ Offset >= Timeout + Budget
    /\ "nobody" \notin Caller
    /\ \A m \in Menus : m.flows \in [Caller -> SUBSET Flows]

VARIABLES
    clock,     \* time.monotonic of the process, which is also the platform's
    menu,      \* [Caller -> SUBSET Flows]: the operations each caller picks from
    isv,       \* StoreCredential rather than InternalCredential
    ticket,    \* the app_ticket of the store app has been stored
    bound,     \* {<<view, slot, view>>}: the client of each namespace a view caches
    cache,     \* the cached app token: [value, expires]
    lock,      \* the holder of its lock
    grants,    \* the app tokens granted: when asked for, cached until, ended by the platform
    call       \* [Caller -> the call of each task]

clientVars == <<clock, menu, isv, ticket, bound, cache, lock, grants, call>>

-----------------------------------------------------------------------------
View == {"app", "user"}

Nobody == "nobody"

NoToken == 0

UserToken == MaxGrants + 1

\* Mutant of NAMESPACE_SLOTS: im is not reset in a copy.
SlotsWithoutIm == {"approval", "bitable", "contact", "drive"}

\* A lazily created namespace is cached in a slot of its view; these are reset in
\* a copy of the client.
NAMESPACE_SLOTS ==
    {"approval", "bitable", "board", "calendar", "contact", "directory", "docx", "drive",
     "im", "mail", "meeting_room", "oauth", "sheets", "task", "vc", "wiki"}

IDEMPOTENT_METHODS == {"GET", "HEAD", "PUT", "DELETE"}

\* The client a namespace of a view sends its requests with: the one it was
\* created for, itself when this call creates it.
ClientOf(view, slot) ==
    IF \E w \in View : <<view, slot, w>> \in bound
    THEN CHOOSE w \in View : <<view, slot, w>> \in bound
    ELSE view

Op(s) == Head(s.flow)

Idle == [at |-> "idle", view |-> "app", flow |-> <<>>, own |-> FALSE, left |-> 0,
         purpose |-> "op", tok |-> NoToken, page |-> 1, attempt |-> 0, asked |-> 0,
         sent |-> 0, until |-> 0, wake |-> 0, done |-> 0, total |-> 0, writes |-> 0,
         touched |-> FALSE, result |-> "none"]

ClientInit ==
    /\ clock = 0
    /\ \E m \in Menus :
          /\ menu = m.flows
          /\ isv \in m.isv
          /\ call = [c \in Caller |-> [Idle EXCEPT !.left = m.calls[c]]]
    /\ ticket = FALSE
    /\ bound = {}
    /\ cache = [value |-> NoToken, expires |-> 0]
    /\ lock = Nobody
    /\ grants = <<>>

-----------------------------------------------------------------------------
(***************************************************************************)
(* Transport.  A request is in flight until the platform answers; _send    *)
(* then returns, sleeps before the next attempt, or raises.                *)
(***************************************************************************)

Reply == [status: {200, 401, 404, 429, 500, 501}, code: {"zero", "rate", "permission", "auth", "other"}]

\* error_from_envelope, and classify for a success.
Kind(r) ==
    CASE r.code = "zero" /\ r.status = 200 -> "ok"
      [] r.code = "rate" \/ r.status = 429 -> "rate"
      [] r.code # "rate" /\ r.status = 500 -> "server"
      [] r.code = "permission" /\ r.status \notin {429, 500} -> "permission"
      [] r.status = 401 /\ r.code \notin {"rate", "permission"} -> "auth"
      [] r.code = "auth" /\ r.status \notin {401, 429, 500} -> "auth"
      [] OTHER -> "api"

\* What the platform may have done with the request by then: an answer that is
\* lost or a 5xx says nothing, any other error means it was not executed.
Outcome ==
    {[kind |-> Kind(r), executed |-> Kind(r) = "ok"] : r \in Reply}
    \cup [kind: {"server", "transport"}, executed: BOOLEAN]

Verb(s) == IF s.purpose = "op" THEN Op(s).verb ELSE "POST"

\* Mutant of Retriable: every verb is retried.
RetriesEveryVerb(s, kind) == s.attempt < MaxAttempts /\ kind \in {"rate", "server", "transport"}

\* _should_retry
Retriable(s, kind) ==
    /\ s.attempt < MaxAttempts
    /\ \/ kind = "rate"
       \/ kind \in {"server", "transport"} /\ Verb(s) \in IDEMPOTENT_METHODS

\* _past_deadline before a sleep of d
PastDeadline(s, d) == clock >= s.until \/ clock + d > s.until

Sent(s, purpose, tok) ==
    [s EXCEPT !.at = "flight", !.purpose = purpose, !.tok = tok, !.attempt = 1,
              !.sent = clock, !.until = clock + Budget]

Slept(s, d) == [s EXCEPT !.at = "sleep", !.wake = clock + d]

Resent(s) == [s EXCEPT !.at = "flight", !.attempt = @ + 1, !.sent = clock, !.wake = 0]

\* The end of a call; one that is answered neither way may have been executed.
Over(s, kind) ==
    [s EXCEPT !.at = "over",
              !.result = IF kind \in {"server", "transport", "cancelled"} THEN "unknown" ELSE kind,
              !.purpose = "op", !.tok = NoToken, !.page = 1, !.attempt = 0, !.asked = 0,
              !.sent = 0, !.until = 0, !.wake = 0]

-----------------------------------------------------------------------------
(***************************************************************************)
(* Tokens.                                                                 *)
(***************************************************************************)

Fresh == cache.value # NoToken /\ cache.expires > clock

\* FeishuClient.request, download and upload: the explicit token, the user's on a
\* user view, the cached one, or the wait for the lock of the token manager.
WithToken(s) ==
    LET op == Op(s) IN
    CASE op.token = "none" -> Sent(s, "op", NoToken)
      [] op.token = "given" -> Sent(s, "op", UserToken)
      [] op.token = "app" /\ ClientOf(s.view, op.ns) = "user" -> Sent(s, "op", UserToken)
      [] OTHER ->
            IF Fresh THEN Sent(s, "op", cache.value) ELSE [s EXCEPT !.at = "lock"]

\* Mutant of Acquire: the cache is not read again under the lock.
AcquireUnchecked(c) ==
    /\ call[c].at = "lock"
    /\ lock = Nobody
    /\ lock' = c
    /\ call' = [call EXCEPT ![c] = Sent([@ EXCEPT !.asked = clock], "tenant", NoToken)]
    /\ UNCHANGED <<clock, menu, isv, ticket, bound, cache, grants>>

\* The lock is taken and the cache is read again.
Acquire(c) ==
    /\ call[c].at = "lock"
    /\ lock = Nobody
    /\ IF Fresh
       THEN call' = [call EXCEPT ![c] = Sent(@, "op", cache.value)] /\ UNCHANGED lock
       ELSE /\ lock' = c
            /\ call' = [call EXCEPT ![c] =
                 Sent([@ EXCEPT !.asked = clock],
                      IF ~isv THEN "tenant" ELSE IF ticket THEN "app" ELSE "resend", NoToken)]
    /\ UNCHANGED <<clock, menu, isv, ticket, bound, cache, grants>>

\* Mutant of Ttl: the refresh offset is forgotten.
TtlOfLife(life) == life

\* ttl of TokenManager.token
Ttl(life) == IF life > Offset + MinTtl THEN life - Offset ELSE MinTtl

\* The platform granted a token at some time since the request was sent.
Granted(c, life, at) ==
    /\ Len(grants) < MaxGrants
    /\ grants' = Append(grants, [asked |-> call[c].asked, expires |-> clock + Ttl(life),
                                 end |-> at + life, long |-> life > Offset + MinTtl])
    /\ cache' = [value |-> Len(grants) + 1, expires |-> clock + Ttl(life)]
    /\ lock' = Nobody
    /\ call' = [call EXCEPT ![c] = Sent([@ EXCEPT !.asked = 0], "op", Len(grants) + 1)]

\* The lock is left with whatever ends the fetch.
Failed(c, result) ==
    /\ call' = [call EXCEPT ![c] = Over(@, result)]
    /\ lock' = IF lock = c THEN Nobody ELSE lock
    /\ UNCHANGED <<cache, grants>>

\* The answers of the token endpoints: a resent ticket still raises, the app token
\* of a store app is exchanged for the tenant's, a malformed lifetime raises.
Fetched(c) ==
    \/ call[c].purpose = "resend" /\ Failed(c, "error")
    \/ /\ call[c].purpose = "app"
       /\ call' = [call EXCEPT ![c] = Sent(@, "tenant", NoToken)]
       /\ UNCHANGED <<lock, cache, grants>>
    \/ /\ call[c].purpose = "tenant"
       /\ \E life \in Lives :
             IF life = 0 THEN Failed(c, "error")
             ELSE \E at \in call[c].sent .. clock : Granted(c, life, at)

-----------------------------------------------------------------------------
(***************************************************************************)
(* Calls.                                                                  *)
(***************************************************************************)

\* as_user: a copy of the client whose namespaces are created again.
AsUser ==
    /\ bound' = {b \in bound : b[1] # "user"}
           \cup {<<"user", b[2], b[3]>> : b \in {x \in bound : x[1] = "app" /\ x[2] \notin NAMESPACE_SLOTS}}
    /\ UNCHANGED <<clock, menu, isv, ticket, cache, lock, grants, call>>

\* The namespace property of the view, created on first use.
Access(view, slot) == bound' = bound \cup {<<view, slot, ClientOf(view, slot)>>}

Starting(s, view, flow, own, total) ==
    [s EXCEPT !.view = view, !.flow = flow, !.own = own, !.left = @ - 1, !.page = 1,
              !.done = 0, !.total = total, !.writes = 0, !.touched = FALSE,
              !.result = "none"]

\* A task calls an operation; own says that it passes its own uuid.
Begin(c) ==
    /\ call[c].at \in {"idle", "over"}
    /\ call[c].left > 0
    /\ \E view \in View, flow \in menu[c], own \in BOOLEAN, malformed \in BOOLEAN :
          /\ own => flow[1].key # "none"
          /\ malformed => flow[1].limited
          /\ Access(view, flow[1].ns)
          /\ LET s == Starting(call[c], view, flow, own, 0) IN
             call' = [call EXCEPT ![c] = IF malformed THEN Over(s, "error") ELSE WithToken(s)]
    /\ UNCHANGED <<clock, menu, isv, ticket, cache, lock, grants>>

\* A task that saw no answer calls the same operation again, under the same uuid
\* if it has one.
Repeat(c) ==
    /\ call[c].at = "over"
    /\ call[c].result = "unknown"
    /\ call[c].left > 0
    /\ LET s == call[c] IN
       call' = [call EXCEPT ![c] = WithToken(Starting(s, s.view, s.flow, s.own, s.total))]
    /\ UNCHANGED <<clock, menu, isv, ticket, bound, cache, lock, grants>>

\* The next operation of the helper, or its end.
Continue(s) ==
    IF Len(s.flow) = 1 THEN Over(s, "ok")
    ELSE WithToken([s EXCEPT !.flow = Tail(@), !.page = 1, !.done = 0])

\* What a page leads to: iterate stops at a last page, at max_items and at a page
\* token it just used; the loop of instances.query has only the first two.
AfterPage(s, more) ==
    CASE Op(s).pages = "one" -> Continue(s)
      [] Op(s).pages = "whole" -> IF more = "last" THEN Continue(s) ELSE Over(s, "error")
      [] more = "next" /\ Op(s).pages \notin {"one", "whole"} -> WithToken([s EXCEPT !.page = @ + 1])
      [] more = "repeat" /\ Op(s).pages = "unguarded" -> WithToken(s)
      [] OTHER -> Continue(s)

\* The uuid a keyed operation is sent with: the caller's, or one of this call only.
Uuid(s) == IF s.own THEN "own" ELSE "generated"

\* The platform applies a write once per uuid; done and total count the times it was
\* applied, by this operation and under all calls with the same uuid.  Of all operations
\* of the call, writes counts those applied whose verb may not be repeated, and touched
\* tells whether any was.
Applied(s, executed) ==
    IF ~executed \/ s.purpose # "op" \/ ~Op(s).writes THEN s
    ELSE IF Op(s).key # "none" /\ (s.done > 0 \/ (Uuid(s) = "own" /\ s.total > 0)) THEN s
    ELSE [s EXCEPT !.done = @ + 1, !.total = @ + 1, !.touched = TRUE,
                   !.writes = IF Op(s).verb \in IDEMPOTENT_METHODS THEN @ ELSE @ + 1]

\* An answer, or none: _send decides what it leads to.
Answer(c) ==
    /\ call[c].at = "flight"
    /\ UNCHANGED <<clock, menu, isv, ticket, bound>>
    /\ \E o \in Outcome :
          LET s == Applied(call[c], o.executed) IN
          \/ o.kind = "ok" /\ s.purpose # "op" /\ Fetched(c)
          \/ /\ o.kind = "ok" /\ s.purpose = "op"
             /\ \E more \in {"last", "next", "repeat"} :
                   /\ more = "next" => s.page < MaxPages
                   /\ call' = [call EXCEPT ![c] = AfterPage(s, more)]
             /\ UNCHANGED <<cache, lock, grants>>
          \/ /\ o.kind # "ok"
             /\ \E d \in 0..MaxDelay :
                   IF Retriable(s, o.kind) /\ ~PastDeadline(s, d)
                   THEN call' = [call EXCEPT ![c] = Slept(s, d)] /\ UNCHANGED <<cache, lock, grants>>
                   ELSE IF s.purpose = "op" /\ Op(s).pages = "chain" /\ o.kind = "api"
                   THEN call' = [call EXCEPT ![c] = Continue(s)] /\ UNCHANGED <<cache, lock, grants>>
                   ELSE /\ call' = [call EXCEPT ![c] = Over(s, IF o.kind \in {"server", "transport", "permission"} THEN o.kind ELSE "error")]
                        /\ lock' = IF lock = c THEN Nobody ELSE lock
                        /\ UNCHANGED <<cache, grants>>

Wake(c) ==
    /\ call[c].at = "sleep"
    /\ clock >= call[c].wake
    /\ call' = [call EXCEPT ![c] = Resent(@)]
    /\ UNCHANGED <<clock, menu, isv, ticket, bound, cache, lock, grants>>

\* The task is cancelled where it waits; a request in flight may be executed.
Cancel(c) ==
    /\ call[c].at \in {"lock", "flight", "sleep"}
    /\ \E executed \in BOOLEAN :
          /\ executed => call[c].at = "flight"
          /\ call' = [call EXCEPT ![c] = Over(Applied(@, executed), "cancelled")]
    /\ lock' = IF lock = c THEN Nobody ELSE lock
    /\ UNCHANGED <<clock, menu, isv, ticket, bound, cache, grants>>

\* The app_ticket event of a store app.
Ticket ==
    /\ isv /\ ~ticket
    /\ ticket' = TRUE
    /\ UNCHANGED <<clock, menu, isv, bound, cache, lock, grants, call>>

Tick ==
    /\ clock < MaxClock
    /\ \A c \in Caller :
          /\ call[c].at = "flight" => clock < call[c].sent + Timeout
          /\ call[c].at = "sleep" => clock < call[c].wake
    /\ clock' = clock + 1
    /\ UNCHANGED <<menu, isv, ticket, bound, cache, lock, grants, call>>

ClientStep(c) == Begin(c) \/ Acquire(c) \/ Answer(c) \/ Wake(c) \/ Cancel(c) \/ Repeat(c)

ClientNext == (\E c \in Caller : ClientStep(c)) \/ AsUser \/ Ticket \/ Tick

ClientSpec == ClientInit /\ [][ClientNext]_clientVars

-----------------------------------------------------------------------------
InOperation(c) == call[c].at = "flight" /\ call[c].purpose = "op"

\* A write that may not be repeated.
Once(op) == op.writes /\ op.verb \notin IDEMPOTENT_METHODS

(***************************************************************************)
(* No attempt, however late its retry, presents an app token the platform  *)
(* has ended: the refresh offset covers the delay of the grant and the     *)
(* whole retry budget.  Tokens granted for less than the offset are kept   *)
(* for min_ttl all the same and are left out (TokenManager.token).         *)
(***************************************************************************)
TokenLive ==
    \A c \in Caller : InOperation(c) /\ call[c].tok \in DOMAIN grants /\ grants[call[c].tok].long =>
        call[c].sent < grants[call[c].tok].end

(***************************************************************************)
(* Callers that find the token expired together fetch it once: a token is  *)
(* asked for only when every token granted before it has left the cache    *)
(* (the second look under the lock of TokenManager.token).                 *)
(***************************************************************************)
FetchedOnce ==
    \A g, h \in DOMAIN grants : g < h => grants[g].expires <= grants[h].asked

(***************************************************************************)
(* A write that is not idempotent is applied at most once by one call, and *)
(* not at all by a call that the platform refused, whatever answers were   *)
(* lost on the way (Transport._should_retry); and at most once by all the  *)
(* calls of a caller that saw no answer and tries again with its own uuid. *)
(***************************************************************************)
WrittenOnce ==
    \A c \in Caller :
        /\ call[c].own => call[c].total <= 1
        /\ call[c].flow # <<>> /\ Once(Op(call[c])) =>
              /\ call[c].done <= 1
              /\ call[c].result \in {"error", "permission"} => call[c].done = 0

(***************************************************************************)
(* What is called through the view of a user is sent with the user's       *)
(* token, and what is called through the app's client never is, although   *)
(* a view is a copy that shares the cached namespaces (as_user).           *)
(***************************************************************************)
ViewToken ==
    \A c \in Caller : InOperation(c) /\ Op(call[c]).token = "app" =>
        (call[c].tok = UserToken <=> call[c].view = "user")
=============================================================================
