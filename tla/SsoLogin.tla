------------------------------ MODULE SsoLogin ------------------------------
(***************************************************************************)
(* The single-sign-on flow: the pending_authorizations table of            *)
(* TtrpgAuthStore (begin_authorization, consume_authorization) and the two *)
(* routes of backend.py that use it, /.api/auth/sso/start and              *)
(* /.api/auth/sso/callback.  A callback is three separate pieces of work,  *)
(* a transaction that consumes the authorization, a network exchange with  *)
(* the central service, and create_session; the process may stop, time may *)
(* pass and other requests may run between any two of them.                *)
(*                                                                         *)
(* The central service and the browsers' cookie jars are not in this       *)
(* repository: they are modelled as the routes use them.  create_session   *)
(* is one step here; module BrowserSessions has its two.                   *)
(***************************************************************************)
EXTENDS Integers, FiniteSets

CONSTANTS
    Workers,          \* request threads
    Browsers,         \* user agents
    States,           \* state parameters secrets.token_urlsafe may draw
    Cookies,          \* pending-login cookies it may draw
    NoCookie,         \* an empty jar
    Tokens,           \* session tokens
    PendingLifetime,  \* PENDING_LIFETIME_SECONDS, in clock ticks
    MaxPending,       \* MAX_PENDING_AUTHORIZATIONS
    MaxTime           \* bound on the clock

ASSUME LoginAssumption ==
    /\ PendingLifetime \in Nat \ {0}
    /\ MaxPending \in Nat \ {0}
    /\ MaxTime \in Nat
    /\ NoCookie \notin Cookies

VARIABLES
    now,          \* now_seconds()
    pending,      \* rows of pending_authorizations
    lastPending,  \* greatest rowid handed out
    login,        \* what each worker is doing
    jar,          \* the pending-login cookie of each browser
    started,      \* history: every authorization begun, with its browser
    redeemed,     \* history: every authorization consumed
    grants        \* history: every session created, with what it came from

vars == <<now, pending, lastPending, login, jar, started, redeemed, grants>>

-----------------------------------------------------------------------------
(* Rows and requests *)

Row == [state    : States,          \* state_digest; the PKCE verifier goes with it
        cookie   : Cookies,         \* browser_token_digest
        created  : 0 .. MaxTime,
        rowid    : Nat,
        consumed : BOOLEAN]

Login ==
    [stage : {"idle"}]
      \cup [stage : {"start"}, browser : Browsers, cookie : Cookies,
            state : States, stamp : 0 .. MaxTime]
      \cup [stage : {"redirect"}, browser : Browsers, cookie : Cookies]
      \* code : the authorization the central service issued the code for
      \cup [stage : {"callback"}, browser : Browsers, cookie : Cookies,
            state : States, code : States, stamp : 0 .. MaxTime]
      \cup [stage : {"exchange"}, browser : Browsers, state : States, code : States]
      \cup [stage : {"create"}, browser : Browsers, state : States, approval : States]
      \cup [stage : {"granted"}, browser : Browsers]

Idle == [stage |-> "idle"]

Become(w, q) == login' = [login EXCEPT ![w] = q]

InStage(stages) == {w \in Workers : login[w].stage \in stages}

\* Everything drawn at random so far; a fresh draw never repeats one.
DrawnStates ==
    {r.state : r \in started} \cup {login[w].state : w \in InStage({"start"})}

DrawnCookies ==
    {r.cookie : r \in started} \cup {login[w].cookie : w \in InStage({"start"})}

-----------------------------------------------------------------------------
(* The statements of the two transactions *)

\* expires_at <= timestamp
Expired(row, timestamp) == row.created + PendingLifetime <= timestamp

\* DELETE ... WHERE expires_at <= ? OR consumed_at IS NOT NULL
Purge(rows, timestamp) == {r \in rows : ~Expired(r, timestamp) /\ ~r.consumed}

\* Mutant of Newer: the oldest rows are kept.
NewerFlipped(q, r) ==
    \/ q.created < r.created
    \/ q.created = r.created /\ q.rowid < r.rowid

\* ORDER BY created_at DESC, rowid DESC
Newer(q, r) ==
    \/ q.created > r.created
    \/ q.created = r.created /\ q.rowid > r.rowid

\* Mutant of Trim: one row too many.
TrimOneMore(rows) ==
    {r \in rows : Cardinality({q \in rows : Newer(q, r)}) <= MaxPending}

\* DELETE of everything beyond the MaxPending newest rows
Trim(rows) ==
    {r \in rows : Cardinality({q \in rows : Newer(q, r)}) < MaxPending}

\* Mutants of Redeemable: a consumed row is good again; any cookie will do.
RedeemableAgain(row, q) ==
    row.state = q.state /\ ~Expired(row, q.stamp) /\ row.cookie = q.cookie

RedeemableAnywhere(row, q) ==
    row.state = q.state /\ ~row.consumed /\ ~Expired(row, q.stamp)

\* The row consume_authorization accepts
Redeemable(row, q) ==
    /\ row.state = q.state
    /\ ~row.consumed
    /\ ~Expired(row, q.stamp)
    /\ row.cookie = q.cookie

-----------------------------------------------------------------------------
Init ==
    /\ now = 0
    /\ pending = {}
    /\ lastPending = 0
    /\ login = [w \in Workers |-> Idle]
    /\ jar = [b \in Browsers |-> NoCookie]
    /\ started = {}
    /\ redeemed = {}
    /\ grants = {}

(* GET /.api/auth/sso/start *)

\* The cookie sent along is kept, a missing one is replaced by a fresh draw;
\* state, verifier and timestamp are fixed before the transaction.
StampStart(w, b, s, c) ==
    /\ login[w] = Idle
    /\ s \notin DrawnStates
    /\ IF jar[b] = NoCookie THEN c \notin DrawnCookies ELSE c = jar[b]
    /\ Become(w, [stage |-> "start", browser |-> b, cookie |-> c, state |-> s, stamp |-> now])
    /\ UNCHANGED <<now, pending, lastPending, jar, started, redeemed, grants>>

\* The row begin_authorization inserts
NewRow(w) ==
    [state |-> login[w].state, cookie |-> login[w].cookie, created |-> login[w].stamp,
     rowid |-> lastPending + 1, consumed |-> FALSE]

\* begin_authorization: purge, insert, trim, commit.
CommitStart(w) ==
    /\ login[w].stage = "start"
    /\ pending' = Trim(Purge(pending, login[w].stamp) \cup {NewRow(w)})
    /\ lastPending' = lastPending + 1
    /\ started' = started \cup
          {[state |-> login[w].state, browser |-> login[w].browser,
            cookie |-> login[w].cookie, created |-> login[w].stamp]}
    /\ Become(w, [stage |-> "redirect", browser |-> login[w].browser,
                  cookie |-> login[w].cookie])
    /\ UNCHANGED <<now, jar, redeemed, grants>>

(* GET /.api/auth/sso/callback *)

\* Any browser may follow any callback URL, with a code the central service
\* issued for this authorization or for another one.
StampCallback(w, b, s, code) ==
    /\ login[w] = Idle
    /\ jar[b] # NoCookie
    /\ {s, code} \subseteq {r.state : r \in started}
    /\ Become(w, [stage |-> "callback", browser |-> b, cookie |-> jar[b],
                  state |-> s, code |-> code, stamp |-> now])
    /\ UNCHANGED <<now, pending, lastPending, jar, started, redeemed, grants>>

\* Mutant of Consume: the mark is left for later.
ConsumeUnmarked(w) ==
    /\ login[w].stage = "callback"
    /\ \E r \in pending : Redeemable(r, login[w])
    /\ Become(w, [stage |-> "exchange", browser |-> login[w].browser,
                  state |-> login[w].state, code |-> login[w].code])
    /\ redeemed' = redeemed \cup {login[w].state}
    /\ UNCHANGED <<now, pending, lastPending, jar, started, grants>>

\* consume_authorization
Consume(w) ==
    /\ login[w].stage = "callback"
    /\ \E r \in pending :
         /\ Redeemable(r, login[w])
         /\ pending' = (pending \ {r}) \cup {[r EXCEPT !.consumed = TRUE]}
    /\ Become(w, [stage |-> "exchange", browser |-> login[w].browser,
                  state |-> login[w].state, code |-> login[w].code])
    /\ redeemed' = redeemed \cup {login[w].state}
    /\ UNCHANGED <<now, lastPending, jar, started, grants>>

Refuse(w) ==
    /\ login[w].stage = "callback"
    /\ ~ \E r \in pending : Redeemable(r, login[w])
    /\ Become(w, Idle)
    /\ UNCHANGED <<now, pending, lastPending, jar, started, redeemed, grants>>

\* exchange_identity: the central service checks the code against the
\* verifier of the consumed row; the identity is the one that approved it.
Exchange(w) ==
    /\ login[w].stage = "exchange"
    /\ login[w].code = login[w].state
    /\ Become(w, [stage |-> "create", browser |-> login[w].browser,
                  state |-> login[w].state, approval |-> login[w].code])
    /\ UNCHANGED <<now, pending, lastPending, jar, started, redeemed, grants>>

\* create_session commits a session with a fresh token.
CreateSession(w, t) ==
    /\ login[w].stage = "create"
    /\ \A g \in grants : g.token # t
    /\ grants' = grants \cup
          {[token |-> t, browser |-> login[w].browser, state |-> login[w].state,
            approval |-> login[w].approval]}
    /\ Become(w, [stage |-> "granted", browser |-> login[w].browser])
    /\ UNCHANGED <<now, pending, lastPending, jar, started, redeemed>>

(* Either route *)

\* The exchange is rejected or the service unreachable, or a transaction
\* meets a busy database: the request is answered with an error.  Whatever
\* has been committed stays.
Fail(w) ==
    /\ login[w].stage \in {"start", "callback", "exchange", "create"}
    /\ Become(w, Idle)
    /\ UNCHANGED <<now, pending, lastPending, jar, started, redeemed, grants>>

\* The response reaches its browser: the start route sets the pending cookie,
\* the callback route clears it.
Deliver(w) ==
    /\ login[w].stage \in {"redirect", "granted"}
    /\ jar' = [jar EXCEPT ![login[w].browser] =
                 IF login[w].stage = "redirect" THEN login[w].cookie ELSE NoCookie]
    /\ Become(w, Idle)
    /\ UNCHANGED <<now, pending, lastPending, started, redeemed, grants>>

LoseResponse(w) ==
    /\ login[w].stage \in {"redirect", "granted"}
    /\ Become(w, Idle)
    /\ UNCHANGED <<now, pending, lastPending, jar, started, redeemed, grants>>

\* The cookie's Max-Age runs out or the user clears it.
Forget(b) ==
    /\ jar' = [jar EXCEPT ![b] = NoCookie]
    /\ UNCHANGED <<now, pending, lastPending, login, started, redeemed, grants>>

Tick ==
    /\ now < MaxTime
    /\ now' = now + 1
    /\ UNCHANGED <<pending, lastPending, login, jar, started, redeemed, grants>>

Restart ==
    /\ login' = [w \in Workers |-> Idle]
    /\ UNCHANGED <<now, pending, lastPending, jar, started, redeemed, grants>>

Next ==
    \/ \E w \in Workers :
         \/ \E b \in Browsers, s \in States, c \in Cookies : StampStart(w, b, s, c)
         \/ \E b \in Browsers, s, code \in States : StampCallback(w, b, s, code)
         \/ CommitStart(w) \/ Consume(w) \/ Refuse(w) \/ Exchange(w)
         \/ \E t \in Tokens : CreateSession(w, t)
         \/ Fail(w) \/ Deliver(w) \/ LoseResponse(w)
    \/ \E b \in Browsers : Forget(b)
    \/ Tick
    \/ Restart

Spec == Init /\ [][Next]_vars

-----------------------------------------------------------------------------
(* Properties *)

TypeOK ==
    /\ now \in 0 .. MaxTime
    /\ pending \subseteq Row
    /\ lastPending \in Nat
    /\ login \in [Workers -> Login]
    /\ jar \in [Browsers -> Cookies \cup {NoCookie}]
    /\ started \subseteq [state : States, browser : Browsers, cookie : Cookies,
                          created : 0 .. MaxTime]
    /\ redeemed \subseteq States
    /\ grants \subseteq [token : Tokens, browser : Browsers, state : States,
                         approval : States]

\* The table never holds more than MAX_PENDING_AUTHORIZATIONS rows.
PendingBound == Cardinality(pending) <= MaxPending

\* Two callbacks for one authorization, whatever their order, retries and
\* restarts between them, never open two sessions.
OneSessionPerAuthorization ==
    \A g, h \in grants : g.state = h.state => g = h

\* A session goes to the browser that began the authorization, for the
\* identity that approved that authorization, never to a browser that was
\* handed somebody else's callback URL.
GrantedToItsBrowser ==
    \A g \in grants :
        /\ g.approval = g.state
        /\ \E r \in started : r.state = g.state /\ r.browser = g.browser

\* Authorizations begun with a stamp not older than r's
Rivals(r) == {q \in started : q # r /\ q.created >= r.created}

\* A browser that answers with the cookie it began with is refused only when
\* the authorization was redeemed already, has expired by now, or was
\* displaced by MaxPending authorizations that are not older.
NoSpuriousRefusal ==
    [][\A w \in Workers : Refuse(w) =>
          \A r \in started :
             r.state = login[w].state /\ r.cookie = login[w].cookie =>
                \/ r.state \in redeemed
                \/ Expired(r, now)
                \/ Cardinality(Rivals(r)) >= MaxPending
      ]_vars

-----------------------------------------------------------------------------
(* The inductive invariant behind the properties above *)

\* States being started are new and distinct.
StatesFresh ==
    /\ \A w \in InStage({"start"}) :
          /\ \A r \in started : r.state # login[w].state
          /\ \A v \in InStage({"start"}) : v # w => login[v].state # login[w].state
    /\ \A q, r \in started : q.state = r.state => q = r

\* A row was begun with the cookie it has, and its consumed mark says whether
\* its authorization was ever redeemed.
RowsRecorded ==
    /\ \A p \in pending : \E r \in started : r.state = p.state /\ r.cookie = p.cookie
    /\ \A p, q \in pending : p.state = q.state => p = q
    /\ \A p \in pending : p.consumed <=> p.state \in redeemed
    /\ \A s \in redeemed : \E r \in started : r.state = s

\* Workers past the consumption hold different authorizations, all redeemed
\* and none granted yet.
InFlight == InStage({"exchange", "create"})

RedeemedOnce ==
    /\ \A w \in InFlight :
          /\ login[w].state \in redeemed
          /\ \A g \in grants : g.state # login[w].state
          /\ \A v \in InFlight : v # w => login[v].state # login[w].state
    /\ \A g \in grants : g.state \in redeemed
    /\ OneSessionPerAuthorization

\* A cookie is only ever seen with one browser.
CookiesOwned ==
    /\ \A q, r \in started : q.cookie = r.cookie => q.browser = r.browser
    /\ \A w \in InStage({"start"}) :
          /\ \A r \in started : r.cookie = login[w].cookie => r.browser = login[w].browser
          /\ \A v \in InStage({"start"}) :
                login[v].cookie = login[w].cookie => login[v].browser = login[w].browser
    /\ \A w \in InStage({"redirect", "callback"}) :
          \E r \in started : r.cookie = login[w].cookie /\ r.browser = login[w].browser
    /\ \A b \in Browsers : jar[b] # NoCookie =>
          \E r \in started : r.cookie = jar[b] /\ r.browser = b

\* Past the consumption a worker serves the browser that began.
BrowserKept ==
    /\ \A w \in InFlight :
          \E r \in started : r.state = login[w].state /\ r.browser = login[w].browser
    /\ \A w \in InStage({"create"}) : login[w].approval = login[w].state

\* The rowids tell rows of one timestamp apart.
RowidsUnique ==
    /\ \A r \in pending : r.rowid <= lastPending
    /\ \A q, r \in pending : q.rowid = r.rowid => q = r

\* The row of an authorization
RowOf(p, r) == p.state = r.state /\ p.cookie = r.cookie /\ p.created = r.created

\* An authorization without a row was redeemed, has expired or was displaced.
StartsAccounted ==
    /\ \A p \in pending : \E r \in started : RowOf(p, r)
    /\ \A r \in started :
          \/ \E p \in pending : RowOf(p, r)
          \/ r.state \in redeemed
          \/ Expired(r, now)
          \/ Cardinality(Rivals(r)) >= MaxPending
    /\ \A w \in InStage({"start", "callback"}) : login[w].stamp <= now

LoginInv ==
    /\ TypeOK /\ StatesFresh /\ RowsRecorded /\ RedeemedOnce
    /\ CookiesOwned /\ BrowserKept /\ GrantedToItsBrowser

-----------------------------------------------------------------------------
\* The flow implements the abstract one-use login.
Phase(s) ==
    IF \A r \in started : r.state # s THEN "new"
    ELSE IF \E r \in pending : r.state = s /\ ~r.consumed THEN "open"
    ELSE IF \E w \in InFlight : login[w].state = s THEN "redeemed"
    ELSE "spent"

OneUse == INSTANCE OneUseLogin WITH
             phase  <- [s \in States |-> Phase(s)],
             grants <- {[state |-> g.state, token |-> g.token] : g \in grants}

ImplementsOneUse == OneUse!Spec
=============================================================================
