-------------------------- MODULE BrowserSessions --------------------------
(***************************************************************************)
(* The browser_sessions table of the authentication store                  *)
(* (subdomains/ttrpg/ttrpg_auth.py, class TtrpgAuthStore) and the three    *)
(* operations WSGI worker threads run on it: create_session,               *)
(* authenticate_session and revoke_session.                                *)
(*                                                                         *)
(* Every operation reads the clock BEFORE it opens its connection, so a    *)
(* request is two steps: Stamp... reads the clock, Commit... (or Select... *)
(* for the lookup) is the SQLite transaction.  BEGIN IMMEDIATE serialises  *)
(* the writers, so a transaction is one atomic step; a lookup is a single  *)
(* SELECT and sees one committed state.  Between the two steps the clock   *)
(* may move and other workers may commit.                                  *)
(***************************************************************************)
EXTENDS Integers, FiniteSets

CONSTANTS
    Workers,          \* request threads
    Owners,           \* central accounts (owner_id)
    Tokens,           \* session tokens secrets.token_urlsafe may draw
    Issuers,          \* values configured_issuer() takes between restarts
    SessionLifetime,  \* SESSION_LIFETIME_SECONDS, in clock ticks
    MaxSessions,      \* MAX_SESSIONS_PER_OWNER
    MaxTime           \* bound on the clock

ASSUME SessionAssumption ==
    /\ SessionLifetime \in Nat \ {0}
    /\ MaxSessions \in Nat \ {0}
    /\ MaxTime \in Nat
    /\ IsFiniteSet(Tokens)
    /\ Owners # {} /\ Tokens # {} /\ Issuers # {}

VARIABLES
    now,        \* now_seconds(): the wall clock
    issuer,     \* configured_issuer() of the running process
    sessions,   \* rows of browser_sessions
    lastRowid,  \* greatest rowid handed out (SQLite gives max(rowid) + 1)
    request,    \* what each worker is doing
    ledger,     \* history: every row ever committed, as it was inserted
    loggedOut   \* history: tokens whose revocation has been committed

sessionVars == <<now, issuer, sessions, lastRowid, request, ledger, loggedOut>>

-----------------------------------------------------------------------------
(* Rows and requests *)

Row == [token   : Tokens,
        owner   : Owners,
        issuer  : Issuers,
        created : 0 .. MaxTime,
        rowid   : Nat,
        revoked : BOOLEAN]

\* What a worker holds between the two steps of an operation; the verdict of
\* its last lookup is kept until it takes the next request.
Request ==
    [stage : {"idle", "accepted", "rejected"}]
      \cup [stage : {"create"}, token : Tokens, owner : Owners, stamp : 0 .. MaxTime]
      \cup [stage : {"authenticate", "revoke"}, token : Tokens,
            genuine : BOOLEAN,    \* the secret part matches the token id
            stamp : 0 .. MaxTime]

Idle == [stage |-> "idle"]

\* A worker takes its next request once the previous one is answered.
Free(w) == request[w].stage \in {"idle", "accepted", "rejected"}

\* secrets.token_urlsafe never repeats itself: a token is drawn once.
Drawn == {r.token : r \in ledger}
           \cup {request[w].token : w \in {v \in Workers : request[v].stage = "create"}}

-----------------------------------------------------------------------------
(* The statements of create_session *)

\* expires_at <= timestamp
Expired(row, timestamp) == row.created + SessionLifetime <= timestamp

\* DELETE ... WHERE expires_at <= ? OR revoked_at IS NOT NULL
Purge(rows, timestamp) == {r \in rows : ~Expired(r, timestamp) /\ ~r.revoked}

\* ORDER BY created_at DESC, rowid DESC
Newer(q, r) ==
    \/ q.created > r.created
    \/ q.created = r.created /\ q.rowid > r.rowid

\* Mutants of TrimOwner: one row too many; the count ignores the owner.
TrimOneMore(rows, o) ==
    {r \in rows :
        r.owner = o =>
            Cardinality({q \in rows : q.owner = o /\ Newer(q, r)}) <= MaxSessions}

TrimEverybody(rows, o) ==
    {r \in rows : Cardinality({q \in rows : Newer(q, r)}) < MaxSessions}

\* DELETE of the owner's rows beyond the MaxSessions newest
TrimOwner(rows, o) ==
    {r \in rows :
        r.owner = o =>
            Cardinality({q \in rows : q.owner = o /\ Newer(q, r)}) < MaxSessions}

\* Mutants of Accepts: the revocation is not looked at; the issuer is not.
AcceptsRevoked(row, q) ==
    row.token = q.token /\ ~Expired(row, q.stamp) /\ row.issuer = issuer /\ q.genuine

AcceptsAnyIssuer(row, q) ==
    row.token = q.token /\ ~row.revoked /\ ~Expired(row, q.stamp) /\ q.genuine

\* The row authenticate_session accepts
Accepts(row, q) ==
    /\ row.token = q.token
    /\ ~row.revoked
    /\ ~Expired(row, q.stamp)
    /\ row.issuer = issuer
    /\ q.genuine

-----------------------------------------------------------------------------
Init ==
    /\ now = 0
    /\ issuer \in Issuers
    /\ sessions = {}
    /\ lastRowid = 0
    /\ request = [w \in Workers |-> Idle]
    /\ ledger = {}
    /\ loggedOut = {}

Take(w, q) == Free(w) /\ request' = [request EXCEPT ![w] = q]
Finish(w)  == request' = [request EXCEPT ![w] = Idle]

\* create_session, first half: the principal is valid, token and timestamp
\* are fixed before the connection is opened.
StampCreate(w, o, t) ==
    /\ t \notin Drawn
    /\ Take(w, [stage |-> "create", token |-> t, owner |-> o, stamp |-> now])
    /\ UNCHANGED <<now, issuer, sessions, lastRowid, ledger, loggedOut>>

\* The row create_session inserts
NewRow(w) ==
    [token |-> request[w].token, owner |-> request[w].owner, issuer |-> issuer,
     created |-> request[w].stamp, rowid |-> lastRowid + 1, revoked |-> FALSE]

InsertSession(w) ==
    sessions' = TrimOwner(Purge(sessions, request[w].stamp) \cup {NewRow(w)},
                          request[w].owner)

\* create_session, second half: purge, insert, trim, commit.
CommitCreate(w) ==
    /\ request[w].stage = "create"
    /\ InsertSession(w)
    /\ lastRowid' = lastRowid + 1
    /\ ledger' = ledger \cup {NewRow(w)}
    /\ Finish(w)
    /\ UNCHANGED <<now, issuer, loggedOut>>

StampAuthenticate(w, t, g) ==
    /\ Take(w, [stage |-> "authenticate", token |-> t, genuine |-> g, stamp |-> now])
    /\ UNCHANGED <<now, issuer, sessions, lastRowid, ledger, loggedOut>>

\* authenticate_session: one SELECT by token id, then the row is judged with
\* the timestamp read earlier.
SelectSession(w) ==
    /\ request[w].stage = "authenticate"
    /\ request' = [request EXCEPT ![w] =
                      [stage |-> IF \E r \in sessions : Accepts(r, request[w])
                                 THEN "accepted" ELSE "rejected"]]
    /\ UNCHANGED <<now, issuer, sessions, lastRowid, ledger, loggedOut>>

StampRevoke(w, t, g) ==
    /\ Take(w, [stage |-> "revoke", token |-> t, genuine |-> g, stamp |-> now])
    /\ UNCHANGED <<now, issuer, sessions, lastRowid, ledger, loggedOut>>

\* The rows revoke_session marks: unrevoked, same token id, matching digest.
Revocable(w) ==
    {r \in sessions : r.token = request[w].token /\ ~r.revoked /\ request[w].genuine}

CommitRevoke(w) ==
    /\ request[w].stage = "revoke"
    /\ sessions' = {IF r \in Revocable(w) THEN [r EXCEPT !.revoked = TRUE] ELSE r :
                       r \in sessions}
    /\ loggedOut' = loggedOut \cup {r.token : r \in Revocable(w)}
    /\ Finish(w)
    /\ UNCHANGED <<now, issuer, lastRowid, ledger>>

\* BEGIN IMMEDIATE gives up after the busy timeout: sqlite3.Error, answered
\* with 503, nothing written.
BusyTimeout(w) ==
    /\ request[w].stage \in {"create", "revoke"}
    /\ Finish(w)
    /\ UNCHANGED <<now, issuer, sessions, lastRowid, ledger, loggedOut>>

Tick ==
    /\ now < MaxTime
    /\ now' = now + 1
    /\ UNCHANGED <<issuer, sessions, lastRowid, request, ledger, loggedOut>>

\* The process stops between two transactions and comes back, possibly
\* configured for another issuer; the tables are on disk.
Restart ==
    /\ request' = [w \in Workers |-> Idle]
    /\ issuer' \in Issuers
    /\ UNCHANGED <<now, sessions, lastRowid, ledger, loggedOut>>

WorkerStep(w) ==
    CommitCreate(w) \/ SelectSession(w) \/ CommitRevoke(w) \/ BusyTimeout(w)

Next ==
    \/ \E w \in Workers :
         \/ \E o \in Owners, t \in Tokens : StampCreate(w, o, t)
         \/ \E t \in Tokens, g \in BOOLEAN :
              StampAuthenticate(w, t, g) \/ StampRevoke(w, t, g)
         \/ WorkerStep(w)
    \/ Tick
    \/ Restart

Spec == Init /\ [][Next]_sessionVars

-----------------------------------------------------------------------------
(* Properties *)

\* Every variable stays in its domain.
TypeOK ==
    /\ now \in 0 .. MaxTime
    /\ issuer \in Issuers
    /\ sessions \subseteq Row
    /\ lastRowid \in Nat
    /\ request \in [Workers -> Request]
    /\ ledger \subseteq Row
    /\ loggedOut \subseteq Tokens

\* An owner never has more than MAX_SESSIONS_PER_OWNER rows, although create
\* purges with a timestamp older than its transaction and may therefore keep
\* rows that have expired in the meantime.
SessionBound ==
    \A o \in Owners : Cardinality({r \in sessions : r.owner = o}) <= MaxSessions

\* The inductive strengthening of the action properties below: tokens being
\* created are new and distinct, every row was committed with the fields it
\* has now, and a logged-out token has no unrevoked row.
TokensFresh ==
    \A w \in Workers : request[w].stage = "create" =>
       /\ \A r \in ledger : r.token # request[w].token
       /\ \A v \in Workers : request[v].stage = "create" /\ v # w =>
             request[v].token # request[w].token

AsInserted(r) ==
    [token |-> r.token, owner |-> r.owner, issuer |-> r.issuer,
     created |-> r.created, rowid |-> r.rowid, revoked |-> FALSE]

RowsRecorded == \A r \in sessions : AsInserted(r) \in ledger

RevocationsKept ==
    /\ \A t \in loggedOut : \E r \in ledger : r.token = t
    /\ \A r \in sessions : r.token \in loggedOut <=> r.revoked

SessionInv == TypeOK /\ TokensFresh /\ RowsRecorded /\ RevocationsKept

\* The strengthening of SessionBound: rowids are unique, so that the order of
\* the trimming statement is total.
RowidsUnique ==
    /\ \A r \in sessions : r.rowid <= lastRowid
    /\ \A q, r \in sessions : q.rowid = r.rowid => q = r

\* Worker w's lookup ends with the given verdict in this step.
Judged(w, verdict) ==
    request[w].stage = "authenticate" /\ request'[w].stage = verdict

\* Once the transaction of a logout has committed, no lookup whose SELECT
\* comes later accepts the token again: not when the purge of a later login
\* has removed the revoked row, not after a restart, not with any timestamp.
LogoutIsFinal ==
    [][\A w \in Workers :
          Judged(w, "accepted") => request[w].token \notin loggedOut]_sessionVars

\* A lookup accepts only a token handed out for the current issuer less than a
\* lifetime before the lookup began, presented with its secret.
AcceptedWasGranted ==
    [][\A w \in Workers :
          Judged(w, "accepted") =>
             /\ request[w].genuine
             /\ \E r \in ledger : /\ r.token = request[w].token
                                 /\ r.issuer = issuer
                                 /\ request[w].stamp < r.created + SessionLifetime
      ]_sessionVars

\* Rows of the same owner committed at any time with a stamp not older than r's
Rivals(r) == {q \in ledger : q.owner = r.owner /\ q # r /\ q.created >= r.created}

\* The strengthening of NoSpuriousLogout: a committed row that is not in the
\* table any more was logged out, has expired, or was displaced; and no worker
\* holds a timestamp from the future.
LedgerAccounted ==
    /\ \A r \in ledger :
          /\ ~r.revoked
          /\ \/ r \in sessions
             \/ r.token \in loggedOut
             \/ Expired(r, now)
             \/ Cardinality(Rivals(r)) >= MaxSessions
    /\ \A w \in Workers :
          request[w].stage \in {"create", "authenticate", "revoke"} => request[w].stamp <= now

\* The converse: a genuine session that is neither logged out, nor expired by
\* now, nor of another issuer is only ever refused because its own owner has
\* opened MaxSessions sessions that are not older.
NoSpuriousLogout ==
    [][\A w \in Workers :
          Judged(w, "rejected") /\ request[w].genuine =>
             \A r \in ledger :
                r.token = request[w].token =>
                   \/ r.token \in loggedOut
                   \/ r.issuer # issuer
                   \/ Expired(r, now)
                   \/ Cardinality(Rivals(r)) >= MaxSessions]_sessionVars
=============================================================================
