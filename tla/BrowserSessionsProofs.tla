----------------------- MODULE BrowserSessionsProofs -----------------------
(***************************************************************************)
(* Theorems about BrowserSessions, for every number of workers, owners,    *)
(* tokens and issuers, every lifetime and every session limit.             *)
(***************************************************************************)
EXTENDS BrowserSessions, FiniteSetTheorems, WellFoundedInduction, TLAPS

-----------------------------------------------------------------------------
(* The transaction of create_session only drops rows or adds the new one. *)

LEMMA InsertShape ==
    ASSUME NEW w \in Workers, InsertSession(w)
    PROVE  \A r \in sessions' : (r \in sessions /\ ~r.revoked) \/ r = NewRow(w)
BY DEF InsertSession, TrimOwner, Purge

LEMMA RequestKinds ==
    ASSUME NEW q \in Request
    PROVE  /\ q.stage = "create" => q \in [stage : {"create"}, token : Tokens,
                                           owner : Owners, stamp : 0 .. MaxTime]
           /\ q.stage \in {"authenticate", "revoke"} =>
                q \in [stage : {"authenticate", "revoke"}, token : Tokens,
                       genuine : BOOLEAN, stamp : 0 .. MaxTime]
BY DEF Request

LEMMA NewRowType ==
    ASSUME TypeOK, NEW w \in Workers, request[w].stage = "create"
    PROVE  NewRow(w) \in Row
<1>1. request[w] \in [stage : {"create"}, token : Tokens, owner : Owners,
                      stamp : 0 .. MaxTime]
  BY RequestKinds DEF TypeOK
<1>2. QED
  BY <1>1 DEF TypeOK, NewRow, Row

LEMMA TypeInit == Init => TypeOK
BY SessionAssumption DEF Init, TypeOK, Idle, Request

LEMMA TypeStep == TypeOK /\ [Next]_sessionVars => TypeOK'
<1> SUFFICES ASSUME TypeOK, [Next]_sessionVars PROVE TypeOK'
  OBVIOUS
<1> USE DEF TypeOK
<1>1. ASSUME NEW w \in Workers, NEW o \in Owners, NEW t \in Tokens, StampCreate(w, o, t)
      PROVE  TypeOK'
  BY <1>1 DEF StampCreate, Take, Request
<1>2. ASSUME NEW w \in Workers, NEW t \in Tokens, NEW g \in BOOLEAN, StampAuthenticate(w, t, g)
      PROVE  TypeOK'
  BY <1>2 DEF StampAuthenticate, Take, Request
<1>3. ASSUME NEW w \in Workers, NEW t \in Tokens, NEW g \in BOOLEAN, StampRevoke(w, t, g)
      PROVE  TypeOK'
  BY <1>3 DEF StampRevoke, Take, Request
<1>4. ASSUME NEW w \in Workers, CommitCreate(w)
      PROVE  TypeOK'
  <2>1. NewRow(w) \in Row
    BY <1>4, NewRowType DEF CommitCreate
  <2>2. sessions' \subseteq Row /\ ledger' \subseteq Row
    BY <1>4, <2>1, InsertShape DEF CommitCreate
  <2>3. request' \in [Workers -> Request]
    BY <1>4 DEF CommitCreate, Finish, Idle, Request
  <2>4. QED
    BY <1>4, <2>2, <2>3 DEF CommitCreate
<1>5. ASSUME NEW w \in Workers, SelectSession(w)
      PROVE  TypeOK'
  BY <1>5 DEF SelectSession, Request
<1>6. ASSUME NEW w \in Workers, CommitRevoke(w)
      PROVE  TypeOK'
  <2>1. sessions' \subseteq Row
    BY <1>6 DEF CommitRevoke, Row
  <2>2. loggedOut' \subseteq Tokens
    BY <1>6 DEF CommitRevoke, Revocable, Row
  <2>3. request' \in [Workers -> Request]
    BY <1>6 DEF CommitRevoke, Finish, Idle, Request
  <2>4. QED
    BY <1>6, <2>1, <2>2, <2>3 DEF CommitRevoke
<1>7. ASSUME NEW w \in Workers, BusyTimeout(w)
      PROVE  TypeOK'
  BY <1>7 DEF BusyTimeout, Finish, Idle, Request
<1>8. CASE Tick
  BY <1>8, SessionAssumption DEF Tick
<1>9. CASE Restart
  BY <1>9 DEF Restart, Idle, Request
<1>10. CASE UNCHANGED sessionVars
  BY <1>10 DEF sessionVars
<1>11. QED
  BY <1>1, <1>2, <1>3, <1>4, <1>5, <1>6, <1>7, <1>8, <1>9, <1>10 DEF Next, WorkerStep

\* Every variable of the session table and its workers keeps its type.
THEOREM SessionTypes == Spec => []TypeOK
<1>1. QED
  BY TypeInit, TypeStep, PTL DEF Spec

-----------------------------------------------------------------------------
(* The inductive invariant behind the verdicts of a lookup. *)

\* Every step but the three transactions leaves rows and histories alone.
TablesUnchanged == UNCHANGED <<sessions, ledger, loggedOut>>

LEMMA InvInit == Init => SessionInv
BY TypeInit DEF Init, SessionInv, TokensFresh, RowsRecorded, RevocationsKept, Idle

LEMMA CreateKeepsInv ==
    ASSUME SessionInv, NEW w \in Workers, CommitCreate(w)
    PROVE  TokensFresh' /\ RowsRecorded' /\ RevocationsKept'
<1> USE DEF SessionInv
<1>1. NewRow(w) \in Row /\ NewRow(w).token = request[w].token /\ ~NewRow(w).revoked
  BY NewRowType DEF CommitCreate, NewRow
<1>2. \A r \in ledger : r.token # NewRow(w).token
  BY <1>1 DEF TokensFresh, CommitCreate
<1>3. NewRow(w).token \notin loggedOut
  BY <1>2 DEF RevocationsKept
<1>4. \A v \in Workers : request'[v].stage = "create" =>
                           v # w /\ request'[v] = request[v]
  BY DEF CommitCreate, Finish, Idle, TypeOK
<1>5. TokensFresh'
  BY <1>1, <1>4 DEF TokensFresh, CommitCreate
<1>6. \A r \in sessions' : r \in sessions \/ r = NewRow(w)
  BY InsertShape DEF CommitCreate
<1>7. AsInserted(NewRow(w)) = NewRow(w)
  BY DEF NewRow, AsInserted
<1>8. RowsRecorded'
  BY <1>6, <1>7 DEF RowsRecorded, CommitCreate
<1>9. RevocationsKept'
  BY <1>1, <1>3, <1>6 DEF RevocationsKept, CommitCreate
<1>10. QED
  BY <1>5, <1>8, <1>9

LEMMA RevokeKeepsInv ==
    ASSUME SessionInv, NEW w \in Workers, CommitRevoke(w)
    PROVE  TokensFresh' /\ RowsRecorded' /\ RevocationsKept'
<1> USE DEF SessionInv
<1> DEFINE mark(r) == IF r \in Revocable(w) THEN [r EXCEPT !.revoked = TRUE] ELSE r
<1>1. sessions' = {mark(r) : r \in sessions}
  BY DEF CommitRevoke
<1>2. \A r \in sessions :
         /\ r \in Row
         /\ mark(r).token = r.token
         /\ mark(r).revoked <=> (r.revoked \/ r \in Revocable(w))
         /\ AsInserted(mark(r)) = AsInserted(r)
  BY DEF TypeOK, Row, AsInserted
<1>3. TokensFresh'
  BY DEF TokensFresh, CommitRevoke, Finish, Idle, TypeOK
<1>4. RowsRecorded'
  BY <1>1, <1>2 DEF RowsRecorded, CommitRevoke
<1>5. \A t \in loggedOut' : \E r \in ledger' : r.token = t
  <2>1. \A r \in Revocable(w) : \E l \in ledger : l.token = r.token
    <3> TAKE r \in Revocable(w)
    <3>1. r \in Row /\ AsInserted(r) \in ledger
      BY DEF Revocable, TypeOK, RowsRecorded
    <3>2. AsInserted(r).token = r.token
      BY DEF AsInserted
    <3>3. QED
      BY <3>1, <3>2
  <2>2. QED
    BY <2>1 DEF RevocationsKept, CommitRevoke
<1>6. \A r \in sessions : r.token \in loggedOut' <=> (r.revoked \/ r \in Revocable(w))
  <2> TAKE r \in sessions
  <2>1. loggedOut' = loggedOut \cup {q.token : q \in Revocable(w)}
    BY DEF CommitRevoke
  <2>2. CASE \E q \in Revocable(w) : q.token = r.token
    BY <2>1, <2>2 DEF Revocable
  <2>3. CASE ~ \E q \in Revocable(w) : q.token = r.token
    BY <2>1, <2>3 DEF RevocationsKept
  <2>4. QED
    BY <2>2, <2>3
<1>7. RevocationsKept'
  <2>1. \A r \in sessions' : r.token \in loggedOut' <=> r.revoked
    BY <1>1, <1>2, <1>6
  <2>2. QED
    BY <1>5, <2>1 DEF RevocationsKept
<1>8. QED
  BY <1>3, <1>4, <1>7

LEMMA InvStep == SessionInv /\ [Next]_sessionVars => SessionInv'
<1> SUFFICES ASSUME SessionInv, [Next]_sessionVars PROVE SessionInv'
  OBVIOUS
<1> USE DEF SessionInv
<1>0. TypeOK'
  BY TypeStep
<1>1. ASSUME NEW w \in Workers, NEW o \in Owners, NEW t \in Tokens, StampCreate(w, o, t)
      PROVE  SessionInv'
  <2>1. TokensFresh'
    <3>1. \A r \in ledger : r.token # t
      BY <1>1 DEF StampCreate, Drawn
    <3>2. \A v \in Workers : request[v].stage = "create" => request[v].token # t
      BY <1>1 DEF StampCreate, Drawn
    <3>3. \A v \in Workers : request'[v] =
             IF v = w THEN [stage |-> "create", token |-> t, owner |-> o, stamp |-> now]
                      ELSE request[v]
      BY <1>1 DEF StampCreate, Take, TypeOK
    <3>4. ledger' = ledger
      BY <1>1 DEF StampCreate
    <3>5. QED
      BY <3>1, <3>2, <3>3, <3>4 DEF TokensFresh
  <2>2. RowsRecorded' /\ RevocationsKept'
    BY <1>1 DEF StampCreate, RowsRecorded, RevocationsKept
  <2>3. QED
    BY <1>0, <2>1, <2>2
<1>2. ASSUME NEW w \in Workers, CommitCreate(w)
      PROVE  SessionInv'
  BY <1>0, <1>2, CreateKeepsInv
<1>3. ASSUME NEW w \in Workers, CommitRevoke(w)
      PROVE  SessionInv'
  BY <1>0, <1>3, RevokeKeepsInv
<1>4. ASSUME TablesUnchanged,
             \A v \in Workers : request'[v].stage = "create" => request'[v] = request[v]
      PROVE  SessionInv'
  <2>1. TokensFresh'
    BY <1>4 DEF TablesUnchanged, TokensFresh
  <2>2. RowsRecorded' /\ RevocationsKept'
    BY <1>4 DEF TablesUnchanged, RowsRecorded, RevocationsKept
  <2>3. QED
    BY <1>0, <2>1, <2>2
<1>5. ASSUME NEW w \in Workers, NEW t \in Tokens, NEW g \in BOOLEAN,
             StampAuthenticate(w, t, g) \/ StampRevoke(w, t, g)
      PROVE  SessionInv'
  BY <1>4, <1>5 DEF StampAuthenticate, StampRevoke, Take, TypeOK, TablesUnchanged
<1>6. ASSUME NEW w \in Workers, SelectSession(w) \/ BusyTimeout(w)
      PROVE  SessionInv'
  BY <1>4, <1>6 DEF SelectSession, BusyTimeout, Finish, Idle, TypeOK, TablesUnchanged
<1>7. CASE Tick \/ Restart \/ UNCHANGED sessionVars
  BY <1>4, <1>7 DEF Tick, Restart, Idle, sessionVars, TypeOK, TablesUnchanged
<1>8. QED
  BY <1>1, <1>2, <1>3, <1>5, <1>6, <1>7 DEF Next, WorkerStep

LEMMA InvAlways == Spec => []SessionInv
<1>1. QED
  BY InvInit, InvStep, PTL DEF Spec

\* A lookup ends only by its SELECT.
LEMMA JudgedBySelect ==
    ASSUME TypeOK, [Next]_sessionVars, NEW w \in Workers,
           NEW verdict \in {"accepted", "rejected"}, Judged(w, verdict)
    PROVE  SelectSession(w)
<1> USE DEF TypeOK, Judged
<1>1. \A v \in Workers : WorkerStep(v) => v = w
  BY DEF WorkerStep, CommitCreate, CommitRevoke, BusyTimeout, Finish, Idle, SelectSession
<1>2. ~ \E v \in Workers, o \in Owners, t \in Tokens : StampCreate(v, o, t)
  BY DEF StampCreate, Take, Free
<1>3. ~ \E v \in Workers, t \in Tokens, g \in BOOLEAN :
          StampAuthenticate(v, t, g) \/ StampRevoke(v, t, g)
  BY DEF StampAuthenticate, StampRevoke, Take, Free
<1>4. ~Tick /\ ~Restart /\ ~UNCHANGED sessionVars
  BY DEF Tick, Restart, Idle, sessionVars
<1>5. WorkerStep(w)
  BY <1>1, <1>2, <1>3, <1>4 DEF Next
<1>6. QED
  BY <1>5 DEF WorkerStep, CommitCreate, CommitRevoke, BusyTimeout

LEMMA AcceptedFoundRow ==
    ASSUME SessionInv, [Next]_sessionVars, NEW w \in Workers, Judged(w, "accepted")
    PROVE  \E r \in sessions : Accepts(r, request[w])
BY JudgedBySelect DEF SessionInv, SelectSession, TypeOK, Judged

LEMMA RejectedFoundNone ==
    ASSUME SessionInv, [Next]_sessionVars, NEW w \in Workers, Judged(w, "rejected")
    PROVE  ~ \E r \in sessions : Accepts(r, request[w])
BY JudgedBySelect DEF SessionInv, SelectSession, TypeOK, Judged

\* A committed logout is final: no later lookup accepts the token.
THEOREM LogoutFinality == Spec => LogoutIsFinal
<1>1. SessionInv /\ [Next]_sessionVars =>
        [\A w \in Workers :
           Judged(w, "accepted") => request[w].token \notin loggedOut]_sessionVars
  <2> SUFFICES ASSUME SessionInv, [Next]_sessionVars,
                      NEW w \in Workers, Judged(w, "accepted")
               PROVE  request[w].token \notin loggedOut
    OBVIOUS
  <2>1. PICK r \in sessions : Accepts(r, request[w])
    BY AcceptedFoundRow
  <2>2. QED
    BY <2>1 DEF Accepts, SessionInv, RevocationsKept
<1>2. QED
  BY <1>1, InvAlways, PTL DEF Spec, LogoutIsFinal

\* An accepted token was granted by create_session, for the issuer configured
\* now, less than a lifetime before the lookup began.
THEOREM AcceptedGranted == Spec => AcceptedWasGranted
<1> DEFINE Granted(w) ==
        /\ request[w].genuine
        /\ \E r \in ledger : /\ r.token = request[w].token
                            /\ r.issuer = issuer
                            /\ request[w].stamp < r.created + SessionLifetime
<1>1. SessionInv /\ [Next]_sessionVars =>
        [\A w \in Workers : Judged(w, "accepted") => Granted(w)]_sessionVars
  <2> SUFFICES ASSUME SessionInv, [Next]_sessionVars,
                      NEW w \in Workers, Judged(w, "accepted")
               PROVE  Granted(w)
    OBVIOUS
  <2>1. PICK r \in sessions : Accepts(r, request[w])
    BY AcceptedFoundRow
  <2>2. request[w].stamp \in 0 .. MaxTime
    BY RequestKinds DEF SessionInv, TypeOK, Judged
  <2>3. request[w].stamp < r.created + SessionLifetime
    BY <2>1, <2>2, SessionAssumption DEF Accepts, Expired, SessionInv, TypeOK, Row
  <2> DEFINE l == AsInserted(r)
  <2>4. l \in ledger
    BY DEF SessionInv, RowsRecorded
  <2>5. l.token = r.token /\ l.issuer = r.issuer /\ l.created = r.created
    BY DEF AsInserted
  <2>6. QED
    BY <2>1, <2>3, <2>4, <2>5 DEF Accepts
<1>2. QED
  BY <1>1, InvAlways, PTL DEF Spec, AcceptedWasGranted

-----------------------------------------------------------------------------
(* The session limit. *)

LEMMA LeastNatural ==
    ASSUME NEW T \in SUBSET Nat, T # {}
    PROVE  \E m \in T : \A n \in T : m <= n
<1> DEFINE R == OpToRel(<, Nat)
<1>1. \A m, n \in Nat : n < m => <<n, m>> \in R
  BY DEF OpToRel
<1>2. IsWellFoundedOn(R, Nat)
  BY NatLessThanWellFounded
<1> HIDE DEF R
<1>3. PICK m \in T : \A n \in T : ~(<<n, m>> \in R)
  BY <1>2, WFMin
<1>4. \A n \in T : ~(n < m)
  BY <1>1, <1>3
<1>5. \A n \in T : n \in Nat /\ m \in Nat /\ m <= n
  BY <1>4
<1>6. QED
  BY <1>5

\* Whatever the timestamps, the trimming statement leaves at most MaxSessions
\* rows of the owner: compare every survivor with the oldest one.
LEMMA TrimBound ==
    ASSUME NEW S \in SUBSET Row, IsFiniteSet(S), NEW o \in Owners,
           \A q, r \in S : q.rowid = r.rowid => q = r
    PROVE  Cardinality({r \in TrimOwner(S, o) : r.owner = o}) <= MaxSessions
<1> DEFINE K == {r \in TrimOwner(S, o) : r.owner = o}
<1>1. K \subseteq S
  BY DEF TrimOwner
<1>2. IsFiniteSet(K) /\ Cardinality(K) \in Nat
  BY <1>1, FS_Subset, FS_CardinalityType
<1>3. CASE K = {}
  BY <1>3, FS_EmptySet, SessionAssumption
<1>4. CASE K # {}
  <2> DEFINE C == {r.created : r \in K}
  <2>1. \A r \in K : r.created \in Nat /\ r.rowid \in Nat
    BY <1>1, SessionAssumption DEF Row
  <2>2. PICK c \in C : \A n \in C : c <= n
    <3>1. C \in SUBSET Nat /\ C # {}
      BY <1>4, <2>1
    <3> HIDE DEF C
    <3>2. QED
      BY <3>1, LeastNatural
  <2> DEFINE D == {r.rowid : r \in {k \in K : k.created = c}}
  <2>3. PICK d \in D : \A n \in D : d <= n
    <3>1. D \in SUBSET Nat /\ D # {}
      BY <2>1, <2>2
    <3> HIDE DEF D
    <3>2. QED
      BY <3>1, LeastNatural
  <2>4. PICK m \in K : m.created = c /\ m.rowid = d
    BY <2>3
  <2> DEFINE N == {q \in S : q.owner = o /\ Newer(q, m)}
  <2>5. K \ {m} \subseteq N
    <3> SUFFICES ASSUME NEW q \in K, q # m PROVE Newer(q, m)
      BY <1>1
    <3>1. q.created >= c
      BY <2>1, <2>2
    <3>2. q.created = c => q.rowid >= d
      BY <2>1, <2>3
    <3>3. q.rowid # m.rowid
      BY <1>1
    <3>4. QED
      BY <2>1, <2>4, <3>1, <3>2, <3>3 DEF Newer
  <2>6. Cardinality(N) < MaxSessions
    BY <2>4 DEF TrimOwner
  <2>7. IsFiniteSet(N) /\ Cardinality(N) \in Nat
    BY FS_Subset, FS_CardinalityType
  <2>8. Cardinality(K \ {m}) <= Cardinality(N)
    BY <2>5, <2>7, FS_Subset
  <2>9. Cardinality(K \ {m}) = Cardinality(K) - 1
    BY <1>2, <2>4, FS_RemoveElement
  <2>10. QED
    BY <1>2, <2>6, <2>7, <2>8, <2>9, SessionAssumption
<1>5. QED
  BY <1>3, <1>4

BoundInv ==
    /\ TypeOK /\ IsFiniteSet(sessions)
    /\ RowidsUnique
    /\ SessionBound

LEMMA CreateKeepsBound ==
    ASSUME BoundInv, NEW w \in Workers, CommitCreate(w)
    PROVE  IsFiniteSet(sessions)' /\ RowidsUnique' /\ SessionBound'
<1> USE DEF BoundInv
<1> DEFINE o == request[w].owner
           S == Purge(sessions, request[w].stamp) \cup {NewRow(w)}
<1>1. NewRow(w) \in Row /\ NewRow(w).rowid = lastRowid + 1 /\ NewRow(w).owner = o
  BY NewRowType DEF CommitCreate, NewRow
<1>2. o \in Owners
  BY RequestKinds DEF CommitCreate, TypeOK
<1>3. sessions' = TrimOwner(S, o) /\ sessions' \subseteq S
  BY DEF CommitCreate, InsertSession, TrimOwner
<1>4. S \subseteq Row /\ S \subseteq sessions \cup {NewRow(w)}
  BY <1>1 DEF Purge, TypeOK
<1>5. IsFiniteSet(S)
  <2>1. IsFiniteSet(sessions \cup {NewRow(w)})
    BY FS_AddElement
  <2>2. QED
    BY <1>4, <2>1, FS_Subset
<1>6. \A r \in S : r.rowid <= lastRowid + 1
  BY <1>1, <1>4 DEF RowidsUnique, TypeOK, Row
<1>7. \A q, r \in S : q.rowid = r.rowid => q = r
  BY <1>1, <1>4 DEF RowidsUnique, TypeOK, Row
<1>8. IsFiniteSet(sessions') /\ RowidsUnique'
  <2>1. IsFiniteSet(sessions')
    BY <1>3, <1>5, FS_Subset
  <2>2. lastRowid' = lastRowid + 1
    BY DEF CommitCreate
  <2>3. QED
    BY <1>3, <1>6, <1>7, <2>1, <2>2 DEF RowidsUnique
<1>9. \A p \in Owners : Cardinality({r \in sessions' : r.owner = p}) <= MaxSessions
  <2> TAKE p \in Owners
  <2>1. CASE p = o
    BY <1>2, <1>3, <1>4, <1>5, <1>7, <2>1, TrimBound
  <2>2. CASE p # o
    <3> DEFINE before == {r \in sessions : r.owner = p}
               after  == {r \in sessions' : r.owner = p}
    <3>1. after \subseteq before
      BY <1>1, <1>3, <1>4, <2>2
    <3>2. IsFiniteSet(before) /\ Cardinality(before) <= MaxSessions
      BY FS_Subset DEF SessionBound
    <3>3. Cardinality(after) <= Cardinality(before)
      BY <3>1, <3>2, FS_Subset
    <3>4. Cardinality(after) \in Nat /\ Cardinality(before) \in Nat
      BY <3>1, <3>2, FS_Subset, FS_CardinalityType
    <3>5. QED
      BY <3>2, <3>3, <3>4, SessionAssumption
  <2>3. QED
    BY <2>1, <2>2
<1>10. QED
  BY <1>8, <1>9 DEF SessionBound

LEMMA RevokeKeepsBound ==
    ASSUME BoundInv, NEW w \in Workers, CommitRevoke(w)
    PROVE  IsFiniteSet(sessions)' /\ RowidsUnique' /\ SessionBound'
<1> USE DEF BoundInv
<1> DEFINE mark == [r \in sessions |->
                      IF r \in Revocable(w) THEN [r EXCEPT !.revoked = TRUE] ELSE r]
<1>1. sessions' = {mark[r] : r \in sessions} /\ lastRowid' = lastRowid
  BY DEF CommitRevoke
<1>2. \A r \in sessions : mark[r].owner = r.owner /\ mark[r].rowid = r.rowid
  BY DEF TypeOK, Row
<1>3. IsFiniteSet(sessions')
  <2>1. mark \in Surjection(sessions, sessions')
    BY <1>1 DEF Surjection
  <2>2. QED
    BY <2>1, FS_Surjection
<1>4. RowidsUnique'
  <2>1. \A r \in sessions' : \E q \in sessions : r = mark[q] /\ r.rowid = q.rowid
    BY <1>1, <1>2
  <2> HIDE DEF mark
  <2>2. QED
    BY <1>1, <2>1 DEF RowidsUnique
<1>5. \A p \in Owners : Cardinality({r \in sessions' : r.owner = p}) <= MaxSessions
  <2> TAKE p \in Owners
  <2> DEFINE before == {r \in sessions : r.owner = p}
             after  == {r \in sessions' : r.owner = p}
             f      == [r \in before |-> mark[r]]
  <2>1. f \in Surjection(before, after)
    BY <1>1, <1>2 DEF Surjection
  <2>2. IsFiniteSet(before) /\ Cardinality(before) \in Nat
    BY FS_Subset, FS_CardinalityType
  <2>3. IsFiniteSet(after) /\ Cardinality(after) <= Cardinality(before)
    BY <2>1, <2>2, FS_Surjection
  <2>4. Cardinality(after) \in Nat /\ Cardinality(before) <= MaxSessions
    BY <2>3, FS_CardinalityType DEF SessionBound
  <2>5. QED
    BY <2>2, <2>3, <2>4, SessionAssumption
<1>6. QED
  BY <1>3, <1>4, <1>5 DEF SessionBound

\* No owner ever has more rows than MAX_SESSIONS_PER_OWNER.
THEOREM SessionLimit == Spec => []SessionBound
<1>1. Init => BoundInv
  <2> SUFFICES ASSUME Init PROVE BoundInv
    OBVIOUS
  <2>1. \A o \in Owners : {r \in sessions : r.owner = o} = {}
    BY DEF Init
  <2>2. IsFiniteSet(sessions) /\ SessionBound
    BY <2>1, FS_EmptySet, SessionAssumption DEF Init, SessionBound
  <2>3. QED
    BY <2>2, TypeInit DEF Init, BoundInv, RowidsUnique
<1>2. BoundInv /\ [Next]_sessionVars => BoundInv'
  <2> SUFFICES ASSUME BoundInv, [Next]_sessionVars PROVE BoundInv'
    OBVIOUS
  <2>1. TypeOK'
    BY TypeStep DEF BoundInv
  <2>2. CASE UNCHANGED <<sessions, lastRowid>>
    BY <2>1, <2>2 DEF BoundInv, RowidsUnique, SessionBound
  <2>3. ASSUME NEW w \in Workers, CommitCreate(w) PROVE BoundInv'
    BY <2>1, <2>3, CreateKeepsBound DEF BoundInv
  <2>4. ASSUME NEW w \in Workers, CommitRevoke(w) PROVE BoundInv'
    BY <2>1, <2>4, RevokeKeepsBound DEF BoundInv
  <2>5. QED
    BY <2>2, <2>3, <2>4 DEF Next, WorkerStep, StampCreate, StampAuthenticate, StampRevoke,
       SelectSession, BusyTimeout, Tick, Restart, sessionVars
<1>3. BoundInv => SessionBound
  BY DEF BoundInv
<1>4. QED
  BY <1>1, <1>2, <1>3, PTL DEF Spec

-----------------------------------------------------------------------------
(* Nobody is logged out without a cause. *)

AccountInv == SessionInv /\ IsFiniteSet(ledger) /\ LedgerAccounted

LEMMA RivalsFinite ==
    ASSUME IsFiniteSet(ledger), NEW r
    PROVE  IsFiniteSet(Rivals(r)) /\ Cardinality(Rivals(r)) \in Nat
BY FS_Subset, FS_CardinalityType DEF Rivals

\* A row that a login's purge or trim removes is expired or displaced.
LEMMA CreateKeepsAccount ==
    ASSUME AccountInv, NEW w \in Workers, CommitCreate(w)
    PROVE  LedgerAccounted'
<1> USE DEF AccountInv, SessionInv
<1> DEFINE o == request[w].owner
           S == Purge(sessions, request[w].stamp) \cup {NewRow(w)}
<1>1. NewRow(w) \in Row /\ ~NewRow(w).revoked
  BY NewRowType DEF CommitCreate, NewRow
<1>2. sessions' = TrimOwner(S, o) /\ ledger' = ledger \cup {NewRow(w)}
  BY DEF CommitCreate, InsertSession
<1>3. IsFiniteSet(ledger')
  BY <1>2, FS_AddElement
<1>4. S \subseteq ledger'
  <2> SUFFICES ASSUME NEW r \in sessions, ~r.revoked PROVE r \in ledger
    BY <1>2 DEF Purge
  <2>1. AsInserted(r) = r
    BY DEF TypeOK, Row, AsInserted
  <2>2. QED
    BY <2>1 DEF RowsRecorded
<1>5. request[w].stamp \in 0 .. MaxTime /\ request[w].stamp <= now /\ now \in Nat
  BY RequestKinds, SessionAssumption DEF CommitCreate, TypeOK, LedgerAccounted
<1>6. \A r \in S : r \in sessions' \/ Cardinality(Rivals(r)') >= MaxSessions
  <2> SUFFICES ASSUME NEW r \in S, r \notin sessions'
               PROVE  Cardinality(Rivals(r)') >= MaxSessions
    OBVIOUS
  <2> DEFINE N == {q \in S : q.owner = o /\ Newer(q, r)}
  <2>1. r.owner = o /\ ~(Cardinality(N) < MaxSessions)
    BY <1>2 DEF TrimOwner
  <2>2. S \subseteq Row
    BY <1>1 DEF Purge, TypeOK
  <2>3. \A q \in S : Newer(q, r) => q # r /\ q.created >= r.created
    BY <2>2 DEF Newer, Row
  <2>4. N \subseteq Rivals(r)'
    BY <1>4, <2>1, <2>3 DEF Rivals
  <2>5. IsFiniteSet(Rivals(r)') /\ Cardinality(Rivals(r)') \in Nat
    BY <1>3, FS_Subset, FS_CardinalityType DEF Rivals
  <2>6. Cardinality(N) <= Cardinality(Rivals(r)') /\ Cardinality(N) \in Nat
    BY <2>4, <2>5, FS_Subset, FS_CardinalityType
  <2>7. QED
    BY <2>1, <2>5, <2>6, SessionAssumption
<1>7. \A r \in ledger : Cardinality(Rivals(r)) >= MaxSessions
                           => Cardinality(Rivals(r)') >= MaxSessions
  <2> TAKE r \in ledger
  <2>1. Rivals(r) \subseteq Rivals(r)'
    BY <1>2 DEF Rivals
  <2>2. IsFiniteSet(Rivals(r)') /\ Cardinality(Rivals(r)') \in Nat
    BY <1>3, FS_Subset, FS_CardinalityType DEF Rivals
  <2>3. Cardinality(Rivals(r)) <= Cardinality(Rivals(r)') /\ Cardinality(Rivals(r)) \in Nat
    BY <2>1, <2>2, FS_Subset, FS_CardinalityType
  <2>4. QED
    BY <2>2, <2>3, SessionAssumption
<1>8. UNCHANGED <<now, loggedOut>>
  BY DEF CommitCreate
<1>9. \A r \in ledger' : /\ ~r.revoked
                        /\ \/ r \in sessions' \/ r.token \in loggedOut'
                           \/ Expired(r, now)' \/ Cardinality(Rivals(r)') >= MaxSessions
  <2> TAKE r \in ledger'
  <2>1. CASE r = NewRow(w)
    BY <1>1, <1>6, <2>1
  <2>2. CASE r \in ledger /\ r \in sessions
    <3>1. ~r.revoked
      BY <2>2 DEF LedgerAccounted
    <3>2. CASE Expired(r, request[w].stamp)
      BY <1>5, <1>8, <2>2, <3>1, <3>2, SessionAssumption DEF Expired, TypeOK, Row
    <3>3. CASE ~Expired(r, request[w].stamp)
      BY <1>6, <2>2, <3>1, <3>3 DEF Purge
    <3>4. QED
      BY <3>2, <3>3
  <2>3. CASE r \in ledger /\ r \notin sessions
    BY <1>7, <1>8, <2>3 DEF LedgerAccounted, Expired
  <2>4. QED
    BY <1>2, <2>1, <2>2, <2>3
<1>10. \A v \in Workers : request'[v].stage \in {"create", "authenticate", "revoke"}
                             => request'[v].stamp <= now'
  BY <1>8 DEF CommitCreate, Finish, Idle, TypeOK, LedgerAccounted
<1>11. QED
  BY <1>9, <1>10 DEF LedgerAccounted

LEMMA RevokeKeepsAccount ==
    ASSUME AccountInv, NEW w \in Workers, CommitRevoke(w)
    PROVE  LedgerAccounted'
<1> USE DEF AccountInv, SessionInv
<1>1. UNCHANGED <<now, ledger>>
  BY DEF CommitRevoke
<1>2. \A r \in sessions : r \in sessions' \/ r.token \in loggedOut'
  BY DEF CommitRevoke
<1>3. loggedOut \subseteq loggedOut'
  BY DEF CommitRevoke
<1>4. \A v \in Workers : request'[v].stage \in {"create", "authenticate", "revoke"}
                            => request'[v].stamp <= now'
  BY <1>1 DEF CommitRevoke, Finish, Idle, TypeOK, LedgerAccounted
<1>5. QED
  BY <1>1, <1>2, <1>3, <1>4 DEF LedgerAccounted, Expired, Rivals

LEMMA AccountStep == AccountInv /\ [Next]_sessionVars => AccountInv'
<1> SUFFICES ASSUME AccountInv, [Next]_sessionVars PROVE AccountInv'
  OBVIOUS
<1>1. SessionInv' /\ TypeOK
  BY InvStep DEF AccountInv, SessionInv
<1>2. ASSUME NEW w \in Workers, CommitCreate(w) PROVE AccountInv'
  <2>1. IsFiniteSet(ledger')
    BY <1>2, FS_AddElement DEF CommitCreate, AccountInv
  <2>2. QED
    BY <1>1, <1>2, <2>1, CreateKeepsAccount DEF AccountInv
<1>3. ASSUME NEW w \in Workers, CommitRevoke(w) PROVE AccountInv'
  BY <1>1, <1>3, RevokeKeepsAccount DEF AccountInv, CommitRevoke
<1>4. ASSUME TablesUnchanged, now' >= now, now' \in Nat,
             \A v \in Workers :
                request'[v].stage \in {"create", "authenticate", "revoke"} =>
                   request'[v] = request[v] \/ request'[v].stamp = now
      PROVE  AccountInv'
  <2>1. \A r \in ledger : Expired(r, now) => Expired(r, now')
    BY <1>1, <1>4, SessionAssumption DEF Expired, TypeOK, Row
  <2>2. \A v \in Workers :
           request'[v].stage \in {"create", "authenticate", "revoke"} => request'[v].stamp <= now'
    <3> SUFFICES ASSUME NEW v \in Workers,
                        request'[v].stage \in {"create", "authenticate", "revoke"}
                 PROVE  request'[v].stamp <= now'
      OBVIOUS
    <3>1. CASE request'[v].stamp = now
      BY <1>1, <1>4, <3>1 DEF TypeOK
    <3>2. CASE request'[v] = request[v]
      <4>1. request[v].stamp \in 0 .. MaxTime /\ request[v].stamp <= now
        BY <1>1, <3>2, RequestKinds DEF TypeOK, AccountInv, LedgerAccounted
      <4>2. QED
        BY <1>1, <1>4, <3>2, <4>1, SessionAssumption DEF TypeOK
    <3>3. QED
      BY <1>4, <3>1, <3>2
  <2>3. LedgerAccounted'
    BY <1>4, <2>1, <2>2 DEF TablesUnchanged, AccountInv, LedgerAccounted, Expired, Rivals
  <2>4. QED
    BY <1>1, <1>4, <2>3 DEF TablesUnchanged, AccountInv
<1>5. now \in Nat /\ now <= now
  BY <1>1, SessionAssumption DEF TypeOK
<1>6. ASSUME NEW w \in Workers, NEW o \in Owners, NEW t \in Tokens, StampCreate(w, o, t)
      PROVE  AccountInv'
  BY <1>1, <1>4, <1>5, <1>6 DEF StampCreate, Take, TypeOK, TablesUnchanged
<1>7. ASSUME NEW w \in Workers, NEW t \in Tokens, NEW g \in BOOLEAN,
             StampAuthenticate(w, t, g) \/ StampRevoke(w, t, g)
      PROVE  AccountInv'
  BY <1>1, <1>4, <1>5, <1>7 DEF StampAuthenticate, StampRevoke, Take, TypeOK, TablesUnchanged
<1>8. ASSUME NEW w \in Workers, SelectSession(w) \/ BusyTimeout(w)
      PROVE  AccountInv'
  BY <1>1, <1>4, <1>5, <1>8 DEF SelectSession, BusyTimeout, Finish, Idle, TypeOK, TablesUnchanged
<1>9. CASE Tick
  BY <1>4, <1>5, <1>9 DEF Tick, TablesUnchanged
<1>10. CASE Restart \/ UNCHANGED sessionVars
  BY <1>4, <1>5, <1>10 DEF Restart, Idle, sessionVars, TablesUnchanged
<1>11. QED
  BY <1>2, <1>3, <1>6, <1>7, <1>8, <1>9, <1>10 DEF Next, WorkerStep

\* A genuine token is refused only after its own logout, after its lifetime,
\* for another issuer, or once its owner has opened MaxSessions other sessions
\* that are not older.
THEOREM NoSpuriousLogouts == Spec => NoSpuriousLogout
<1> DEFINE Caused(w) ==
        \A r \in ledger :
            r.token = request[w].token =>
               \/ r.token \in loggedOut
               \/ r.issuer # issuer
               \/ Expired(r, now)
               \/ Cardinality(Rivals(r)) >= MaxSessions
<1>1. Init => AccountInv
  BY InvInit, FS_EmptySet DEF Init, AccountInv, LedgerAccounted, Idle
<1>2. AccountInv /\ [Next]_sessionVars =>
        [\A w \in Workers :
           Judged(w, "rejected") /\ request[w].genuine => Caused(w)]_sessionVars
  <2> SUFFICES ASSUME AccountInv, [Next]_sessionVars, NEW w \in Workers,
                      Judged(w, "rejected"), request[w].genuine,
                      NEW r \in ledger, r.token = request[w].token,
                      r.token \notin loggedOut, r.issuer = issuer, ~Expired(r, now),
                      ~(Cardinality(Rivals(r)) >= MaxSessions)
               PROVE  FALSE
    OBVIOUS
  <2>1. ~ \E q \in sessions : Accepts(q, request[w])
    BY RejectedFoundNone DEF AccountInv
  <2>2. r \in sessions /\ ~r.revoked
    BY DEF AccountInv, LedgerAccounted
  <2>3. request[w].stamp \in 0 .. MaxTime /\ request[w].stamp <= now
    BY RequestKinds DEF AccountInv, SessionInv, TypeOK, Judged, LedgerAccounted
  <2>4. ~Expired(r, request[w].stamp)
    BY <2>2, <2>3, SessionAssumption DEF Expired, AccountInv, SessionInv, TypeOK, Row
  <2>5. QED
    BY <2>1, <2>2, <2>4 DEF Accepts
<1>3. QED
  BY <1>1, <1>2, AccountStep, PTL DEF Spec, NoSpuriousLogout
=============================================================================
