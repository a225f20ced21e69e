--------------------------- MODULE SsoLoginProofs ---------------------------
(***************************************************************************)
(* Theorems about SsoLogin, for every number of workers, browsers and      *)
(* authorizations, every lifetime and every limit.                         *)
(***************************************************************************)
EXTENDS SsoLogin, FiniteSetTheorems, NaturalsInduction, WellFoundedInduction, TLAPS

-----------------------------------------------------------------------------
(* Shapes of the steps *)

\* The record of a worker determines which fields it has.
LEMMA LoginKinds ==
    ASSUME NEW q \in Login
    PROVE  /\ q.stage \in {"idle", "start", "redirect", "callback", "exchange", "create", "granted"}
           /\ q.stage = "start" =>
                 q.browser \in Browsers /\ q.cookie \in Cookies /\ q.state \in States
                 /\ q.stamp \in 0 .. MaxTime
           /\ q.stage = "redirect" => q.browser \in Browsers /\ q.cookie \in Cookies
           /\ q.stage = "callback" =>
                 q.browser \in Browsers /\ q.cookie \in Cookies /\ q.state \in States
                 /\ q.code \in States /\ q.stamp \in 0 .. MaxTime
           /\ q.stage = "exchange" =>
                 q.browser \in Browsers /\ q.state \in States /\ q.code \in States
           /\ q.stage = "create" =>
                 q.browser \in Browsers /\ q.state \in States /\ q.approval \in States
           /\ q.stage = "granted" => q.browser \in Browsers
BY DEF Login

LEMMA BecomeOthers ==
    ASSUME TypeOK, NEW w \in Workers, NEW q, Become(w, q)
    PROVE  \A v \in Workers : login'[v] = IF v = w THEN q ELSE login[v]
BY DEF TypeOK, Become

LEMMA BecomeTyped ==
    ASSUME TypeOK, NEW w \in Workers, NEW q \in Login, Become(w, q)
    PROVE  login' \in [Workers -> Login]
BY DEF TypeOK, Become

LEMMA TypeInit == Init => TypeOK
BY LoginAssumption DEF Init, TypeOK, Idle, Login

LEMMA TypeStep == TypeOK /\ [Next]_vars => TypeOK'
<1> SUFFICES ASSUME TypeOK, [Next]_vars PROVE TypeOK'
  OBVIOUS
<1>0. Idle \in Login
  BY DEF Idle, Login
<1>1. ASSUME NEW w \in Workers, NEW b \in Browsers, NEW s \in States, NEW c \in Cookies,
             StampStart(w, b, s, c)
      PROVE  TypeOK'
  <2>1. [stage |-> "start", browser |-> b, cookie |-> c, state |-> s, stamp |-> now] \in Login
    BY DEF Login, TypeOK
  <2>2. QED
    BY <1>1, <2>1, BecomeTyped DEF StampStart, TypeOK
<1>2. ASSUME NEW w \in Workers, NEW b \in Browsers, NEW s \in States, NEW code \in States,
             StampCallback(w, b, s, code)
      PROVE  TypeOK'
  <2>1. jar[b] \in Cookies
    BY <1>2 DEF StampCallback, TypeOK
  <2>2. [stage |-> "callback", browser |-> b, cookie |-> jar[b],
         state |-> s, code |-> code, stamp |-> now] \in Login
    BY <2>1 DEF Login, TypeOK
  <2>3. QED
    BY <1>2, <2>2, BecomeTyped DEF StampCallback, TypeOK
<1>3. ASSUME NEW w \in Workers, CommitStart(w)
      PROVE  TypeOK'
  <2>1. login[w] \in Login /\ login[w].stage = "start"
    BY <1>3 DEF CommitStart, TypeOK
  <2>2. [stage |-> "redirect", browser |-> login[w].browser,
         cookie |-> login[w].cookie] \in Login
    BY <2>1, LoginKinds DEF Login
  <2>3. NewRow(w) \in Row
    BY <2>1, LoginKinds DEF NewRow, Row, TypeOK
  <2>4. pending' \subseteq Row
    BY <1>3, <2>3 DEF CommitStart, Trim, Purge, TypeOK
  <2>5. started' \subseteq [state : States, browser : Browsers, cookie : Cookies,
                            created : 0 .. MaxTime]
    BY <1>3, <2>1, LoginKinds DEF CommitStart, TypeOK
  <2>6. lastPending' \in Nat
    BY <1>3 DEF CommitStart, TypeOK
  <2>7. QED
    BY <1>3, <2>2, <2>4, <2>5, <2>6, BecomeTyped DEF CommitStart, TypeOK
<1>4. ASSUME NEW w \in Workers, Consume(w)
      PROVE  TypeOK'
  <2>1. login[w] \in Login /\ login[w].stage = "callback"
    BY <1>4 DEF Consume, TypeOK
  <2>2. [stage |-> "exchange", browser |-> login[w].browser,
         state |-> login[w].state, code |-> login[w].code] \in Login
    BY <2>1, LoginKinds DEF Login
  <2>3. pending' \subseteq Row
    BY <1>4 DEF Consume, TypeOK, Row
  <2>4. redeemed' \subseteq States
    BY <1>4, <2>1, LoginKinds DEF Consume, TypeOK
  <2>5. QED
    BY <1>4, <2>2, <2>3, <2>4, BecomeTyped DEF Consume, TypeOK
<1>5. ASSUME NEW w \in Workers, Exchange(w)
      PROVE  TypeOK'
  <2>1. login[w] \in Login /\ login[w].stage = "exchange"
    BY <1>5 DEF Exchange, TypeOK
  <2>2. [stage |-> "create", browser |-> login[w].browser,
         state |-> login[w].state, approval |-> login[w].code] \in Login
    BY <2>1, LoginKinds DEF Login
  <2>3. QED
    BY <1>5, <2>2, BecomeTyped DEF Exchange, TypeOK
<1>6. ASSUME NEW w \in Workers, NEW t \in Tokens, CreateSession(w, t)
      PROVE  TypeOK'
  <2>1. login[w] \in Login /\ login[w].stage = "create"
    BY <1>6 DEF CreateSession, TypeOK
  <2>2. [stage |-> "granted", browser |-> login[w].browser] \in Login
    BY <2>1, LoginKinds DEF Login
  <2>3. grants' \subseteq [token : Tokens, browser : Browsers, state : States,
                           approval : States]
    BY <1>6, <2>1, LoginKinds DEF CreateSession, TypeOK
  <2>4. QED
    BY <1>6, <2>2, <2>3, BecomeTyped DEF CreateSession, TypeOK
<1>7. ASSUME NEW w \in Workers, Refuse(w) \/ Fail(w) \/ LoseResponse(w)
      PROVE  TypeOK'
  BY <1>0, <1>7, BecomeTyped DEF Refuse, Fail, LoseResponse, TypeOK
<1>8. ASSUME NEW w \in Workers, Deliver(w)
      PROVE  TypeOK'
  <2>1. login[w] \in Login /\ login[w].stage \in {"redirect", "granted"}
    BY <1>8 DEF Deliver, TypeOK
  <2>2. jar' \in [Browsers -> Cookies \cup {NoCookie}]
    BY <1>8, <2>1, LoginKinds DEF Deliver, TypeOK
  <2>3. QED
    BY <1>0, <1>8, <2>2, BecomeTyped DEF Deliver, TypeOK
<1>9. ASSUME NEW b \in Browsers, Forget(b)
      PROVE  TypeOK'
  BY <1>9 DEF Forget, TypeOK
<1>10. CASE Tick
  BY <1>10, LoginAssumption DEF Tick, TypeOK
<1>11. CASE Restart
  BY <1>0, <1>11 DEF Restart, TypeOK
<1>12. CASE UNCHANGED vars
  BY <1>12 DEF vars, TypeOK
<1>13. QED
  BY <1>1, <1>2, <1>3, <1>4, <1>5, <1>6, <1>7, <1>8, <1>9, <1>10, <1>11, <1>12 DEF Next

\* Every variable of the login flow keeps its type.
THEOREM LoginTypes == Spec => []TypeOK
<1>1. QED
  BY TypeInit, TypeStep, PTL DEF Spec

-----------------------------------------------------------------------------
(* The inductive invariant *)

LEMMA InvInit == Init => LoginInv
BY TypeInit DEF Init, LoginInv, StatesFresh, RowsRecorded, RedeemedOnce, CookiesOwned,
   BrowserKept, GrantedToItsBrowser, OneSessionPerAuthorization, InFlight, InStage, Idle

\* A step that leaves the tables alone and only moves one worker to a stage
\* where it holds nothing, or leaves the workers alone, keeps the invariant.
LEMMA QuietStep ==
    ASSUME LoginInv, TypeOK', UNCHANGED <<pending, started, redeemed, grants>>,
           \A w \in Workers :
               login'[w] = login[w] \/ login'[w].stage \in {"idle", "granted"},
           \A b \in Browsers : jar'[b] = jar[b] \/ jar'[b] = NoCookie
                                \/ \E r \in started : r.cookie = jar'[b] /\ r.browser = b
    PROVE  LoginInv'
<1> USE DEF LoginInv, InStage, InFlight
<1>1. StatesFresh'
  BY DEF StatesFresh
<1>2. RowsRecorded'
  BY DEF RowsRecorded
<1>3. RedeemedOnce'
  BY DEF RedeemedOnce, OneSessionPerAuthorization
<1>4. CookiesOwned'
  BY DEF CookiesOwned
<1>5. BrowserKept' /\ GrantedToItsBrowser'
  BY DEF BrowserKept, GrantedToItsBrowser
<1>6. QED
  BY <1>1, <1>2, <1>3, <1>4, <1>5

LEMMA StampStartInv ==
    ASSUME LoginInv, TypeOK', NEW w \in Workers, NEW b \in Browsers, NEW s \in States,
           NEW c \in Cookies, StampStart(w, b, s, c)
    PROVE  LoginInv'
<1> USE DEF LoginInv, InStage, InFlight
<1> DEFINE q == [stage |-> "start", browser |-> b, cookie |-> c, state |-> s, stamp |-> now]
<1>1. \A v \in Workers : login'[v] = IF v = w THEN q ELSE login[v]
  BY BecomeOthers DEF StampStart
<1>2. UNCHANGED <<pending, jar, started, redeemed, grants>>
  BY DEF StampStart
<1>3. StatesFresh'
  <2>1. \A r \in started : r.state # s
    BY DEF StampStart, DrawnStates
  <2>2. \A v \in Workers : login[v].stage = "start" => login[v].state # s
    BY DEF StampStart, DrawnStates
  <2>3. QED
    BY <1>1, <1>2, <2>1, <2>2 DEF StatesFresh
<1>4. RowsRecorded'
  BY <1>2 DEF RowsRecorded
<1>5. RedeemedOnce'
  BY <1>1, <1>2 DEF RedeemedOnce, OneSessionPerAuthorization
<1>6. CookiesOwned'
  <2>1. \A r \in started : r.cookie = c => r.browser = b
    BY DEF StampStart, DrawnCookies, CookiesOwned
  <2>2. \A v \in Workers : login[v].stage = "start" /\ login[v].cookie = c
                             => login[v].browser = b
    <3>1. CASE jar[b] = NoCookie
      BY <3>1 DEF StampStart, DrawnCookies
    <3>2. CASE jar[b] # NoCookie
      BY <3>2 DEF StampStart, CookiesOwned
    <3>3. QED
      BY <3>1, <3>2
  <2>3. QED
    BY <1>1, <1>2, <2>1, <2>2 DEF CookiesOwned
<1>7. BrowserKept' /\ GrantedToItsBrowser'
  BY <1>1, <1>2 DEF BrowserKept, GrantedToItsBrowser
<1>8. QED
  BY <1>3, <1>4, <1>5, <1>6, <1>7

LEMMA CommitStartInv ==
    ASSUME LoginInv, TypeOK', NEW w \in Workers, CommitStart(w)
    PROVE  LoginInv'
<1> USE DEF LoginInv, InStage, InFlight
<1> DEFINE e == [state |-> login[w].state, browser |-> login[w].browser,
                 cookie |-> login[w].cookie, created |-> login[w].stamp]
           q == [stage |-> "redirect", browser |-> login[w].browser,
                 cookie |-> login[w].cookie]
<1>1. \A v \in Workers : login'[v] = IF v = w THEN q ELSE login[v]
  BY BecomeOthers DEF CommitStart
<1>2. started' = started \cup {e} /\ UNCHANGED <<jar, redeemed, grants>>
  BY DEF CommitStart
<1>3. \A p \in pending' : p \in pending \/ p = NewRow(w)
  BY DEF CommitStart, Trim, Purge
<1>4. NewRow(w).state = e.state /\ NewRow(w).cookie = e.cookie /\ ~NewRow(w).consumed
  BY DEF NewRow
<1>5. login[w].stage = "start" /\ \A r \in started : r.state # e.state
  BY DEF CommitStart, StatesFresh
<1>6. StatesFresh'
  <2>1. \A v \in Workers : login'[v].stage = "start" =>
           v # w /\ login'[v] = login[v] /\ login[v].state # e.state
    BY <1>1, <1>5 DEF StatesFresh
  <2>2. QED
    BY <1>2, <1>5, <2>1 DEF StatesFresh
<1>7. RowsRecorded'
  <2>1. e.state \notin redeemed
    BY <1>5 DEF RowsRecorded
  <2>2. \A p \in pending : p.state # e.state
    BY <1>5 DEF RowsRecorded
  <2> HIDE DEF e
  <2>3. \A p \in pending' : \E r \in started' : r.state = p.state /\ r.cookie = p.cookie
    BY <1>2, <1>3, <1>4 DEF RowsRecorded
  <2>4. \A p, r \in pending' : p.state = r.state => p = r
    BY <1>3, <1>4, <2>2 DEF RowsRecorded
  <2>5. \A p \in pending' : p.consumed <=> p.state \in redeemed'
    BY <1>2, <1>3, <1>4, <2>1 DEF RowsRecorded
  <2>6. QED
    BY <1>2, <2>3, <2>4, <2>5 DEF RowsRecorded
<1>8. RedeemedOnce'
  BY <1>1, <1>2 DEF RedeemedOnce, OneSessionPerAuthorization
<1>9. CookiesOwned'
  <2>1. \A r \in started : r.cookie = e.cookie => r.browser = e.browser
    BY <1>5 DEF CookiesOwned
  <2>2. \A v \in Workers : login[v].stage = "start" /\ login[v].cookie = e.cookie
                             => login[v].browser = e.browser
    BY <1>5 DEF CookiesOwned
  <2>3. q.cookie = e.cookie /\ q.browser = e.browser /\ q.stage = "redirect"
    OBVIOUS
  <2> HIDE DEF e, q
  <2>4. \A v \in Workers : login'[v].stage = "start" => login'[v] = login[v]
    BY <1>1, <2>3
  <2>5. \A p, r \in started' : p.cookie = r.cookie => p.browser = r.browser
    BY <1>2, <2>1 DEF CookiesOwned
  <2>6. \A v \in Workers : login'[v].stage = "start" =>
           /\ \A r \in started' : r.cookie = login'[v].cookie => r.browser = login'[v].browser
           /\ \A u \in Workers : login'[u].stage = "start" =>
                 (login'[u].cookie = login'[v].cookie => login'[u].browser = login'[v].browser)
    BY <1>2, <2>2, <2>4 DEF CookiesOwned
  <2>7. \A v \in Workers : login'[v].stage \in {"redirect", "callback"} =>
           \E r \in started' : r.cookie = login'[v].cookie /\ r.browser = login'[v].browser
    BY <1>1, <1>2, <2>3 DEF CookiesOwned
  <2>8. QED
    BY <1>2, <2>5, <2>6, <2>7 DEF CookiesOwned
<1>10. BrowserKept' /\ GrantedToItsBrowser'
  BY <1>1, <1>2 DEF BrowserKept, GrantedToItsBrowser
<1>11. QED
  BY <1>6, <1>7, <1>8, <1>9, <1>10

LEMMA StampCallbackInv ==
    ASSUME LoginInv, TypeOK', NEW w \in Workers, NEW b \in Browsers, NEW s \in States,
           NEW code \in States, StampCallback(w, b, s, code)
    PROVE  LoginInv'
<1> USE DEF LoginInv, InStage, InFlight
<1> DEFINE q == [stage |-> "callback", browser |-> b, cookie |-> jar[b],
                 state |-> s, code |-> code, stamp |-> now]
<1>1. \A v \in Workers : login'[v] = IF v = w THEN q ELSE login[v]
  BY BecomeOthers DEF StampCallback
<1>2. UNCHANGED <<pending, jar, started, redeemed, grants>>
  BY DEF StampCallback
<1>3. StatesFresh' /\ RowsRecorded'
  BY <1>1, <1>2 DEF StatesFresh, RowsRecorded
<1>4. RedeemedOnce'
  BY <1>1, <1>2 DEF RedeemedOnce, OneSessionPerAuthorization
<1>5. CookiesOwned'
  <2>1. \E r \in started : r.cookie = jar[b] /\ r.browser = b
    BY DEF StampCallback, CookiesOwned
  <2>2. QED
    BY <1>1, <1>2, <2>1 DEF CookiesOwned
<1>6. BrowserKept' /\ GrantedToItsBrowser'
  BY <1>1, <1>2 DEF BrowserKept, GrantedToItsBrowser
<1>7. QED
  BY <1>3, <1>4, <1>5, <1>6

LEMMA ConsumeInv ==
    ASSUME LoginInv, TypeOK', NEW w \in Workers, Consume(w)
    PROVE  LoginInv'
<1> USE DEF LoginInv, InStage, InFlight
<1> DEFINE s == login[w].state
           q == [stage |-> "exchange", browser |-> login[w].browser,
                 state |-> login[w].state, code |-> login[w].code]
<1>1. \A v \in Workers : login'[v] = IF v = w THEN q ELSE login[v]
  BY BecomeOthers DEF Consume
<1>2. redeemed' = redeemed \cup {s} /\ UNCHANGED <<jar, started, grants>>
  BY DEF Consume
<1>3. PICK r \in pending : /\ Redeemable(r, login[w])
                          /\ pending' = (pending \ {r}) \cup {[r EXCEPT !.consumed = TRUE]}
  BY DEF Consume
<1> DEFINE m == [r EXCEPT !.consumed = TRUE]
<1>4. m.state = s /\ r.state = s /\ m.cookie = r.cookie /\ m.consumed /\ ~r.consumed
       /\ r.cookie = login[w].cookie
  BY <1>3 DEF Redeemable, TypeOK, Row
<1>5. s \notin redeemed
  BY <1>4 DEF RowsRecorded
<1>6. \E e \in started : e.state = s /\ e.cookie = login[w].cookie
  BY <1>4 DEF RowsRecorded
<1>7. StatesFresh'
  BY <1>1, <1>2 DEF StatesFresh
<1>8. RowsRecorded'
  <2> HIDE DEF m, s
  <2>1. \A p \in pending : p.state = s => p = r
    BY <1>4 DEF RowsRecorded
  <2>2. \A p \in pending' : p = m \/ (p \in pending /\ p.state # s)
    BY <1>3, <2>1 DEF m
  <2>3. \A p, n \in pending' : p.state = n.state => p = n
    BY <1>4, <2>2 DEF RowsRecorded
  <2>4. \A p \in pending' : p.consumed <=> p.state \in redeemed'
    BY <1>2, <1>4, <2>2 DEF RowsRecorded
  <2>5. \A p \in pending' : \E e \in started' : e.state = p.state /\ e.cookie = p.cookie
    BY <1>2, <1>4, <1>6, <2>2 DEF RowsRecorded
  <2>6. \A z \in redeemed' : \E e \in started' : e.state = z
    BY <1>2, <1>6 DEF RowsRecorded
  <2>7. QED
    BY <2>3, <2>4, <2>5, <2>6 DEF RowsRecorded
<1>9. RedeemedOnce'
  <2>1. \A v \in Workers : login'[v].stage \in {"exchange", "create"} =>
           \/ v = w /\ login'[v].state = s
           \/ v # w /\ login'[v] = login[v]
    BY <1>1
  <2>2. \A g \in grants : g.state # s
    BY <1>5 DEF RedeemedOnce
  <2> HIDE DEF s
  <2>3. QED
    BY <1>2, <1>5, <2>1, <2>2 DEF RedeemedOnce, OneSessionPerAuthorization
<1>10. CookiesOwned'
  BY <1>1, <1>2 DEF CookiesOwned
<1>11. BrowserKept'
  <2>1. login[w].stage = "callback"
    BY DEF Consume
  <2>2. \E e \in started : e.cookie = login[w].cookie /\ e.browser = login[w].browser
    BY <2>1 DEF CookiesOwned
  <2>3. \E e \in started : e.state = s /\ e.browser = login[w].browser
    BY <1>6, <2>2 DEF CookiesOwned
  <2>4. QED
    BY <1>1, <1>2, <2>3 DEF BrowserKept
<1>12. GrantedToItsBrowser'
  BY <1>2 DEF GrantedToItsBrowser
<1>13. QED
  BY <1>7, <1>8, <1>9, <1>10, <1>11, <1>12

LEMMA ExchangeInv ==
    ASSUME LoginInv, TypeOK', NEW w \in Workers, Exchange(w)
    PROVE  LoginInv'
<1> USE DEF LoginInv, InStage, InFlight
<1> DEFINE q == [stage |-> "create", browser |-> login[w].browser,
                 state |-> login[w].state, approval |-> login[w].code]
<1>1. \A v \in Workers : login'[v] = IF v = w THEN q ELSE login[v]
  BY BecomeOthers DEF Exchange
<1>2. UNCHANGED <<pending, jar, started, redeemed, grants>>
  BY DEF Exchange
<1>3. login[w].stage = "exchange" /\ login[w].code = login[w].state
  BY DEF Exchange
<1>4. StatesFresh' /\ RowsRecorded'
  BY <1>1, <1>2 DEF StatesFresh, RowsRecorded
<1>5. RedeemedOnce'
  BY <1>1, <1>2, <1>3 DEF RedeemedOnce, OneSessionPerAuthorization
<1>6. CookiesOwned'
  BY <1>1, <1>2 DEF CookiesOwned
<1>7. BrowserKept' /\ GrantedToItsBrowser'
  BY <1>1, <1>2, <1>3 DEF BrowserKept, GrantedToItsBrowser
<1>8. QED
  BY <1>4, <1>5, <1>6, <1>7

LEMMA CreateSessionInv ==
    ASSUME LoginInv, TypeOK', NEW w \in Workers, NEW t \in Tokens, CreateSession(w, t)
    PROVE  LoginInv'
<1> USE DEF LoginInv, InStage, InFlight
<1> DEFINE q == [stage |-> "granted", browser |-> login[w].browser]
           n == [token |-> t, browser |-> login[w].browser, state |-> login[w].state,
                 approval |-> login[w].approval]
<1>1. \A v \in Workers : login'[v] = IF v = w THEN q ELSE login[v]
  BY BecomeOthers DEF CreateSession
<1>2. grants' = grants \cup {n} /\ UNCHANGED <<pending, jar, started, redeemed>>
  BY DEF CreateSession
<1>3. login[w].stage = "create"
  BY DEF CreateSession
<1>4. StatesFresh' /\ RowsRecorded'
  BY <1>1, <1>2 DEF StatesFresh, RowsRecorded
<1>5. \A g \in grants : g.state # n.state
  BY <1>3 DEF RedeemedOnce
<1>6. n.state \in redeemed
  BY <1>3 DEF RedeemedOnce
<1>7. \A v \in Workers : login'[v].stage \in {"exchange", "create"} =>
         v # w /\ login'[v] = login[v] /\ login[v].state # n.state
  BY <1>1, <1>3 DEF RedeemedOnce
<1>8. RedeemedOnce'
  <2> HIDE DEF n
  <2>1. QED
    BY <1>2, <1>5, <1>6, <1>7 DEF RedeemedOnce, OneSessionPerAuthorization
<1>9. CookiesOwned'
  BY <1>1, <1>2 DEF CookiesOwned
<1>10. BrowserKept'
  BY <1>1, <1>2 DEF BrowserKept
<1>11. GrantedToItsBrowser'
  BY <1>2, <1>3 DEF BrowserKept, GrantedToItsBrowser
<1>12. QED
  BY <1>4, <1>8, <1>9, <1>10, <1>11

LEMMA InvStep == LoginInv /\ [Next]_vars => LoginInv'
<1> SUFFICES ASSUME LoginInv, [Next]_vars PROVE LoginInv'
  OBVIOUS
<1>0. TypeOK /\ TypeOK'
  BY TypeStep DEF LoginInv
<1>1. ASSUME NEW w \in Workers, Refuse(w) \/ Fail(w) \/ LoseResponse(w)
      PROVE  LoginInv'
  BY <1>0, <1>1, BecomeOthers, QuietStep DEF Refuse, Fail, LoseResponse, Idle
<1>2. ASSUME NEW w \in Workers, Deliver(w)
      PROVE  LoginInv'
  <2>1. \A v \in Workers : login'[v] = IF v = w THEN Idle ELSE login[v]
    BY <1>0, <1>2, BecomeOthers DEF Deliver
  <2>2. \A b \in Browsers : jar'[b] = jar[b] \/ jar'[b] = NoCookie
                             \/ \E r \in started : r.cookie = jar'[b] /\ r.browser = b
    <3>1. login[w].stage = "redirect" =>
             \E r \in started : r.cookie = login[w].cookie /\ r.browser = login[w].browser
      BY DEF LoginInv, CookiesOwned, InStage
    <3>2. QED
      BY <1>0, <1>2, <3>1 DEF Deliver, TypeOK
  <2>3. QED
    BY <1>0, <1>2, <2>1, <2>2, QuietStep DEF Deliver, Idle
<1>3. CASE (\E b \in Browsers : Forget(b)) \/ Tick \/ Restart \/ UNCHANGED vars
  BY <1>0, <1>3, QuietStep DEF Forget, Tick, Restart, vars, Idle, TypeOK
<1>4. QED
  BY <1>0, <1>1, <1>2, <1>3, StampStartInv, CommitStartInv, StampCallbackInv, ConsumeInv,
     ExchangeInv, CreateSessionInv DEF Next

LEMMA InvAlways == Spec => []LoginInv
<1>1. QED
  BY InvInit, InvStep, PTL DEF Spec

\* An authorization opens at most one session.
THEOREM OneSession == Spec => []OneSessionPerAuthorization
<1>1. LoginInv => OneSessionPerAuthorization
  BY DEF LoginInv, RedeemedOnce
<1>2. QED
  BY <1>1, InvAlways, PTL

\* A session goes to the browser that began the authorization, for the
\* identity that approved it.
THEOREM RightBrowser == Spec => []GrantedToItsBrowser
<1>1. LoginInv => GrantedToItsBrowser
  BY DEF LoginInv
<1>2. QED
  BY <1>1, InvAlways, PTL

-----------------------------------------------------------------------------
(* The flow implements OneUseLogin *)

Phases == [s \in States |-> Phase(s)]
Granted == {[state |-> g.state, token |-> g.token] : g \in grants}

LEMMA PhaseKinds == \A s \in States : Phase(s) \in {"new", "open", "redeemed", "spent"}
BY DEF Phase

\* Only the tables and the workers in flight matter for a phase.
LEMMA PhaseStable ==
    ASSUME UNCHANGED <<pending, started, grants>>,
           \A s \in States : (\E w \in InFlight : login[w].state = s)
                             <=> (\E w \in InFlight' : login'[w].state = s)
    PROVE  UNCHANGED <<Phases, Granted>>
BY DEF Phases, Phase, Granted

\* A worker in flight holds a redeemed authorization.
LEMMA PhaseInFlight ==
    ASSUME LoginInv, NEW w \in InFlight
    PROVE  login[w].state \in States /\ Phase(login[w].state) = "redeemed"
<1> DEFINE s == login[w].state
<1>1. s \in States
  BY LoginKinds DEF InFlight, InStage, LoginInv, TypeOK
<1>2. s \in redeemed
  BY DEF LoginInv, RedeemedOnce
<1>3. \E r \in started : r.state = s
  BY <1>2 DEF LoginInv, RowsRecorded
<1>4. \A r \in pending : r.state = s => r.consumed
  BY <1>2 DEF LoginInv, RowsRecorded
<1>5. QED
  BY <1>1, <1>3, <1>4 DEF Phase

\* A worker that leaves the flight without a session abandons its authorization.
LEMMA LeavingAbandons ==
    ASSUME LoginInv, UNCHANGED <<pending, started, grants>>,
           NEW S \in SUBSET States,
           S \subseteq {login[w].state : w \in InFlight},
           \A s \in States : (\E w \in InFlight' : login'[w].state = s)
              <=> (s \notin S /\ \E w \in InFlight : login[w].state = s)
    PROVE  Phases' = [s \in States |-> IF s \in S THEN "spent" ELSE Phases[s]]
           /\ \A s \in S : Phases[s] = "redeemed"
<1>1. \A s \in S : Phases[s] = "redeemed"
  BY PhaseInFlight DEF Phases
<1>2. \A s \in States : Phase(s)' = IF s \in S THEN "spent" ELSE Phase(s)
  <2> TAKE s \in States
  <2>1. CASE s \notin S
    BY <2>1 DEF Phase
  <2>2. CASE s \in S
    <3>1. Phase(s) = "redeemed"
      BY <1>1, <2>2 DEF Phases
    <3>2. QED
      BY <2>2, <3>1 DEF Phase
  <2>3. QED
    BY <2>1, <2>2
<1>3. QED
  BY <1>1, <1>2 DEF Phases

LEMMA OpenStep ==
    ASSUME LoginInv, NEW w \in Workers, CommitStart(w),
           NEW s \in States, s = login[w].state
    PROVE  OneUse!Open(s)
<1> USE DEF LoginInv
<1> DEFINE lost == {r \in States : (Phase(r) = "open" \/ r = s) /\ Phase(r)' # "open"}
<1>1. login[w].stage = "start" /\ s \in States /\ s \notin {r.state : r \in started}
  BY LoginKinds DEF CommitStart, StatesFresh, InStage, TypeOK
<1>2. Phase(s) = "new"
  BY <1>1 DEF Phase
<1>3. \A z : (\A e \in started' : e.state # z) <=> (z # s /\ \A e \in started : e.state # z)
  <2> DEFINE n == [state |-> s, browser |-> login[w].browser,
                   cookie |-> login[w].cookie, created |-> login[w].stamp]
  <2>1. started' = started \cup {n} /\ n.state = s
    BY DEF CommitStart
  <2> HIDE DEF n
  <2>2. QED
    BY <2>1
<1>4. \A v \in Workers : login'[v] = login[v] \/ login'[v].stage = "redirect"
  BY BecomeOthers DEF CommitStart
<1>5. \A v \in Workers : login'[v] # login[v] => v = w
  BY BecomeOthers DEF CommitStart
<1>6. InFlight' = InFlight /\ \A v \in InFlight : login'[v] = login[v]
  BY <1>1, <1>4, <1>5 DEF InFlight, InStage
<1>7. \A p \in pending' : p \in pending \/ p.state = s
  BY DEF CommitStart, Trim, Purge, NewRow
<1>8. s \notin redeemed /\ \A v \in InFlight : login[v].state # s
  BY <1>1 DEF RowsRecorded, RedeemedOnce
<1>9. Phase(s)' \in {"open", "spent"}
  <2>1. ~ \A e \in started' : e.state # s
    BY <1>3
  <2>2. ~ \E v \in InFlight' : login'[v].state = s
    BY <1>6, <1>8
  <2>3. QED
    BY <2>1, <2>2 DEF Phase
<1>10. \A r \in States : r # s =>
          Phase(r)' = Phase(r) \/ (Phase(r) = "open" /\ Phase(r)' = "spent")
  <2> SUFFICES ASSUME NEW r \in States, r # s
               PROVE  Phase(r)' = Phase(r) \/ (Phase(r) = "open" /\ Phase(r)' = "spent")
    OBVIOUS
  <2>1. (\A e \in started : e.state # r) <=> (\A e \in started' : e.state # r)
    BY <1>3
  <2>2. (\E v \in InFlight : login[v].state = r) <=> (\E v \in InFlight' : login'[v].state = r)
    BY <1>6
  <2>3. (\E p \in pending' : p.state = r /\ ~p.consumed)
           => (\E p \in pending : p.state = r /\ ~p.consumed)
    BY <1>7
  <2>4. (\E p \in pending : p.state = r /\ ~p.consumed)
           => ~ \E v \in InFlight : login[v].state = r
    BY DEF RowsRecorded, RedeemedOnce
  <2>5. QED
    BY <2>1, <2>2, <2>3, <2>4 DEF Phase
<1>11. lost \in SUBSET ({r \in States : Phases[r] = "open"} \cup {s})
  BY DEF Phases
<1>12. Phases' = [r \in States |-> IF r \in lost THEN "spent"
                                  ELSE IF r = s THEN "open" ELSE Phases[r]]
  BY <1>9, <1>10 DEF Phases
<1>13. Granted' = Granted
  BY DEF CommitStart, Granted
<1>14. QED
  BY <1>1, <1>2, <1>11, <1>12, <1>13 DEF OneUse!Open, OneUse!InPhase, Phases, Granted

LEMMA RedeemStep ==
    ASSUME LoginInv, LoginInv', NEW w \in Workers, Consume(w),
           NEW s \in States, s = login[w].state
    PROVE  OneUse!Redeem(s)
<1> USE DEF LoginInv
<1> DEFINE q == [stage |-> "exchange", browser |-> login[w].browser,
                 state |-> login[w].state, code |-> login[w].code]
<1>1. \A v \in Workers : login'[v] = IF v = w THEN q ELSE login[v]
  BY BecomeOthers DEF Consume
<1>2. login[w].stage = "callback" /\ s \in States
  BY LoginKinds DEF Consume, TypeOK
<1>3. PICK r \in pending : /\ Redeemable(r, login[w])
                          /\ pending' = (pending \ {r}) \cup {[r EXCEPT !.consumed = TRUE]}
  BY DEF Consume
<1>4. r.state = s /\ ~r.consumed /\ [r EXCEPT !.consumed = TRUE].state = s
       /\ [r EXCEPT !.consumed = TRUE].consumed
  BY <1>3 DEF Redeemable, TypeOK, Row
<1>5. Phase(s) = "open"
  BY <1>4 DEF Phase, RowsRecorded
<1>6. w \in InFlight' /\ login'[w].state = s
  BY <1>1 DEF InFlight, InStage
<1>7. Phase(s)' = "redeemed"
  BY <1>6, PhaseInFlight DEF Phase, RowsRecorded, RedeemedOnce
<1>8. \A z \in States : z # s => Phase(z)' = Phase(z)
  <2> SUFFICES ASSUME NEW z \in States, z # s PROVE Phase(z)' = Phase(z)
    OBVIOUS
  <2>1. (\E p \in pending : p.state = z /\ ~p.consumed)
           <=> (\E p \in pending' : p.state = z /\ ~p.consumed)
    BY <1>3, <1>4
  <2>2. (\E v \in InFlight : login[v].state = z) <=> (\E v \in InFlight' : login'[v].state = z)
    BY <1>1, <1>2 DEF InFlight, InStage
  <2>3. started' = started
    BY DEF Consume
  <2>4. QED
    BY <2>1, <2>2, <2>3 DEF Phase
<1>9. Phases' = [z \in States |-> IF z \in {s} THEN "redeemed" ELSE Phases[z]]
  BY <1>7, <1>8 DEF Phases
<1>10. Granted' = Granted
  BY DEF Consume, Granted
<1>11. QED
  BY <1>2, <1>5, <1>9, <1>10 DEF OneUse!Redeem, OneUse!Advance, Phases, Granted

LEMMA GrantStep ==
    ASSUME LoginInv, NEW w \in Workers, NEW t \in Tokens, CreateSession(w, t),
           NEW s \in States, s = login[w].state
    PROVE  OneUse!Grant(s, t)
<1> USE DEF LoginInv
<1> DEFINE q == [stage |-> "granted", browser |-> login[w].browser]
<1>1. \A v \in Workers : login'[v] = IF v = w THEN q ELSE login[v]
  BY BecomeOthers DEF CreateSession
<1>2. w \in InFlight
  BY DEF CreateSession, InFlight, InStage
<1>3. s \in States /\ Phase(s) = "redeemed"
  BY <1>2, PhaseInFlight
<1>4. \A z \in States : (\E v \in InFlight' : login'[v].state = z)
                        <=> (z # s /\ \E v \in InFlight : login[v].state = z)
  BY <1>1, <1>2 DEF InFlight, InStage, RedeemedOnce
<1>5. \A z \in States : Phase(z)' = IF z = s THEN "spent" ELSE Phase(z)
  <2>1. UNCHANGED <<pending, started>>
    BY DEF CreateSession
  <2>2. QED
    BY <1>3, <1>4, <2>1 DEF Phase
<1>6. Phases' = [z \in States |-> IF z \in {s} THEN "spent" ELSE Phases[z]]
  BY <1>5 DEF Phases
<1>7. Granted' = Granted \cup {[state |-> s, token |-> t]}
  <2> DEFINE n == [token |-> t, browser |-> login[w].browser, state |-> login[w].state,
                   approval |-> login[w].approval]
  <2>1. grants' = grants \cup {n} /\ n.state = s /\ n.token = t
    BY DEF CreateSession
  <2> HIDE DEF n
  <2>2. QED
    BY <2>1 DEF Granted
<1>8. \A g \in Granted : g.token # t
  BY DEF CreateSession, Granted
<1>9. QED
  BY <1>3, <1>6, <1>7, <1>8 DEF OneUse!Grant, OneUse!Advance, Phases, Granted

LEMMA AbandonStep ==
    ASSUME LoginInv, UNCHANGED <<pending, started, grants>>,
           NEW S \in SUBSET States,
           S \subseteq {login[w].state : w \in InFlight},
           \A s \in States : (\E w \in InFlight' : login'[w].state = s)
              <=> (s \notin S /\ \E w \in InFlight : login[w].state = s)
    PROVE  OneUse!Abandon(S)
<1>1. Phases' = [s \in States |-> IF s \in S THEN "spent" ELSE Phases[s]]
       /\ \A s \in S : Phases[s] = "redeemed"
  BY LeavingAbandons
<1>2. Granted' = Granted
  BY DEF Granted
<1>3. QED
  BY <1>1, <1>2 DEF OneUse!Abandon, OneUse!Advance, OneUse!InPhase, Phases, Granted

LEMMA RefineInit == Init => OneUse!Init
BY DEF Init, OneUse!Init, Phase

LEMMA RefineStep ==
    LoginInv /\ LoginInv' /\ [Next]_vars => [OneUse!Next]_<<Phases, Granted>>
<1> SUFFICES ASSUME LoginInv, LoginInv', [Next]_vars
             PROVE  OneUse!Next \/ UNCHANGED <<Phases, Granted>>
  OBVIOUS
<1>0. TypeOK
  BY DEF LoginInv
<1> USE DEF InFlight, InStage
<1>1. ASSUME NEW w \in Workers, NEW b \in Browsers, NEW s \in States, NEW c \in Cookies,
             StampStart(w, b, s, c)
      PROVE  UNCHANGED <<Phases, Granted>>
  BY <1>0, <1>1, BecomeOthers, PhaseStable DEF StampStart, Idle
<1>2. ASSUME NEW w \in Workers, NEW b \in Browsers, NEW s \in States, NEW code \in States,
             StampCallback(w, b, s, code)
      PROVE  UNCHANGED <<Phases, Granted>>
  BY <1>0, <1>2, BecomeOthers, PhaseStable DEF StampCallback, Idle
<1>3. ASSUME NEW w \in Workers, CommitStart(w)
      PROVE  OneUse!Next
  <2>1. login[w].state \in States
    BY <1>0, <1>3, LoginKinds DEF CommitStart, TypeOK
  <2>2. QED
    BY <1>3, <2>1, OpenStep DEF OneUse!Next
<1>4. ASSUME NEW w \in Workers, Consume(w)
      PROVE  OneUse!Next
  <2>1. login[w].state \in States
    BY <1>0, <1>4, LoginKinds DEF Consume, TypeOK
  <2>2. QED
    BY <1>4, <2>1, RedeemStep DEF OneUse!Next
<1>5. ASSUME NEW w \in Workers, Exchange(w)
      PROVE  UNCHANGED <<Phases, Granted>>
  <2>1. \A v \in Workers : v \in InFlight' <=> v \in InFlight
    BY <1>0, <1>5, BecomeOthers DEF Exchange
  <2>2. \A v \in InFlight : login'[v].state = login[v].state
    BY <1>0, <1>5, BecomeOthers DEF Exchange
  <2>3. QED
    BY <1>5, <2>1, <2>2, PhaseStable DEF Exchange
<1>6. ASSUME NEW w \in Workers, NEW t \in Tokens, CreateSession(w, t)
      PROVE  OneUse!Next
  <2>1. login[w].state \in States
    BY <1>0, <1>6, LoginKinds DEF CreateSession, TypeOK
  <2>2. QED
    BY <1>6, <2>1, GrantStep DEF OneUse!Next
<1>7. ASSUME NEW w \in Workers, Refuse(w) \/ Deliver(w) \/ LoseResponse(w)
      PROVE  UNCHANGED <<Phases, Granted>>
  BY <1>0, <1>7, BecomeOthers, PhaseStable DEF Refuse, Deliver, LoseResponse, Idle
<1>8. ASSUME NEW w \in Workers, Fail(w)
      PROVE  OneUse!Next \/ UNCHANGED <<Phases, Granted>>
  <2>1. UNCHANGED <<pending, started, grants>>
    BY <1>8 DEF Fail
  <2>2. \A v \in Workers : login'[v] = IF v = w THEN Idle ELSE login[v]
    BY <1>0, <1>8, BecomeOthers DEF Fail
  <2>3. CASE w \notin InFlight
    BY <2>1, <2>2, <2>3, PhaseStable DEF Idle
  <2>4. CASE w \in InFlight
    <3> DEFINE S == {login[w].state}
    <3>1. S \in SUBSET States /\ S \subseteq {login[v].state : v \in InFlight}
      BY <2>4, PhaseInFlight
    <3>2. \A s \in States : (\E v \in InFlight' : login'[v].state = s)
                 <=> (s \notin S /\ \E v \in InFlight : login[v].state = s)
      BY <2>2, <2>4 DEF Idle, LoginInv, RedeemedOnce
    <3>3. OneUse!Abandon(S)
      BY <2>1, <3>1, <3>2, AbandonStep
    <3>4. QED
      BY <3>1, <3>3 DEF OneUse!Next
  <2>5. QED
    BY <2>3, <2>4
<1>9. CASE Restart
  <2> DEFINE S == {login[v].state : v \in InFlight}
  <2>1. S \in SUBSET States
    BY PhaseInFlight
  <2>2. \A s \in States : (\E v \in InFlight' : login'[v].state = s)
               <=> (s \notin S /\ \E v \in InFlight : login[v].state = s)
    BY <1>9 DEF Restart, Idle
  <2>3. OneUse!Abandon(S)
    BY <1>9, <2>1, <2>2, AbandonStep DEF Restart
  <2>4. QED
    BY <2>1, <2>3 DEF OneUse!Next
<1>10. CASE (\E b \in Browsers : Forget(b)) \/ Tick \/ UNCHANGED vars
  BY <1>10, PhaseStable DEF Forget, Tick, vars
<1>11. QED
  BY <1>1, <1>2, <1>3, <1>4, <1>5, <1>6, <1>7, <1>8, <1>9, <1>10 DEF Next

\* The single-sign-on flow implements the abstract one-use login.
THEOREM LoginRefinement == Spec => ImplementsOneUse
<1>1. LoginInv /\ LoginInv' /\ [Next]_vars => [OneUse!Next]_(OneUse!loginVars)
  BY RefineStep DEF OneUse!loginVars, Phases, Granted
<1>2. QED
  BY RefineInit, <1>1, InvAlways, PTL DEF Spec, ImplementsOneUse, OneUse!Spec

-----------------------------------------------------------------------------
(* The limit of the pending table *)

LEMMA LeastNatural ==
    ASSUME NEW T \in SUBSET Nat, T # {}
    PROVE  \E m \in T : \A n \in T : m <= n
<1> DEFINE R == OpToRel(<, Nat)
<1>1. \A m, n \in Nat : n < m => <<n, m>> \in R
  BY DEF OpToRel
<1>2. IsWellFoundedOn(R, Nat)
  BY NatLessThanWellFounded
<1> HIDE DEF R
<1>3. PICK m \in T : \A n \in T : ~(<<n, m>> \in R)
  BY <1>2, WFMin
<1>4. \A n \in T : n \in Nat /\ m \in Nat /\ ~(n < m)
  BY <1>1, <1>3
<1>5. QED
  BY <1>4

\* Among the rows that stay, all but one are newer than the oldest.
LEMMA TrimBound ==
    ASSUME NEW S \in SUBSET Row, IsFiniteSet(S),
           \A q, r \in S : q.rowid = r.rowid => q = r
    PROVE  Cardinality(Trim(S)) <= MaxPending
<1> DEFINE K == Trim(S)
<1>1. IsFiniteSet(K) /\ K \subseteq S /\ Cardinality(K) \in Nat
  BY FS_Subset, FS_CardinalityType DEF Trim
<1>2. \A r \in S : r.created \in Nat /\ r.rowid \in Nat
  BY LoginAssumption DEF Row
<1>3. CASE K = {}
  BY <1>3, FS_EmptySet, LoginAssumption
<1>4. CASE K # {}
  <2> DEFINE T == {r.created : r \in K}
  <2>1. PICK c \in T : \A n \in T : c <= n
    <3>1. T \in SUBSET Nat /\ T # {}
      BY <1>1, <1>2, <1>4
    <3>2. QED
      BY <3>1, LeastNatural
  <2> DEFINE D == {r.rowid : r \in {k \in K : k.created = c}}
  <2>2. PICK d \in D : \A n \in D : d <= n
    <3>1. D \in SUBSET Nat /\ D # {}
      BY <1>1, <1>2, <2>1
    <3>2. QED
      BY <3>1, LeastNatural
  <2>3. PICK m \in K : m.created = c /\ m.rowid = d
    BY <2>2
  <2> DEFINE N == {q \in S : Newer(q, m)}
  <2>4. ASSUME NEW q \in K, q # m PROVE Newer(q, m)
    <3>1. q.created >= c /\ (q.created = c => q.rowid >= d) /\ q.rowid # m.rowid
      BY <1>1, <1>2, <2>1, <2>2, <2>4
    <3>2. q.created \in Nat /\ q.rowid \in Nat /\ c \in Nat /\ d \in Nat
      BY <1>1, <1>2, <2>3
    <3>3. QED
      BY <2>3, <3>1, <3>2 DEF Newer
  <2>5. IsFiniteSet(N) /\ Cardinality(N) \in Nat /\ Cardinality(N) < MaxPending
    BY <2>3, FS_Subset, FS_CardinalityType DEF Trim
  <2>6. Cardinality(K \ {m}) <= Cardinality(N)
    BY <1>1, <2>4, <2>5, FS_Subset
  <2>7. Cardinality(K \ {m}) = Cardinality(K) - 1
    BY <1>1, <2>3, FS_RemoveElement
  <2>8. QED
    BY <1>1, <2>5, <2>6, <2>7, LoginAssumption
<1>5. QED
  BY <1>3, <1>4

\* The limit holds and the finite table has distinct rowids.
TableInv == TypeOK /\ IsFiniteSet(pending) /\ RowidsUnique /\ PendingBound

\* The table before the trimming statement
Filled(w) == Purge(pending, login[w].stamp) \cup {NewRow(w)}

LEMMA FilledTable ==
    ASSUME TypeOK, IsFiniteSet(pending), RowidsUnique, NEW w \in Workers, CommitStart(w)
    PROVE  /\ Filled(w) \subseteq Row /\ IsFiniteSet(Filled(w))
           /\ \A r \in Filled(w) : r.rowid <= lastPending + 1
           /\ \A q, r \in Filled(w) : q.rowid = r.rowid => q = r
           /\ pending' = Trim(Filled(w)) /\ pending' \subseteq Filled(w)
<1>1. NewRow(w) \in Row /\ NewRow(w).rowid = lastPending + 1
  BY LoginKinds DEF CommitStart, NewRow, Row, TypeOK
<1>2. Filled(w) \subseteq pending \cup {NewRow(w)} /\ Filled(w) \subseteq Row
  BY <1>1 DEF Filled, Purge, TypeOK
<1>3. IsFiniteSet(Filled(w))
  <2>1. IsFiniteSet(pending \cup {NewRow(w)})
    BY FS_AddElement
  <2>2. QED
    BY <1>2, <2>1, FS_Subset
<1>4. \A r \in pending : r.rowid \in Nat /\ r.rowid <= lastPending /\ lastPending \in Nat
  BY DEF RowidsUnique, TypeOK, Row
<1>5. QED
  BY <1>1, <1>2, <1>3, <1>4 DEF RowidsUnique, CommitStart, Filled, Trim

LEMMA StartKeepsTable ==
    ASSUME TableInv, NEW w \in Workers, CommitStart(w)
    PROVE  IsFiniteSet(pending)' /\ RowidsUnique' /\ PendingBound'
<1>1. /\ Filled(w) \subseteq Row /\ IsFiniteSet(Filled(w))
      /\ \A r \in Filled(w) : r.rowid <= lastPending + 1
      /\ \A q, r \in Filled(w) : q.rowid = r.rowid => q = r
      /\ pending' = Trim(Filled(w)) /\ pending' \subseteq Filled(w)
  BY FilledTable DEF TableInv
<1>2. lastPending' = lastPending + 1
  BY DEF CommitStart
<1>3. IsFiniteSet(pending') /\ Cardinality(pending') <= MaxPending
  BY <1>1, TrimBound, FS_Subset
<1>4. QED
  BY <1>1, <1>2, <1>3 DEF RowidsUnique, PendingBound

LEMMA ConsumeKeepsTable ==
    ASSUME TableInv, NEW w \in Workers, Consume(w)
    PROVE  IsFiniteSet(pending)' /\ RowidsUnique' /\ PendingBound'
<1>1. PICK r \in pending : pending' = (pending \ {r}) \cup {[r EXCEPT !.consumed = TRUE]}
  BY DEF Consume
<1> DEFINE c == [r EXCEPT !.consumed = TRUE]
<1>2. c.rowid = r.rowid /\ lastPending' = lastPending
  BY DEF Consume, TableInv, TypeOK, Row
<1>3. RowidsUnique'
  BY <1>1, <1>2 DEF TableInv, RowidsUnique
<1>4. IsFiniteSet(pending \ {r}) /\ Cardinality(pending \ {r}) = Cardinality(pending) - 1
  BY FS_RemoveElement DEF TableInv
<1>5. IsFiniteSet(pending') /\ Cardinality(pending') <= Cardinality(pending)
  <2>1. Cardinality(pending) \in Nat /\ Cardinality(pending \ {r}) \in Nat
    BY <1>4, FS_CardinalityType DEF TableInv
  <2> DEFINE rest == pending \ {r}
  <2> HIDE DEF c, rest
  <2>2. /\ IsFiniteSet(rest \cup {c})
        /\ Cardinality(rest \cup {c}) \in {Cardinality(rest), Cardinality(rest) + 1}
    BY <1>4, FS_AddElement DEF rest
  <2>3. QED
    BY <1>1, <1>4, <2>1, <2>2 DEF rest, c
<1>6. Cardinality(pending) \in Nat /\ Cardinality(pending') \in Nat
  BY <1>5, FS_CardinalityType DEF TableInv
<1>7. QED
  BY <1>3, <1>5, <1>6, LoginAssumption DEF TableInv, PendingBound

LEMMA TableStep == TableInv /\ [Next]_vars => TableInv'
<1> SUFFICES ASSUME TableInv, [Next]_vars PROVE TableInv'
  OBVIOUS
<1>1. TypeOK'
  BY TypeStep DEF TableInv
<1>2. CASE UNCHANGED <<pending, lastPending>>
  BY <1>1, <1>2 DEF TableInv, RowidsUnique, PendingBound
<1>3. CASE \E w \in Workers : CommitStart(w)
  BY <1>1, <1>3, StartKeepsTable DEF TableInv
<1>4. CASE \E w \in Workers : Consume(w)
  BY <1>1, <1>4, ConsumeKeepsTable DEF TableInv
<1>5. QED
  BY <1>2, <1>3, <1>4 DEF Next, vars, StampStart, StampCallback, Refuse, Exchange, CreateSession, Fail,
     Deliver, LoseResponse, Forget, Tick, Restart

LEMMA TableAlways == Spec => []TableInv
<1>1. Init => TableInv
  <2> SUFFICES ASSUME Init PROVE TableInv
    OBVIOUS
  <2>1. IsFiniteSet(pending) /\ Cardinality(pending) <= MaxPending
    BY FS_EmptySet, LoginAssumption DEF Init
  <2>2. QED
    BY <2>1, TypeInit DEF Init, TableInv, RowidsUnique, PendingBound
<1>2. QED
  BY <1>1, TableStep, PTL DEF Spec

\* The pending table never holds more than MAX_PENDING_AUTHORIZATIONS rows,
\* whatever the order in which stale timestamps are committed.
THEOREM PendingLimit == Spec => []PendingBound
<1>1. TableInv => PendingBound
  BY DEF TableInv
<1>2. QED
  BY <1>1, TableAlways, PTL

-----------------------------------------------------------------------------
(* No browser is refused without a cause. *)

AccountInv ==
    /\ LoginInv /\ IsFiniteSet(pending) /\ IsFiniteSet(started)
    /\ RowidsUnique /\ StartsAccounted

LEMMA RivalsFinite ==
    ASSUME IsFiniteSet(started), NEW r
    PROVE  IsFiniteSet(Rivals(r)) /\ Cardinality(Rivals(r)) \in Nat
BY FS_Subset, FS_CardinalityType DEF Rivals

\* Rows that are newer than the row of r were begun by as many rivals of r.
LEMMA NewerAreRivals ==
    ASSUME NEW H, IsFiniteSet(H), NEW r, NEW N, NEW k \in Nat,
           \A p \in N : \E q \in H : q # r /\ q.created >= r.created /\ q.state = p.state,
           \A p, q \in N : p.state = q.state => p = q,
           Cardinality(N) >= k
    PROVE  Cardinality({q \in H : q # r /\ q.created >= r.created}) >= k
<1> DEFINE rivals == {q \in H : q # r /\ q.created >= r.created}
           E == {q \in rivals : \E p \in N : p.state = q.state}
           row == [q \in E |-> CHOOSE p \in N : p.state = q.state]
<1>1. IsFiniteSet(rivals) /\ IsFiniteSet(E) /\ Cardinality(E) <= Cardinality(rivals)
  <2>1. IsFiniteSet(rivals)
    BY FS_Subset
  <2>2. QED
    BY <2>1, FS_Subset
<1>2. row \in Surjection(E, N)
  <2>1. \A q \in E : row[q] \in N /\ row[q].state = q.state
    OBVIOUS
  <2>2. \A p \in N : \E q \in E : row[q] = p
    <3> TAKE p \in N
    <3>1. PICK q \in H : q # r /\ q.created >= r.created /\ q.state = p.state
      OBVIOUS
    <3>2. q \in E
      BY <3>1
    <3>3. row[q] = p
      BY <2>1, <3>1, <3>2
    <3>4. QED
      BY <3>2, <3>3
  <2>3. row \in [E -> N]
    BY <2>1
  <2> HIDE DEF row, E
  <2>4. QED
    BY <2>2, <2>3 DEF Surjection
<1>3. Cardinality(N) <= Cardinality(E) /\ IsFiniteSet(N)
  BY <1>1, <1>2, FS_Surjection
<1>4. Cardinality(N) \in Nat /\ Cardinality(E) \in Nat /\ Cardinality(rivals) \in Nat
  BY <1>1, <1>3, FS_CardinalityType
<1>5. QED
  BY <1>1, <1>3, <1>4

\* A row that a login's purge or trim removes is expired or displaced.
LEMMA StartKeepsAccount ==
    ASSUME AccountInv, LoginInv', NEW w \in Workers, CommitStart(w)
    PROVE  AccountInv'
<1> DEFINE e == [state |-> login[w].state, browser |-> login[w].browser,
                 cookie |-> login[w].cookie, created |-> login[w].stamp]
<1>1. TypeOK /\ StatesFresh /\ RowsRecorded /\ StartsAccounted /\ LoginInv
  BY DEF AccountInv, LoginInv
<1>2. /\ started' = started \cup {e} /\ UNCHANGED <<now, redeemed>>
      /\ lastPending' = lastPending + 1 /\ login[w].stage = "start"
  BY DEF CommitStart
<1>3. /\ Filled(w) \subseteq Row /\ IsFiniteSet(Filled(w))
      /\ \A r \in Filled(w) : r.rowid <= lastPending + 1
      /\ \A q, r \in Filled(w) : q.rowid = r.rowid => q = r
      /\ pending' = Trim(Filled(w)) /\ pending' \subseteq Filled(w)
  BY <1>1, FilledTable DEF AccountInv
<1>4. IsFiniteSet(pending') /\ IsFiniteSet(started') /\ RowidsUnique'
  <2>1. IsFiniteSet(pending')
    BY <1>3, FS_Subset
  <2>2. IsFiniteSet(started')
    BY <1>2, FS_AddElement DEF AccountInv
  <2>3. QED
    BY <1>2, <1>3, <2>1, <2>2 DEF RowidsUnique
<1>5. /\ login[w].stamp \in Nat /\ login[w].stamp <= now /\ now \in Nat
      /\ login[w].stamp \in 0 .. MaxTime
  BY <1>1, <1>2, LoginKinds, LoginAssumption DEF StartsAccounted, TypeOK, InStage
<1>6. RowOf(NewRow(w), e) /\ NewRow(w) \in Filled(w) /\ \A p \in Filled(w) : p \in pending \/ p = NewRow(w)
  BY DEF RowOf, NewRow, Filled, Purge
<1> HIDE DEF e
<1>7. \A p \in Filled(w) : \E r \in started' : RowOf(p, r)
  BY <1>1, <1>2, <1>6 DEF StartsAccounted
<1>8. \A p, q \in Filled(w) : p.state = q.state => p = q
  <2>1. \A p \in pending : p.state # NewRow(w).state
    BY <1>1, <1>2 DEF StatesFresh, RowsRecorded, NewRow, InStage
  <2>2. QED
    BY <1>1, <1>6, <2>1 DEF RowsRecorded
<1>9. \A r \in started' : r.created \in Nat
  BY LoginAssumption DEF LoginInv, TypeOK
<1>10. ASSUME NEW p \in Filled(w), p \notin pending', NEW r \in started', RowOf(p, r)
       PROVE  Cardinality(Rivals(r)') >= MaxPending
  <2> DEFINE N == {q \in Filled(w) : Newer(q, p)}
  <2>1. Cardinality(N) >= MaxPending
    <3>1. IsFiniteSet(N) /\ Cardinality(N) \in Nat
      BY <1>3, FS_Subset, FS_CardinalityType
    <3>2. ~(Cardinality(N) < MaxPending)
      BY <1>3, <1>10 DEF Trim
    <3>3. QED
      BY <3>1, <3>2, LoginAssumption
  <2>2. ASSUME NEW q \in N
        PROVE  \E x \in started' : x # r /\ x.created >= r.created /\ x.state = q.state
    <3>1. PICK x \in started' : RowOf(q, x)
      BY <1>7
    <3>2. q # p /\ q.created >= p.created
      BY <1>3, <1>10 DEF Newer, Row
    <3>3. x # r
      BY <1>8, <1>10, <3>1, <3>2 DEF RowOf
    <3>4. QED
      BY <1>10, <3>1, <3>2, <3>3 DEF RowOf
  <2>3. \A q, x \in N : q.state = x.state => q = x
    BY <1>8
  <2> HIDE DEF N
  <2>4. Cardinality({x \in started' : x # r /\ x.created >= r.created}) >= MaxPending
    BY <1>4, <2>1, <2>2, <2>3, NewerAreRivals, LoginAssumption
  <2>5. QED
    BY <2>4 DEF Rivals
<1>11. \A r \in started : Cardinality(Rivals(r)) >= MaxPending => Cardinality(Rivals(r)') >= MaxPending
  <2> TAKE r \in started
  <2>1. Rivals(r) \subseteq Rivals(r)'
    BY <1>2 DEF Rivals
  <2>2. IsFiniteSet(Rivals(r)') /\ Cardinality(Rivals(r)') \in Nat
    BY <1>4, FS_Subset, FS_CardinalityType DEF Rivals
  <2>3. Cardinality(Rivals(r)) <= Cardinality(Rivals(r)') /\ Cardinality(Rivals(r)) \in Nat
    BY <2>1, <2>2, FS_Subset, FS_CardinalityType
  <2>4. QED
    BY <2>2, <2>3, LoginAssumption
<1>12. \A r \in started' :
          \/ \E p \in pending' : RowOf(p, r)
          \/ r.state \in redeemed'
          \/ Expired(r, now')
          \/ Cardinality(Rivals(r)') >= MaxPending
  <2> TAKE r \in started'
  <2>1. ASSUME NEW p \in Filled(w), RowOf(p, r)
        PROVE  (\E x \in pending' : RowOf(x, r)) \/ Cardinality(Rivals(r)') >= MaxPending
    BY <1>10, <2>1
  <2>2. CASE r = e
    BY <1>6, <2>1, <2>2
  <2>3. CASE r \in started /\ \E p \in pending : RowOf(p, r)
    <3>1. PICK p \in pending : RowOf(p, r)
      BY <2>3
    <3>2. CASE p \in Filled(w)
      BY <2>1, <3>1, <3>2
    <3>3. CASE p.consumed
      BY <1>1, <1>2, <3>1, <3>3 DEF RowsRecorded, RowOf
    <3>4. CASE Expired(p, login[w].stamp)
      BY <1>2, <1>5, <1>9, <3>1, <3>4, LoginAssumption DEF Expired, RowOf
    <3>5. QED
      BY <3>2, <3>3, <3>4 DEF Filled, Purge
  <2>4. CASE r \in started /\ ~ \E p \in pending : RowOf(p, r)
    BY <1>1, <1>2, <1>11, <2>4 DEF StartsAccounted
  <2>5. QED
    BY <1>2, <2>2, <2>3, <2>4
<1>13. \A v \in InStage({"start", "callback"})' : login'[v].stamp <= now'
  BY <1>1, <1>2 DEF InStage, CommitStart, Become, TypeOK, StartsAccounted
<1>14. StartsAccounted'
  BY <1>3, <1>7, <1>12, <1>13 DEF StartsAccounted
<1>15. QED
  BY <1>4, <1>14 DEF AccountInv

LEMMA ConsumeKeepsAccount ==
    ASSUME AccountInv, LoginInv', NEW w \in Workers, Consume(w)
    PROVE  AccountInv'
<1>1. TypeOK /\ RowsRecorded /\ StartsAccounted /\ RowidsUnique
  BY DEF AccountInv, LoginInv
<1>2. PICK r \in pending :
          /\ Redeemable(r, login[w])
          /\ pending' = (pending \ {r}) \cup {[r EXCEPT !.consumed = TRUE]}
  BY DEF Consume
<1> DEFINE c == [r EXCEPT !.consumed = TRUE]
<1>3. c.rowid = r.rowid /\ c.state = r.state /\ c.cookie = r.cookie /\ c.created = r.created
  BY <1>1 DEF TypeOK, Row
<1>4. UNCHANGED <<now, lastPending, started>> /\ redeemed' = redeemed \cup {login[w].state}
  BY DEF Consume
<1>5. IsFiniteSet(pending')
  BY <1>2, FS_RemoveElement, FS_AddElement DEF AccountInv
<1> HIDE DEF c
<1>6. pending' = (pending \ {r}) \cup {c}
  BY <1>2 DEF c
<1>7. RowidsUnique'
  BY <1>1, <1>3, <1>4, <1>6 DEF RowidsUnique
<1>8. \A v \in InStage({"start", "callback"})' : login'[v].stamp <= now'
  BY <1>1, <1>4 DEF InStage, Consume, Become, TypeOK, StartsAccounted
<1>9. /\ \A p \in pending' : \E x \in started' : RowOf(p, x)
      /\ \A p \in pending : \E q \in pending' : \A x \in started : RowOf(p, x) => RowOf(q, x)
  BY <1>1, <1>3, <1>4, <1>6 DEF StartsAccounted, RowOf
<1>10. StartsAccounted'
  BY <1>1, <1>4, <1>8, <1>9 DEF StartsAccounted, Expired, Rivals
<1>11. QED
  BY <1>4, <1>5, <1>7, <1>10 DEF AccountInv

LEMMA AccountStep == AccountInv /\ [Next]_vars => AccountInv'
<1> SUFFICES ASSUME AccountInv, [Next]_vars PROVE AccountInv'
  OBVIOUS
<1>1. LoginInv' /\ LoginInv /\ TypeOK
  BY InvStep DEF AccountInv, LoginInv
<1>2. now \in Nat /\ now <= now
  BY <1>1, LoginAssumption DEF TypeOK
<1>3. ASSUME UNCHANGED <<pending, lastPending, started, redeemed>>, now' \in Nat, now <= now',
             \A v \in Workers :
                login'[v].stage \in {"start", "callback"} =>
                   login'[v] = login[v] \/ login'[v].stamp = now
      PROVE  AccountInv'
  <2>1. \A r \in started : Expired(r, now) => Expired(r, now')
    BY <1>1, <1>2, <1>3, LoginAssumption DEF Expired, TypeOK
  <2>2. ASSUME NEW v \in Workers, login'[v].stage \in {"start", "callback"}
        PROVE  login'[v].stamp <= now'
    <3>1. CASE login'[v].stamp = now
      BY <1>3, <3>1
    <3>2. CASE login'[v] = login[v]
      <4>1. login[v].stamp \in Nat /\ login[v].stamp <= now
        BY <1>1, <2>2, <3>2, LoginKinds, LoginAssumption DEF TypeOK, AccountInv, StartsAccounted, InStage
      <4>2. QED
        BY <1>2, <1>3, <3>2, <4>1
    <3>3. QED
      BY <1>3, <2>2, <3>1, <3>2
  <2>3. StartsAccounted'
    BY <1>3, <2>1, <2>2 DEF AccountInv, StartsAccounted, Rivals, InStage
  <2>4. QED
    BY <1>1, <1>3, <2>3 DEF AccountInv, RowidsUnique
<1>4. ASSUME NEW w \in Workers, CommitStart(w) PROVE AccountInv'
  BY <1>1, <1>4, StartKeepsAccount
<1>5. ASSUME NEW w \in Workers, Consume(w) PROVE AccountInv'
  BY <1>1, <1>5, ConsumeKeepsAccount
<1>6. ASSUME NEW w \in Workers, NEW b \in Browsers, NEW s \in States, NEW c \in Cookies,
             StampStart(w, b, s, c)
      PROVE  AccountInv'
  BY <1>1, <1>2, <1>3, <1>6 DEF StampStart, Become, TypeOK
<1>7. ASSUME NEW w \in Workers, NEW b \in Browsers, NEW s \in States, NEW code \in States,
             StampCallback(w, b, s, code)
      PROVE  AccountInv'
  BY <1>1, <1>2, <1>3, <1>7 DEF StampCallback, Become, TypeOK
<1>8. ASSUME NEW w \in Workers,
             \/ Refuse(w) \/ Exchange(w) \/ Fail(w) \/ Deliver(w) \/ LoseResponse(w)
             \/ \E t \in Tokens : CreateSession(w, t)
      PROVE  AccountInv'
  BY <1>1, <1>2, <1>3, <1>8 DEF Refuse, Exchange, Fail, Deliver, LoseResponse, CreateSession, Become, Idle, TypeOK
<1>9. CASE Tick
  BY <1>1, <1>2, <1>3, <1>9 DEF Tick
<1>10. CASE Restart \/ UNCHANGED vars \/ \E b \in Browsers : Forget(b)
  BY <1>1, <1>2, <1>3, <1>10 DEF Restart, Forget, Idle, vars, TypeOK
<1>11. QED
  BY <1>4, <1>5, <1>6, <1>7, <1>8, <1>9, <1>10 DEF Next

LEMMA AccountAlways == Spec => []AccountInv
<1>1. Init => AccountInv
  <2> SUFFICES ASSUME Init PROVE AccountInv
    OBVIOUS
  <2>1. IsFiniteSet(pending) /\ IsFiniteSet(started)
    BY FS_EmptySet DEF Init
  <2>2. QED
    BY <2>1, InvInit DEF Init, AccountInv, RowidsUnique, StartsAccounted, InStage, Idle
<1>2. QED
  BY <1>1, AccountStep, PTL DEF Spec

\* A browser that answers with its own cookie is refused only after its
\* authorization was redeemed, has expired, or was displaced by as many
\* authorizations that are not older as the table holds.
THEOREM NoSpuriousRefusals == Spec => NoSpuriousRefusal
<1>1. ASSUME AccountInv, [Next]_vars, NEW w \in Workers, Refuse(w), NEW r \in started,
             r.state = login[w].state, r.cookie = login[w].cookie,
             r.state \notin redeemed, ~(Cardinality(Rivals(r)) >= MaxPending)
      PROVE  Expired(r, now)
  <2>1. TypeOK /\ RowsRecorded /\ StartsAccounted /\ login[w].stage = "callback"
    BY <1>1 DEF AccountInv, LoginInv, Refuse
  <2>2. CASE \E p \in pending : RowOf(p, r)
    <3>1. PICK p \in pending : RowOf(p, r)
      BY <2>2
    <3>2. ~p.consumed
      BY <1>1, <2>1, <3>1 DEF RowsRecorded, RowOf
    <3>3. Expired(p, login[w].stamp)
      BY <1>1, <3>1, <3>2 DEF Refuse, Redeemable, RowOf
    <3>4. login[w].stamp \in Nat /\ login[w].stamp <= now /\ now \in Nat /\ r.created \in Nat
      BY <1>1, <2>1, LoginKinds, LoginAssumption DEF TypeOK, StartsAccounted, InStage
    <3>5. QED
      BY <3>1, <3>3, <3>4, LoginAssumption DEF Expired, RowOf
  <2>3. QED
    BY <1>1, <2>1, <2>2 DEF StartsAccounted
<1>2. AccountInv /\ [Next]_vars =>
          \A w \in Workers : Refuse(w) =>
             \A r \in started :
                r.state = login[w].state /\ r.cookie = login[w].cookie =>
                   \/ r.state \in redeemed
                   \/ Expired(r, now)
                   \/ Cardinality(Rivals(r)) >= MaxPending
  BY <1>1
<1>3. QED
  BY <1>2, AccountAlways, PTL DEF Spec, NoSpuriousRefusal
=============================================================================
