-------------------------- MODULE MachineIdentity --------------------------
(***************************************************************************)
(* CoreMachineIdentity of scripts/sync_library_cache.py: the assertion the *)
(* synchroniser shows to the Library, exchanged for its machine credential *)
(* and shared by the threads that download assets.  One lock is held over  *)
(* the look at the cached assertion, the exchange and its installation.    *)
(*                                                                         *)
(* The identity service is outside this repository: it fixes the lifetime  *)
(* from the moment it issues, and its answer takes time to arrive.         *)
(***************************************************************************)
EXTENDS Integers

CONSTANTS
    Threads,      \* callers of authorization_header
    Nobody,
    NoAssertion,
    Lifetimes,    \* expires_in, in ticks
    Margin,       \* the thirty seconds of expires_in - 30, in ticks
    MinRefresh,   \* the one second of max(1, ...), in ticks: time.monotonic()
                  \* has fractions of a second, and a tick may be one of them
    MaxClock      \* bound on the clock

ASSUME IdentityAssumption ==
    /\ Nobody \notin Threads
    /\ Lifetimes \subseteq Nat \ {0}
    /\ Margin \in Nat
    /\ MinRefresh \in Nat \ {0}
    /\ MaxClock \in Nat
    /\ NoAssertion \notin [issued : Nat, life : Lifetimes, delay : Nat]

VARIABLES
    clock,       \* time.monotonic()
    assertion,   \* _assertion
    refreshAt,   \* _refresh_at
    holder,      \* who has _lock
    thread       \* what each thread is doing

identityVars == <<clock, assertion, refreshAt, holder, thread>>

Clock == 0 .. MaxClock

\* delay : how long the response that brought it took, as the service saw it
Assertion == [issued : Clock, life : Lifetimes, delay : Clock]

Thread ==
    [stage : {"idle", "waiting", "exchanging"}]
      \cup [stage : {"answered"}, issued : Clock, life : Lifetimes]

\* The longer of two lengths of time
Longer(a, b) == IF a > b THEN a ELSE b

IdentityInit ==
    /\ clock = 0
    /\ assertion = NoAssertion
    /\ refreshAt = 0
    /\ holder = Nobody
    /\ thread = [t \in Threads |-> [stage |-> "idle"]]

Turn(t, s) == thread' = [thread EXCEPT ![t] = s]

\* authorization_header is called.
AskHeader(t) ==
    /\ thread[t].stage = "idle"
    /\ Turn(t, [stage |-> "waiting"])
    /\ UNCHANGED <<clock, assertion, refreshAt, holder>>

\* The cached assertion is handed out.
HandOut(t) ==
    /\ thread[t].stage = "waiting"
    /\ holder = Nobody
    /\ assertion # NoAssertion
    /\ clock < refreshAt
    /\ Turn(t, [stage |-> "idle"])
    /\ UNCHANGED <<clock, assertion, refreshAt, holder>>

\* Mutant of Exchange: the lock is given up for the exchange.
ExchangeUnlocked(t) ==
    /\ thread[t].stage = "waiting"
    /\ assertion = NoAssertion \/ clock >= refreshAt
    /\ Turn(t, [stage |-> "exchanging"])
    /\ UNCHANGED <<clock, assertion, refreshAt, holder>>

\* There is none, or it is due: the credential is sent with the lock held.
Exchange(t) ==
    /\ thread[t].stage = "waiting"
    /\ holder = Nobody
    /\ assertion = NoAssertion \/ clock >= refreshAt
    /\ holder' = t
    /\ Turn(t, [stage |-> "exchanging"])
    /\ UNCHANGED <<clock, assertion, refreshAt>>

\* The service issues an assertion.
IssueAssertion(t) ==
    /\ thread[t].stage = "exchanging"
    /\ \E life \in Lifetimes :
          Turn(t, [stage |-> "answered", issued |-> clock, life |-> life])
    /\ UNCHANGED <<clock, assertion, refreshAt, holder>>

\* Mutant of RefreshTime: the lifetime is used up to its end.
RefreshTimeLate(received, life) == received + life

\* time.monotonic() + max(1, expires_in - 30)
RefreshTime(received, life) == received + Longer(MinRefresh, life - Margin)

\* The response is read, the assertion installed and handed out.
ReceiveAssertion(t) ==
    /\ thread[t].stage = "answered"
    /\ assertion' = [issued |-> thread[t].issued, life |-> thread[t].life,
                     delay |-> clock - thread[t].issued]
    /\ refreshAt' = RefreshTime(clock, thread[t].life)
    /\ holder' = Nobody
    /\ Turn(t, [stage |-> "idle"])
    /\ UNCHANGED clock

\* The exchange fails with SyncFailure: what was installed before stays.
FailExchange(t) ==
    /\ thread[t].stage \in {"exchanging", "answered"}
    /\ holder' = Nobody
    /\ Turn(t, [stage |-> "idle"])
    /\ UNCHANGED <<clock, assertion, refreshAt>>

PassTime ==
    /\ clock < MaxClock
    /\ clock' = clock + 1
    /\ UNCHANGED <<assertion, refreshAt, holder, thread>>

IdentityNext ==
    \/ PassTime
    \/ \E t \in Threads :
          \/ AskHeader(t) \/ HandOut(t) \/ Exchange(t)
          \/ IssueAssertion(t) \/ ReceiveAssertion(t) \/ FailExchange(t)

IdentitySpec == IdentityInit /\ [][IdentityNext]_identityVars

-----------------------------------------------------------------------------
(* Properties *)

\* Life left in an assertion at the time it is put into a header
LifeLeft(a) == a.issued + a.life - clock

\* Both put the assertion installed after the step into the header.
HandsOut(t) == HandOut(t) \/ ReceiveAssertion(t)

\* The response came within the margin, and early enough for the second the
\* assertion is used for at the least.  With expires_in = 1 that is at once: a
\* response that took any time leaves an assertion in use past its end.
InTime(a) == a.delay <= Margin /\ a.delay + MinRefresh <= a.life

\* No header is made of an expired assertion whose response came in time,
\* although its use is measured from the arrival of the response, and its
\* lifetime from the moment it was issued.
NoExpiredHeader ==
    [][\A t \in Threads :
          HandsOut(t) /\ InTime(assertion') => LifeLeft(assertion') > 0]_identityVars

\* The assertion put into headers never goes back to an older one, however many threads find
\* the assertion due at once and however their exchanges are delayed.
HeadersInOrder ==
    [][assertion # NoAssertion => assertion'.issued >= assertion.issued]_identityVars

-----------------------------------------------------------------------------
(* The inductive invariant behind them *)

IdentityTypeOK ==
    /\ clock \in Clock
    /\ assertion \in Assertion \cup {NoAssertion}
    /\ refreshAt \in Nat
    /\ holder \in Threads \cup {Nobody}
    /\ thread \in [Threads -> Thread]

\* Only the holder of the lock is in an exchange.
OneExchange ==
    \A t \in Threads : thread[t].stage \in {"exchanging", "answered"} => holder = t

\* The refresh time of the cached assertion, and nothing issued is newer than
\* an answer still under way.
RefreshInv ==
    /\ assertion # NoAssertion =>
          /\ refreshAt = RefreshTime(assertion.issued + assertion.delay, assertion.life)
          /\ assertion.issued + assertion.delay <= clock
    /\ \A t \in Threads : thread[t].stage = "answered" =>
          /\ thread[t].issued <= clock
          /\ assertion # NoAssertion => assertion.issued <= thread[t].issued

IdentityInv == IdentityTypeOK /\ OneExchange /\ RefreshInv
=============================================================================
