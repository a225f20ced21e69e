---------------------------- MODULE OneUseLogin ----------------------------
(***************************************************************************)
(* What the single-sign-on flow promises, without tables, cookies, clocks  *)
(* or threads: an authorization is opened once, may be redeemed once, and  *)
(* a redeemed authorization yields at most one session.  An authorization  *)
(* may be lost at any moment, an open one by expiry or displacement, a     *)
(* redeemed one by a failed exchange or a restart; a lost one never comes  *)
(* back.                                                                   *)
(***************************************************************************)
CONSTANTS States,   \* authorizations (the OAuth state parameter)
          Tokens    \* session tokens

VARIABLES phase,    \* where each authorization stands
          grants    \* the sessions granted, with the authorization behind them

loginVars == <<phase, grants>>

TypeOK ==
    /\ phase \in [States -> {"new", "open", "redeemed", "spent"}]
    /\ grants \subseteq [state : States, token : Tokens]

Init ==
    /\ phase = [s \in States |-> "new"]
    /\ grants = {}

InPhase(p) == {s \in States : phase[s] = p}

Advance(S, p) == [s \in States |-> IF s \in S THEN p ELSE phase[s]]

\* Opening one authorization may cost any of the open ones, itself included.
Open(s) ==
    /\ phase[s] = "new"
    /\ \E lost \in SUBSET (InPhase("open") \cup {s}) :
          phase' = [r \in States |-> IF r \in lost THEN "spent"
                                     ELSE IF r = s THEN "open" ELSE phase[r]]
    /\ UNCHANGED grants

Redeem(s) ==
    /\ phase[s] = "open"
    /\ phase' = Advance({s}, "redeemed")
    /\ UNCHANGED grants

Grant(s, t) ==
    /\ phase[s] = "redeemed"
    /\ \A g \in grants : g.token # t
    /\ phase' = Advance({s}, "spent")
    /\ grants' = grants \cup {[state |-> s, token |-> t]}

\* Redeemed authorizations whose callback dies before it creates a session
Abandon(S) ==
    /\ S \subseteq InPhase("redeemed")
    /\ phase' = Advance(S, "spent")
    /\ UNCHANGED grants

Next ==
    \/ \E s \in States : Open(s) \/ Redeem(s)
    \/ \E s \in States, t \in Tokens : Grant(s, t)
    \/ \E S \in SUBSET States : Abandon(S)

Spec == Init /\ [][Next]_loginVars
=============================================================================
