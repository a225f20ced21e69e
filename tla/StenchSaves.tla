----------------------------- MODULE StenchSaves -----------------------------
(***************************************************************************)
(* The Stench aura of mechanics/stench.py at run time: who owes a save,    *)
(* the queue of saves, the decision that is pending, the continuation that *)
(* resumes what the saves interrupted, and the immunity a success earns    *)
(* for one minute against every source.                                    *)
(*                                                                         *)
(* The encounter engine (StenchRuntimeHost) is outside this repository. It *)
(* moves creatures, starts turns, tells who is inside which emanation and  *)
(* who is active, and does nothing else while a decision is pending.       *)
(***************************************************************************)
EXTENDS OrderedSequences

CONSTANTS
    SourceOrder,   \* the creatures with the aura, as source_abilities lists them
    Creatures,     \* those whose nose the adjudication calls affected
    ImmunitySteps, \* STENCH_IMMUNITY_ROUNDS times the length of the order
    MaxStep,       \* bound on the initiative steps of a behaviour
    NoSave

ASSUME StenchAssumption ==
    /\ SourceOrder \in Seq(Range(SourceOrder))
    /\ \A i, j \in DOMAIN SourceOrder : SourceOrder[i] = SourceOrder[j] => i = j
    /\ ImmunitySteps \in Nat \ {0}
    /\ MaxStep \in Nat
    /\ NoSave \notin Range(SourceOrder) \X Creatures

VARIABLES
    inside,    \* for each creature the sources whose emanation it is in
    active,    \* the sources that are neither defeated nor incapacitated
    step,      \* initiativeStep
    immunity,  \* the temporary-immunity effects: creature and creation step
    sickened,  \* for each creature the sources of its sickened contributions
    queue,     \* pendingSaveQueue: pairs of source and creature
    pending,   \* pendingDecision
    resume,    \* what is to be continued: "stride", "turn-start" or "none"
    exposed,   \* history: the saves owed when what is resolved began,
    saved      \* and those made since

stenchVars == <<inside, active, step, immunity, sickened, queue, pending, resume, exposed, saved>>

Sources == Range(SourceOrder)

StenchInit ==
    /\ inside \in [Creatures -> SUBSET Sources]
    /\ active = Sources
    /\ step = 0
    /\ immunity = {}
    /\ sickened = [c \in Creatures |-> {}]
    /\ queue = <<>>
    /\ pending = NoSave
    /\ resume = "none"
    /\ exposed = {}
    /\ saved = {}

-----------------------------------------------------------------------------

\* target_has_immunity, with the immunity effects there are (or will be); the
\* effect a save is just creating is of the creature of that save, so that
\* looking for it alone (immunityEventInProgress) finds the same.
Immune(c, effects) == \E e \in effects : e.creature = c

\* Mutant of Owes: the immunity a save has just earned is not looked at.
OwesAnyway(s, c, where, effects) == s \in where /\ s \in active

\* The conditions of inside_keys, which activate_next_save_decision asks again
Owes(s, c, where, effects) == s \in where /\ s \in active /\ ~Immune(c, effects)

\* Mutant of Candidates: one save, whatever the number of emanations.
CandidatesFirst(c, some) ==
    LET listed == Selected(SourceOrder, some)
    IN IF listed = <<>> THEN <<>> ELSE <<<<Head(listed), c>>>>

\* The saves of c for the sources in some set, in the order of source_abilities
Candidates(c, some) ==
    LET listed == Selected(SourceOrder, some)
    IN [i \in DOMAIN listed |-> <<listed[i], c>>]

\* The candidates from the first on that is still owed
Remaining(saves, effects) ==
    LET owed == {i \in DOMAIN saves : Owes(saves[i][1], saves[i][2], inside'[saves[i][2]], effects)}
    IN IF owed = {} THEN <<>>
       ELSE SubSeq(saves, CHOOSE i \in owed : \A j \in owed : i <= j, Len(saves))

\* activate_next_save_decision, and the end of the continuation when it finds
\* nothing (queue_save_decisions, finish_resume)
Activate(saves, effects, what) ==
    LET rest == Remaining(saves, effects) IN
    IF rest = <<>> THEN pending' = NoSave /\ queue' = <<>> /\ resume' = "none"
                   ELSE pending' = Head(rest) /\ queue' = Tail(rest) /\ resume' = what

\* queue_save_decisions
QueueSaves(c, sources, what) ==
    /\ Activate(Candidates(c, sources), immunity', what)
    /\ exposed' = sources \X {c}
    /\ saved' = {}

\* One pose of a Stride or Fly of c, which ends inside the emanations of where.
\* entry_candidates_for_pose: a save for every source whose emanation it is in
\* and was not before.  The keys of the last pose come from the host: sources
\* that were inactive then are missing from before.
Pose(c, where, before) ==
    LET entered == {s \in where \ before : Owes(s, c, where, immunity)} IN
    /\ pending = NoSave
    /\ inside' = [inside EXCEPT ![c] = where]
    /\ UNCHANGED <<active, step, immunity, sickened>>
    /\ QueueSaves(c, entered, "stride")

\* Mutant of Expired: the step after the minute counts.
ExpiredLate(e, now) == now > e.from + ImmunitySteps

\* expire_immunities
Expired(e, now) == now >= e.from + ImmunitySteps

\* The turn of c begins: immunities expire, and every emanation it is in asks
\* for a save (start_candidates).
StartTurn(c) ==
    LET left == {e \in immunity : ~Expired(e, step + 1)} IN
    /\ pending = NoSave
    /\ step < MaxStep
    /\ step' = step + 1
    /\ immunity' = left
    /\ UNCHANGED <<inside, active, sickened>>
    /\ QueueSaves(c, {s \in Sources : Owes(s, c, inside[c], left)}, "turn-start")

\* create_immunity, an existing one being replaced
Granted(c) == {e \in immunity : e.creature # c} \cup {[creature |-> c, from |-> step]}

\* resolve_save_decision: success earns immunity against every source, failure
\* a sickened contribution of this source; then the queue goes on.  (A critical
\* failure is a failure here: the slowed condition that comes with it ends with
\* the contribution and decides nothing.)
Resolve(success) ==
    LET s == pending[1]  c == pending[2] IN
    /\ pending # NoSave
    /\ Owes(s, c, inside[c], immunity)
    /\ saved' = saved \cup {pending}
    /\ IF success THEN immunity' = Granted(c) /\ UNCHANGED sickened
                  ELSE sickened' = [sickened EXCEPT ![c] = @ \cup {s}] /\ UNCHANGED immunity
    /\ UNCHANGED <<inside, active, step, exposed>>
    /\ Activate(queue, immunity', resume)

\* apply_retch_immunity_upgrade: Retch ends a contribution of this family and
\* earns the immunity, which replaces the one there is.
Retch(c, s) ==
    /\ pending = NoSave
    /\ s \in sickened[c]
    /\ sickened' = [sickened EXCEPT ![c] = @ \ {s}]
    /\ immunity' = Granted(c)
    /\ UNCHANGED <<inside, active, step, queue, pending, resume, exposed, saved>>

\* A source is defeated, or recovers.
Change(s) ==
    /\ pending = NoSave
    /\ active' = IF s \in active THEN active \ {s} ELSE active \cup {s}
    /\ UNCHANGED <<inside, step, immunity, sickened, queue, pending, resume, exposed, saved>>

StenchNext ==
    \/ \E c \in Creatures, where \in SUBSET Sources :
          \E before \in SUBSET inside[c] : Pose(c, where, before)
    \/ \E c \in Creatures : StartTurn(c)
    \/ \E success \in BOOLEAN : Resolve(success)
    \/ \E c \in Creatures, s \in Sources : Retch(c, s)
    \/ \E s \in Sources : Change(s)

StenchSpec == StenchInit /\ [][StenchNext]_stenchVars

-----------------------------------------------------------------------------
(* Properties *)

\* The life cycle validate_runtime_state demands after every call: what was
\* interrupted waits exactly as long as a save is pending, the queue holds
\* further saves of the same creature, none of them twice, and the pending
\* one can still be resolved.
QueueSound ==
    /\ pending # NoSave <=> resume # "none"
    /\ queue # <<>> => pending # NoSave
    /\ pending # NoSave =>
          LET saves == <<pending>> \o queue IN
          /\ \A i, j \in DOMAIN saves : saves[i] = saves[j] => i = j
          /\ \A i \in DOMAIN saves : saves[i][2] = pending[2]
          /\ pending[1] \in inside[pending[2]] \cap active
          /\ ~ \E e \in immunity : e.creature = pending[2]

\* What the saves interrupted goes on only when every source the creature was
\* exposed to has had its save, unless a success made it immune to the rest.
NobodyEscapes ==
    pending = NoSave =>
        \A x \in exposed \ saved :
            Immune(x[2], immunity) /\ \E y \in saved : y[2] = x[2]

\* An immunity is one per creature, and lasts its minute, neither shorter nor
\* longer: nothing ends it early, unless a newer one takes its place, and none
\* is left when its last step has begun.
ImmuneForAMinute ==
    [][/\ \A e, f \in immunity' : e.creature = f.creature => e = f
       /\ \A e \in immunity' : step' < e.from + ImmunitySteps
       /\ \A e \in immunity \ immunity' :
             \/ step' >= e.from + ImmunitySteps
             \/ \E f \in immunity' : f.creature = e.creature /\ f.from >= e.from]_stenchVars

-----------------------------------------------------------------------------
(* The inductive invariants behind the properties *)

StenchTypes ==
    /\ inside \in [Creatures -> SUBSET Sources]
    /\ active \in SUBSET Sources
    /\ queue \in Seq(Sources \X Creatures)
    /\ pending \in (Sources \X Creatures) \cup {NoSave}
    /\ resume \in {"stride", "turn-start", "none"}

\* While a save is pending, the saves that wait are those owed at the beginning
\* and not made since, and what made them owed still holds.
ExposureAccounted ==
    pending # NoSave =>
        /\ exposed \ saved = Range(<<pending>> \o queue)
        /\ \A x \in exposed : x[2] = pending[2] /\ x[1] \in inside[x[2]] \cap active

StenchInv == StenchTypes /\ QueueSound /\ ExposureAccounted /\ NobodyEscapes

ImmunityInv ==
    /\ step \in Nat
    /\ \A e \in immunity : e.from \in Nat /\ e.from <= step /\ step < e.from + ImmunitySteps
    /\ \A e, f \in immunity : e.creature = f.creature => e = f
=============================================================================
