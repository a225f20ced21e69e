--------------------------- MODULE TrampleActivity ---------------------------
(***************************************************************************)
(* The Trample activity of mechanics/trample.py: start_trample,            *)
(* _advance_trample and resume_trample.  A creature moves along a planned  *)
(* path and tramples everybody it enters: one save each, one shared roll   *)
(* of damage.  Before each step, after each save, before and after each    *)
(* damage the host may open a reaction window; the family then seals what  *)
(* it knows into a continuation, gives it to its caller and forgets it.    *)
(*                                                                         *)
(* The encounter engine (TrampleRuntimeHost) is outside this repository.   *)
(* It is modelled as the family uses it: it decides which windows open and *)
(* what a reaction does, keeps the digest published last, lets begin_resume*)
(* take only that digest, and drops what a failing call did.  The caller   *)
(* may keep every continuation it ever got and present any of them.        *)
(***************************************************************************)
EXTENDS OrderedSequences

CONSTANTS
    Targets,     \* creatures on the map other than the trampler
    PathLength,  \* steps of a plan
    MaxTargets,  \* MAX_RUNTIME_TARGETS
    Rolls,       \* d20 results
    Defences,    \* states of a target's defences
    None

ASSUME TrampleAssumption ==
    /\ PathLength \in Nat \ {0}
    /\ MaxTargets \in Nat \ {0}
    /\ Rolls \subseteq 1 .. 20
    /\ None \notin Rolls
    /\ None \notin [save : Rolls, preview : Defences]

VARIABLES
    body,       \* the activity while a call runs, or None
    window,     \* the reaction window the call has just resolved, or "none"
    sealed,     \* continuations the caller has
    published,  \* the continuation whose digest the host keeps, or None
    world,      \* what the host keeps of the encounter
    before,     \* the host's state when the call began
    report      \* the results of the last complete activity

trampleVars == <<body, window, sealed, published, world, before, report>>

-----------------------------------------------------------------------------
(* Continuations *)

\* The targets a step enters, in the order the plan lists them
Entries == {s \in UNION {[1 .. n -> Targets] : n \in 0 .. 2} :
               \A i, j \in DOMAIN s : s[i] = s[j] => i = j}

\* damage : scaled from a save, with the defences seen by the preview
Damage == [save : Rolls, preview : Defences]

\* steps : movementCursor;  done : targetCursor;  ordinal : stageOrdinal
\* result : of the current target, empty until its damage is applied
NewBody(plan, rolls) ==
    [stage |-> "movement", ordinal |-> 0, plan |-> plan, rolls |-> rolls,
     steps |-> 0, entered |-> <<>>, shared |-> FALSE, done |-> 0,
     save |-> None, damage |-> None, result |-> <<>>, results |-> <<>>]

InitialWorld(defence) ==
    [at      |-> 0,                               \* steps committed
     wounds  |-> [t \in Targets |-> 0],           \* times damage was applied
     save    |-> [t \in Targets |-> None],        \* the save that stands
     defence |-> defence]

TrampleInit ==
    /\ body = None
    /\ window = "none"
    /\ sealed = {}
    /\ published = None
    /\ \E d \in Defences : world = InitialWorld([t \in Targets |-> d])
    /\ before = None
    /\ report = None

\* The target whose turn it is
Current == body.entered[body.done + 1]

Continue(b) == body' = b /\ UNCHANGED <<sealed, published, before, report>>

\* seq with the new ids of a step appended, each once
Enter(seq, ids) ==
    seq \o Selected(ids, Targets \ Range(seq))

\* start_trample: the plan, and one roll for each target the caller expects
\* to be entered.
StartTrample(plan, rolls) ==
    /\ body = None
    /\ published = None
    /\ report = None
    /\ body' = NewBody(plan, rolls)
    /\ before' = [world |-> world, published |-> None]
    /\ UNCHANGED <<window, sealed, published, world, report>>

\* Another activity, of another actor or in another turn
NextActivity ==
    /\ report # None
    /\ report' = None
    /\ sealed' = {}
    /\ world' = InitialWorld(world.defence)
    /\ UNCHANGED <<body, window, published, before>>

\* _suspend_trample: the body is sealed and its digest published.
Suspend(b, stage) ==
    LET sealedBody == [b EXCEPT !.stage = stage, !.ordinal = @ + 1] IN
    /\ sealed' = sealed \cup {sealedBody}
    /\ published' = sealedBody
    /\ body' = None
    /\ before' = None
    /\ UNCHANGED report

\* Any EngineInputError: the host drops what the call did.
FailTrample ==
    /\ body' = None
    /\ window' = "none"
    /\ world' = before.world
    /\ published' = before.published
    /\ before' = None
    /\ UNCHANGED <<sealed, report>>

-----------------------------------------------------------------------------
(* _advance_trample *)

Moving == body # None /\ body.steps < Len(body.plan) /\ body.stage = "movement"

\* A reaction window opens before the next step,
SuspendStep ==
    /\ Moving
    /\ window = "none"
    /\ Suspend(body, "movement-reaction")
    /\ UNCHANGED <<window, world>>

CommitWorld == world' = [world EXCEPT !.at = @ + 1]

Stepped(entered) == [body EXCEPT !.steps = @ + 1, !.entered = entered]

\* or the step is committed, unless it would enter too many,
CommitStep ==
    LET entered == Enter(body.entered, body.plan[body.steps + 1]) IN
    /\ Moving
    /\ window = "none"
    /\ IF Len(entered) <= MaxTargets
       THEN Continue(Stepped(entered)) /\ CommitWorld /\ UNCHANGED window
       ELSE FailTrample

\* and after a resolved window it is committed without another window and
\* without the bound.
ResumeStep ==
    /\ Moving
    /\ window = "movement"
    /\ Continue(Stepped(Enter(body.entered, body.plan[body.steps + 1])))
    /\ CommitWorld
    /\ window' = "none"

AtTargets == body # None /\ body.steps = Len(body.plan)

\* The rolls must be those of the targets entered; the damage is rolled once.
RollDamage ==
    /\ AtTargets
    /\ ~body.shared
    /\ IF DOMAIN body.rolls = {body.entered[i] : i \in DOMAIN body.entered}
       THEN Continue([body EXCEPT !.shared = TRUE, !.stage = "targets"]) /\ UNCHANGED <<window, world>>
       ELSE FailTrample

Trampling == AtTargets /\ body.shared /\ body.done < Len(body.entered)

\* The next target's save; a window may open after it.
RollSave(suspend) ==
    LET roll == body.rolls[Current] IN
    /\ Trampling
    /\ body.save = None
    /\ world' = [world EXCEPT !.save[Current] = roll]
    /\ IF suspend THEN Suspend([body EXCEPT !.save = roll], "save-reaction")
                  ELSE Continue([body EXCEPT !.save = roll])
    /\ UNCHANGED window

\* The damage is scaled to the save and previewed; a window may open, which
\* with several targets is an error.
ScaleDamage(suspend) ==
    LET b == [body EXCEPT !.damage = [save |-> body.save, preview |-> world.defence[Current]]] IN
    /\ Trampling
    /\ body.save # None
    /\ body.damage = None
    /\ IF ~suspend THEN Continue(b) /\ UNCHANGED <<window, world>>
       ELSE IF Len(body.entered) > 1 THEN FailTrample
       ELSE Suspend(b, "damage-reaction") /\ UNCHANGED <<window, world>>

\* The host applies the damage, which must be what the preview said; a window
\* may open when the target is at zero hit points.
ApplyDamage(suspend) ==
    LET b == [body EXCEPT !.result = <<[target |-> Current, save |-> body.save,
                                        damage |-> body.damage]>>] IN
    /\ Trampling
    /\ body.damage # None
    /\ body.result = <<>>
    /\ IF body.damage.preview # world.defence[Current] THEN FailTrample
       ELSE /\ world' = [world EXCEPT !.wounds[Current] = @ + 1]
            /\ IF suspend THEN Suspend(b, "zero-hp-reaction") ELSE Continue(b)
            /\ UNCHANGED window

NextTarget ==
    /\ Trampling
    /\ body.result # <<>>
    /\ Continue([body EXCEPT !.results = @ \o body.result, !.done = @ + 1,
                             !.save = None, !.damage = None, !.result = <<>>])
    /\ UNCHANGED <<window, world>>

\* _complete_trample
CompleteTrample ==
    /\ AtTargets
    /\ body.shared
    /\ body.done = Len(body.entered)
    /\ published' = None
    /\ report' = body.results
    /\ body' = None
    /\ before' = None
    /\ UNCHANGED <<window, sealed, world>>

-----------------------------------------------------------------------------
(* resume_trample *)

\* Mutant of Resumable: begin_resume is not asked.
ResumableAny(c) == TRUE

\* validate_continuation and begin_resume: the digest published last
Resumable(c) == c = published

\* What a reaction may do to the defences of anybody
Reacted(defence) == world' = [world EXCEPT !.defence = defence]

Reopen(c, b, kind) ==
    /\ body = None
    /\ c \in sealed
    /\ Resumable(c)
    /\ body' = b
    /\ window' = kind
    /\ published' = None
    /\ before' = [world |-> world, published |-> published]
    /\ UNCHANGED <<sealed, report>>

ResumeMovement(c, defence) ==
    /\ c.stage = "movement-reaction"
    /\ Reopen(c, [c EXCEPT !.stage = "movement"], "movement")
    /\ Reacted(defence)

\* Mutant of Stands: the save of the sealed body is kept.
StandsSealed(c, roll) == c.save

\* The outcome's roll is the one that counts from here.
Stands(c, roll) == roll

\* The save may be replaced by another roll with the same modifier that is
\* not lower.
ResumeSave(c, roll, defence) ==
    /\ c.stage = "save-reaction"
    /\ roll >= c.save
    /\ Reopen(c, [c EXCEPT !.stage = "targets", !.save = Stands(c, roll)], "none")
    /\ world' = [world EXCEPT !.save[c.entered[c.done + 1]] = roll, !.defence = defence]

\* Mutant of PreviewAgain: the preview of the sealed body is kept.
PreviewAgainNot(c, defence) == c.damage.preview

\* preview_damage_defenses of the target, after the reaction
PreviewAgain(c, defence) == defence[c.entered[c.done + 1]]

ResumeDamage(c, defence) ==
    /\ c.stage = "damage-reaction"
    /\ Reopen(c, [c EXCEPT !.stage = "targets",
                           !.damage.preview = PreviewAgain(c, defence)], "none")
    /\ Reacted(defence)

ResumeZeroHp(c, defence) ==
    /\ c.stage = "zero-hp-reaction"
    /\ Reopen(c, [c EXCEPT !.stage = "targets"], "none")
    /\ Reacted(defence)

\* The decision or its outcome is refused: nothing changes.
Resume(c) ==
    \E defence \in [Targets -> Defences] :
        \/ ResumeMovement(c, defence)
        \/ \E roll \in Rolls : ResumeSave(c, roll, defence)
        \/ ResumeDamage(c, defence)
        \/ ResumeZeroHp(c, defence)

TrampleNext ==
    \/ \E plan \in [1 .. PathLength -> Entries], expected \in SUBSET Targets :
          \E rolls \in [expected -> Rolls] : StartTrample(plan, rolls)
    \/ NextActivity \/ SuspendStep \/ CommitStep \/ ResumeStep \/ RollDamage \/ NextTarget \/ CompleteTrample
    \/ \E suspend \in BOOLEAN :
          RollSave(suspend) \/ ScaleDamage(suspend) \/ ApplyDamage(suspend)
    \/ \E c \in sealed : Resume(c)

TrampleSpec == TrampleInit /\ [][TrampleNext]_trampleVars

-----------------------------------------------------------------------------
(* Properties *)

\* However often the activity is suspended and whichever continuations the
\* caller presents again: no step is committed twice and nobody is damaged
\* twice, and the report of a complete activity is of what happened.  It has
\* everybody a step entered, once, with the save that stood after the last
\* reaction and damage scaled to that very save.
TrampledOnce ==
    /\ world.at <= PathLength
    /\ \A t \in Targets : world.wounds[t] <= 1
    /\ report # None =>
        /\ world.at = PathLength
        /\ \A t \in Targets : world.wounds[t] = Cardinality({i \in DOMAIN report : report[i].target = t})
        /\ \A i \in DOMAIN report :
              /\ report[i].save = world.save[report[i].target]
              /\ report[i].damage.save = report[i].save

\* The damage is applied to the defences its preview saw: a reaction that
\* changed them in between does not make the activity fail at the last step.
PreviewCurrent ==
    body # None /\ body.damage # None /\ body.result = <<>> =>
        body.damage.preview = world.defence[Current]
-----------------------------------------------------------------------------
(* The inductive invariants behind the properties *)

\* A record with these fields, whatever they hold
IsBody(b) ==
    b \in [stage : {b.stage}, ordinal : {b.ordinal}, plan : {b.plan}, rolls : {b.rolls},
           steps : {b.steps}, entered : {b.entered}, shared : {b.shared}, done : {b.done},
           save : {b.save}, damage : {b.damage}, result : {b.result}, results : {b.results}]

IsWorld(w) ==
    w \in [at : {w.at}, wounds : {w.wounds}, save : {w.save}, defence : {w.defence}]

\* What an activity knows at each stage, running or sealed: nothing of a
\* target while it moves, no damage before the save, no window on zero hit
\* points before the damage is applied.
KnownAtStage(b) ==
    /\ b.stage \in {"movement", "movement-reaction"} => b.save = None /\ ~b.shared
    /\ b.save = None \/ b.stage = "save-reaction" => b.damage = None
    /\ b.stage = "damage-reaction" =>
          b.save # None /\ b.damage \in [save : {b.damage.save}, preview : {b.damage.preview}]
    /\ b.stage = "zero-hp-reaction" => b.result # <<>>

TrampleInv ==
    /\ IsWorld(world)
    /\ body # None =>
          /\ IsWorld(before.world)
          /\ IsBody(body) /\ KnownAtStage(body)
          /\ body.stage \in {"movement", "targets"}
    /\ \A c \in sealed : IsBody(c) /\ KnownAtStage(c)
    /\ PreviewCurrent

Stages == {"movement", "movement-reaction", "targets", "save-reaction", "damage-reaction",
           "zero-hp-reaction"}
Result == [target : Targets, save : Rolls, damage : Damage]

RollsOfSome == UNION {[some -> Rolls] : some \in SUBSET Targets}

\* Everything an activity may be, running or sealed
Bodies ==
    [stage : Stages, ordinal : Nat, plan : [1 .. PathLength -> Entries],
     rolls : RollsOfSome,
     steps : 0 .. PathLength, entered : Seq(Targets), shared : BOOLEAN, done : Nat,
     save : Rolls \cup {None}, damage : Damage \cup {None},
     result : Seq(Result), results : Seq(Result)]

ASSUME NoneIsNothing == None \notin Bodies \cup Seq(Result)

\* The targets whose damage has been applied
Wounded(b) ==
    {b.entered[i] : i \in 1 .. b.done} \cup {b.result[i].target : i \in DOMAIN b.result}

\* What an activity has of its targets: nothing before everybody is entered
\* and the damage rolled; then the results of those that are done, and of the
\* current one the result of the save and the damage that are known.
ResultsInOrder(b) ==
    /\ \A i, j \in DOMAIN b.entered : b.entered[i] = b.entered[j] => i = j
    /\ b.shared => /\ b.steps = PathLength
                   /\ DOMAIN b.rolls = Range(b.entered)
                   /\ b.stage \notin {"movement", "movement-reaction"}
    /\ ~b.shared => b.done = 0 /\ b.save = None
    /\ b.done <= Len(b.entered) /\ b.done = Len(b.results)
    /\ \A i \in 1 .. b.done : /\ b.results[i].target = b.entered[i]
                              /\ b.results[i].damage.save = b.results[i].save
    /\ b.save # None => b.done < Len(b.entered)
    /\ b.damage # None => b.save # None /\ b.damage.save = b.save
    /\ b.stage = "save-reaction" => b.save # None /\ b.damage = None
    /\ b.stage = "damage-reaction" => b.damage # None /\ b.result = <<>>
    /\ b.result # <<>> => /\ b.damage # None
                         /\ b.result = <<[target |-> b.entered[b.done + 1], save |-> b.save,
                                          damage |-> b.damage]>>

\* The host's state is what the activity has done so far.
Agrees(b, w) ==
    /\ w.at = b.steps
    /\ w.wounds = [t \in Targets |-> IF t \in Wounded(b) THEN 1 ELSE 0]
    /\ \A i \in 1 .. b.done : w.save[b.entered[i]] = b.results[i].save
    /\ b.save # None => w.save[b.entered[b.done + 1]] = b.save

\* Between two calls only the continuation published last agrees with the
\* host; without one nothing has happened yet.
Kept(b, w) ==
    IF b = None THEN w.at = 0 /\ w.wounds = [t \in Targets |-> 0]
                ELSE b \in Bodies /\ ResultsInOrder(b) /\ Agrees(b, w)

OnceInv ==
    /\ world.save \in [Targets -> Rolls \cup {None}]
    /\ world.defence \in [Targets -> Defences]
    /\ \A c \in sealed : c \in Bodies /\ ResultsInOrder(c)
    /\ body = None /\ report = None => Kept(published, world)
    /\ body # None =>
          /\ report = None /\ published = None
          /\ Kept(body, world)
          /\ Kept(before.published, before.world)
          /\ before.world.save \in [Targets -> Rolls \cup {None}]
          /\ before.world.defence \in [Targets -> Defences]
    /\ report # None => body = None /\ published = None
    /\ TrampledOnce
=============================================================================
