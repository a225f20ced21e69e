----------------------------- MODULE MCEncounter -----------------------------
(* Instances of the mechanics families that keep state between the calls of
   the encounter engine, for TLC: Stench, the Trample activity and the route
   of the compound one.  A behaviour is one of one family; the others rest in
   a fixed initial state. *)
EXTENDS StenchSaves, TrampleActivity, TrampleRoute, TLC

CONSTANTS s1, s2, t1, t2, t3

VARIABLE part

TwoSources == <<s1, s2>>
ThreeCreatures == <<t1, t2, t3>>
Wide == {<<0, 0>>, <<0, 1>>}
Shapes == [t \in {t1, t2, t3} |-> IF t = t2 THEN {<<0, 0>>, <<1, 0>>} ELSE {<<0, 0>>}]

Symmetry == Permutations(Targets) \cup Permutations(Defences) \cup Permutations(Creatures)

EncounterInit ==
    /\ part \in {"stench", "trample", "route"}
    /\ StenchInit /\ TrampleInit /\ RouteInit
    /\ part # "stench" => \A c \in Creatures : inside[c] = {}
    /\ part # "trample" => world.defence = [t \in Targets |-> CHOOSE d \in Defences : TRUE]
    /\ part # "route" => origin = <<0, 0>> /\ \A c \in Others : place[c] = Gone

EncounterNext ==
    /\ UNCHANGED part
    /\ \/ part = "stench" /\ StenchNext /\ UNCHANGED <<trampleVars, routeVars>>
       \/ part = "trample" /\ TrampleNext /\ UNCHANGED <<stenchVars, routeVars>>
       \/ part = "route" /\ RouteNext /\ UNCHANGED <<stenchVars, trampleVars>>

EncounterSpec == EncounterInit /\ [][EncounterNext]_<<part, stenchVars, trampleVars, routeVars>>
==============================================================================
