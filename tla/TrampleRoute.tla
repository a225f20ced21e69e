----------------------------- MODULE TrampleRoute -----------------------------
(***************************************************************************)
(* Trample as a compound activity of mechanics/trample.py: the route that  *)
(* _compound_route chooses on the battle map, start_compound_activity, and *)
(* the three stages of resume_compound_activity.  Between two calls the    *)
(* host asks for the damage roll, moves the creature and resolves saves,   *)
(* and others may move, fall or get in the way (the host is not part of    *)
(* this repository).                                                       *)
(***************************************************************************)
EXTENDS OrderedSequences

CONSTANTS
    Width, Height,  \* of the grid
    Footprint,      \* offsets of the squares the trampler occupies
    MaxRun,         \* squares of twice its land Speed
    Blocked,        \* blockedSquares
    CreatureOrder,  \* the ids of the other creatures, sorted
    OtherFootprint, \* and, for each, the offsets of the squares it occupies
    TooLarge,       \* those above maximumSizeRank
    MaxMoves,       \* bound on what happens between the calls
    Gone,           \* the place of a defeated creature
    NoActivity

ASSUME RouteAssumption ==
    /\ Width \in Nat /\ Height \in Nat /\ MaxRun \in Nat /\ MaxMoves \in Nat
    /\ Footprint # {}
    /\ CreatureOrder \in Seq(Range(CreatureOrder))
    /\ \A c \in Range(CreatureOrder) : OtherFootprint[c] # {}
    /\ Gone \notin (0 .. Width - 1) \X (0 .. Height - 1)

VARIABLES
    origin,      \* where the trampler stands
    place,       \* where the others stand
    activity,    \* the checkpoint the host holds, or NoActivity
    others       \* moves of others so far

routeVars == <<origin, place, activity, others>>

Squares == (0 .. Width - 1) \X (0 .. Height - 1)
Others == Range(CreatureOrder)

\* _CARDINAL_DIRECTIONS
Directions == <<<<1, 0>>, <<0, 1>>, <<-1, 0>>, <<0, -1>>>>

\* The squares the trampler occupies n steps from some square
Covered(from, direction, n) ==
    {<<from[1] + n * Directions[direction][1] + o[1],
       from[2] + n * Directions[direction][2] + o[2]>> : o \in Footprint}

\* occupiedSquares of another creature; a defeated one is in nobody's way.
Occupied(c, square) ==
    IF square = Gone THEN {}
    ELSE {<<square[1] + o[1], square[2] + o[2]>> : o \in OtherFootprint[c]}

\* Who is overlapped there, standing at some places
Overlapped(at, from, direction, n) ==
    {c \in Others : Occupied(c, at[c]) \cap Covered(from, direction, n) # {}}

Met(from, direction, n) == Overlapped(place, from, direction, n)

Entered(from, direction, n) == UNION {Met(from, direction, k) : k \in 1 .. n}

\* A run along a line: over free squares of the grid and nobody too large,
\* through somebody and out on the other side.
Passable(from, direction, n) ==
    /\ \A k \in 1 .. n : Covered(from, direction, k) \subseteq Squares \ Blocked
    /\ Entered(from, direction, n) \cap TooLarge = {}
    /\ Entered(from, direction, n) # {}
    /\ Met(from, direction, n) = {}

Runs == {r \in (1 .. 4) \X (1 .. MaxRun) : Passable(origin, r[1], r[2])}

\* The order of the tuples candidates is made of: most entered, then shortest,
\* then the first direction.
Before(r, q) ==
    LET entered(p) == Cardinality(Entered(origin, p[1], p[2])) IN
    \/ entered(r) > entered(q)
    \/ (entered(r) = entered(q) /\ r[2] < q[2])
    \/ entered(r) = entered(q) /\ r[2] = q[2] /\ r[1] < q[1]

\* _compound_route: path and transientOccupantIds
Route ==
    IF Runs = {} THEN NoActivity
    ELSE LET best == CHOOSE r \in Runs : \A q \in Runs \ {r} : Before(r, q)
         IN [run |-> best, census |-> Entered(origin, best[1], best[2])]

-----------------------------------------------------------------------------

\* There is room for c at a square.
Fits(c, square) ==
    LET taken == UNION {Occupied(d, place[d]) : d \in Others \ {c}}
    IN Occupied(c, square) \subseteq Squares \ (taken \cup Covered(origin, 1, 0))

RouteInit ==
    /\ origin \in Squares
    /\ place \in [Others -> Squares \cup {Gone}]
    /\ \A c \in Others : Fits(c, place[c])
    /\ activity = NoActivity
    /\ others = 0

\* start_compound_activity
StartCompound ==
    /\ activity = NoActivity
    /\ Route # NoActivity
    /\ activity' = [stage |-> "damage-pool", route |-> Route, from |-> origin,
                    targets |-> <<>>, cursor |-> 0]
    /\ UNCHANGED <<origin, place, others>>

\* Somebody else moves or is defeated while the activity waits for the host.
OtherMoves(c, to) ==
    /\ activity # NoActivity
    /\ activity.stage \in {"damage-pool", "movement"}
    /\ others < MaxMoves
    /\ to # place[c] /\ Fits(c, to)
    /\ place' = [place EXCEPT ![c] = to]
    /\ others' = others + 1
    /\ UNCHANGED <<origin, activity>>

\* A ValueError: the host gives the activity up.
Refuse == activity' = NoActivity /\ UNCHANGED <<origin, place, others>>

\* The ability, its contract, the damage pool or another result is not as it
\* was sealed.
ResumeRefused == activity # NoActivity /\ Refuse

\* Mutant of SameRoute: the route is not computed again.
SameRouteTrusted == TRUE

SameRoute == Route = activity.route

\* The damage pool is there; the route must still be the one to choose.
ResumeDamagePool ==
    /\ activity # NoActivity
    /\ activity.stage = "damage-pool"
    /\ IF SameRoute
       THEN activity' = [activity EXCEPT !.stage = "movement"] /\ UNCHANGED <<origin, place, others>>
       ELSE Refuse

\* Mutant of SameCensus: any creatures that are not too large will do.
SameCensusAny(entered) == entered # {}

\* The creatures entered must be those of the route.
SameCensus(entered) == entered = activity.route.census

\* By first entry, then by id
FirstEntry(c, direction) == CHOOSE k \in 1 .. MaxRun :
    /\ c \in Met(origin, direction, k)
    /\ \A j \in 1 .. k - 1 : c \notin Met(origin, direction, j)

InOrder(entered, direction) ==
    LET first(c) == FirstEntry(c, direction)
        at(c) == CHOOSE i \in DOMAIN CreatureOrder : CreatureOrder[i] = c
    IN Ordered(entered, {p \in entered \X entered :
                            \/ first(p[1]) < first(p[2])
                            \/ first(p[1]) = first(p[2]) /\ at(p[1]) < at(p[2])})

\* The host moved the creature along the path: the saves of those it entered
\* are asked for, one at a time.
ResumeAfterMove ==
    LET direction == activity.route.run[1]
        n == activity.route.run[2]
        entered == Entered(origin, direction, n)
    IN
    /\ activity # NoActivity
    /\ activity.stage = "movement"
    /\ origin' = <<origin[1] + n * Directions[direction][1], origin[2] + n * Directions[direction][2]>>
    /\ activity' = IF SameCensus(entered)
                   THEN [activity EXCEPT !.stage = "targets", !.targets = InOrder(entered, direction)]
                   ELSE NoActivity
    /\ UNCHANGED <<place, others>>

\* The movement was disrupted: no targets.
MovementDisrupted(n) ==
    LET direction == activity.route.run[1] IN
    /\ activity # NoActivity
    /\ activity.stage = "movement"
    /\ n < activity.route.run[2]
    /\ origin' = <<origin[1] + n * Directions[direction][1], origin[2] + n * Directions[direction][2]>>
    /\ activity' = NoActivity
    /\ UNCHANGED <<place, others>>

\* A target's save and damage; the last one ends the activity.
ResumeTarget ==
    /\ activity # NoActivity
    /\ activity.stage = "targets"
    /\ activity' = IF activity.cursor + 1 < Len(activity.targets)
                   THEN [activity EXCEPT !.cursor = @ + 1] ELSE NoActivity
    /\ UNCHANGED <<origin, place, others>>

RouteNext ==
    \/ StartCompound \/ ResumeDamagePool \/ ResumeAfterMove \/ ResumeTarget \/ ResumeRefused
    \/ \E c \in Others, to \in Squares \cup {Gone} : OtherMoves(c, to)
    \/ \E n \in 0 .. MaxRun : MovementDisrupted(n)

RouteSpec == RouteInit /\ [][RouteNext]_routeVars

-----------------------------------------------------------------------------
(* Properties *)

\* A run from some square meets the targets, when the others are at some
\* places: each once, the first met first, and none of them too large
OnTheWay(targets, at, from, direction, n) ==
    LET met(k) == Overlapped(at, from, direction, k) IN
    /\ Range(targets) = UNION {met(k) : k \in 1 .. n}
    /\ Len(targets) = Cardinality(Range(targets))
    /\ Range(targets) \cap TooLarge = {}
    /\ \A i, j \in DOMAIN targets : i < j =>
          \E k \in 1 .. n : /\ targets[i] \in met(k)
                            /\ \A l \in 1 .. k - 1 : targets[j] \notin met(l)

\* Whatever the others did while the damage was rolled and the creature moved:
\* those who must save are the creatures that stood on the squares crossed,
\* each once and the first met first, and nobody among them is too large.
\* (That the run ends on free squares is left to the host's movement.)
TramplesItsPath ==
    activity # NoActivity /\ activity.stage = "targets" =>
        OnTheWay(activity.targets, place, activity.from, activity.route.run[1], activity.route.run[2])

\* When the movement is asked for, no other straight run would trample more
\* creatures, and none of the same number is shorter: also when somebody
\* moved between the choice of the route and the damage roll.
BestRunTaken ==
    [][(activity # NoActivity /\ activity.stage = "damage-pool" /\ activity' # NoActivity
           /\ activity'.stage = "movement") =>
          LET n == activity.route.run[2]
              some == Cardinality(activity.route.census)
          IN /\ Passable(origin, activity.route.run[1], n)
             /\ \A direction \in 1 .. 4, k \in 1 .. MaxRun :
                   Passable(origin, direction, k) =>
                      LET crossed == Cardinality(Entered(origin, direction, k))
                      IN crossed < some \/ (crossed = some /\ k >= n)]_routeVars

-----------------------------------------------------------------------------
(* The inductive invariants behind the properties *)

\* An activity has the route it began with.
RouteInv ==
    activity # NoActivity =>
        /\ activity \in [stage : {activity.stage}, route : {activity.route}, from : {activity.from},
                         targets : {activity.targets}, cursor : {activity.cursor}]
        /\ activity.route # NoActivity

\* Nobody on the route is too large, and until the movement the trampler is
\* where the route begins.
RouteKept ==
    activity # NoActivity =>
        /\ activity.route.run \in (1 .. 4) \X (1 .. MaxRun)
        /\ activity.route.census \cap TooLarge = {}
        /\ activity.stage \in {"damage-pool", "movement"} => activity.from = origin
        /\ activity.stage \in {"damage-pool", "movement", "targets"}

PathInv == RouteInv /\ RouteKept /\ TramplesItsPath
=============================================================================
