---------------------------- MODULE EncounterProofs ----------------------------
(***************************************************************************)
(* What mechanics/stench.py and mechanics/trample.py guarantee of their    *)
(* state between calls, for any creatures, paths, grids and limits: the    *)
(* queue of saves stays sound and nobody escapes a save (QueueStaysSound,  *)
(* EverySaveMade), immunity lasts its minute (ImmunityLasts), damage is    *)
(* applied to the defences of its preview (PreviewHolds), nobody is        *)
(* trampled twice however often the activity is suspended and resumed      *)
(* (TrampledOnlyOnce), the run that is taken is the best there is          *)
(* (BestRun) and those who must save are the creatures it met, in the      *)
(* order it met them (PathTrampled).                                       *)
(*                                                                         *)
(* All of it rests on what the first section says of a finite set put in   *)
(* an order.                                                               *)
(***************************************************************************)
EXTENDS StenchSaves, TrampleActivity, TrampleRoute, FiniteSetTheorems, NaturalsInduction, TLAPS

-----------------------------------------------------------------------------
(* OrderedSequences *)

\* A finite set has its order: the place of a member is the number of members
\* before it.
LEMMA OrderExists ==
    ASSUME NEW S, IsFiniteSet(S), NEW R,
           \A x \in S : <<x, x>> \notin R,
           \A x, y, z \in S : <<x, y>> \in R /\ <<y, z>> \in R => <<x, z>> \in R,
           \A x, y \in S : x = y \/ <<x, y>> \in R \/ <<y, x>> \in R
    PROVE  /\ Ordered(S, R) \in SetToSeqs(S)
           /\ \A i, j \in DOMAIN Ordered(S, R) :
                 i < j => <<Ordered(S, R)[i], Ordered(S, R)[j]>> \in R
<1> DEFINE n == Cardinality(S)
           below(x) == {y \in S : <<y, x>> \in R}
           position == [x \in S |-> Cardinality(below(x)) + 1]
<1>1. n \in Nat /\ IsFiniteSet(1 .. n) /\ Cardinality(1 .. n) = n
  BY FS_CardinalityType, FS_Interval
<1>2. ASSUME NEW x \in S
      PROVE  IsFiniteSet(below(x)) /\ Cardinality(below(x)) \in Nat /\ position[x] \in 1 .. n
  <2>1. below(x) \in SUBSET (S \ {x})
    OBVIOUS
  <2>2. IsFiniteSet(S \ {x}) /\ Cardinality(S \ {x}) = n - 1
    BY FS_RemoveElement
  <2> HIDE DEF below
  <2>3. IsFiniteSet(below(x)) /\ Cardinality(below(x)) <= n - 1
    BY <2>1, <2>2, FS_Subset
  <2>4. Cardinality(below(x)) \in Nat
    BY <2>3, FS_CardinalityType
  <2>5. QED
    BY <1>1, <2>3, <2>4
<1>3. ASSUME NEW x \in S, NEW y \in S, <<x, y>> \in R
      PROVE  position[x] < position[y]
  <2>1. below(x) \in SUBSET below(y) /\ x \in below(y) /\ x \notin below(x)
    BY <1>3
  <2>2. IsFiniteSet(below(y)) /\ Cardinality(below(x)) \in Nat /\ Cardinality(below(y)) \in Nat
    BY <1>2
  <2> HIDE DEF below
  <2>3. Cardinality(below(x)) <= Cardinality(below(y)) /\ Cardinality(below(x)) # Cardinality(below(y))
    BY <2>1, <2>2, FS_Subset
  <2>4. QED
    BY <2>2, <2>3
<1> HIDE DEF position
<1>4. position \in Injection(S, 1 .. n)
  <2>1. position \in [S -> 1 .. n]
    BY <1>2 DEF position
  <2>2. ASSUME NEW x \in S, NEW y \in S, x # y PROVE position[x] # position[y]
    <3>1. position[x] \in 1 .. n /\ position[y] \in 1 .. n /\ 1 .. n \subseteq Nat
      BY <2>1
    <3>2. <<x, y>> \in R \/ <<y, x>> \in R
      BY <2>2
    <3>3. QED
      BY <1>3, <3>1, <3>2
  <2>3. QED
    BY <2>1, <2>2 DEF Injection, IsInjective
<1>5. position \in Surjection(S, 1 .. n)
  BY <1>1, <1>4, FS_Injection
<1> DEFINE s == [i \in 1 .. n |-> CHOOSE x \in S : position[x] = i]
<1>6. ASSUME NEW i \in 1 .. n PROVE s[i] \in S /\ position[s[i]] = i
  BY <1>5 DEF Surjection
<1> HIDE DEF s
<1>7. DOMAIN s = 1 .. n
  BY DEF s
<1>8. s \in SetToSeqs(S)
  <2>1. s \in [1 .. n -> S]
    BY <1>6 DEF s
  <2>2. \A i, j \in 1 .. n : i # j => s[i] # s[j]
    BY <1>6
  <2>3. QED
    BY <2>1, <2>2 DEF SetToSeqs
<1>9. ASSUME NEW i \in DOMAIN s, NEW j \in DOMAIN s, i < j PROVE <<s[i], s[j]>> \in R
  <2>1. s[i] \in S /\ s[j] \in S /\ position[s[i]] = i /\ position[s[j]] = j /\ i \in Nat /\ j \in Nat
    BY <1>1, <1>6, <1>7
  <2>2. s[i] # s[j] /\ ~(<<s[j], s[i]>> \in R)
    BY <1>3, <1>9, <2>1
  <2>3. QED
    BY <2>1, <2>2
<1>10. QED
  BY <1>8, <1>9 DEF Ordered

\* As many as there are members: everybody is in it, once.
LEMMA SequenceOfSet ==
    ASSUME NEW S, IsFiniteSet(S), NEW s \in SetToSeqs(S)
    PROVE  /\ s \in Seq(S)
           /\ Range(s) = S /\ Len(s) = Cardinality(S)
           /\ \A i, j \in DOMAIN s : s[i] = s[j] => i = j
<1>1. Cardinality(S) \in Nat
  BY FS_CardinalityType
<1>2. s \in [1 .. Cardinality(S) -> S] /\ \A i, j \in 1 .. Cardinality(S) : i # j => s[i] # s[j]
  BY DEF SetToSeqs
<1>3. s \in Seq(S) /\ Len(s) = Cardinality(S) /\ DOMAIN s = 1 .. Cardinality(S)
  BY <1>1, <1>2
<1>4. s \in Injection(1 .. Cardinality(S), S)
  BY <1>2 DEF Injection, IsInjective
<1>5. s \in Surjection(1 .. Cardinality(S), S)
  <2>1. Cardinality(1 .. Cardinality(S)) = Cardinality(S)
    BY <1>1, FS_Interval
  <2>2. QED
    BY <1>4, <2>1, FS_Injection
<1>6. Range(s) = S
  BY <1>3, <1>5 DEF Range, Surjection
<1>7. QED
  BY <1>2, <1>3, <1>6

\* The selected part of a sequence
LEMMA SelectedPart ==
    ASSUME NEW T, NEW seq \in Seq(T), NEW S
    PROVE  /\ Selected(seq, S) \in Seq(T)
           /\ Range(Selected(seq, S)) = Range(seq) \cap S
           /\ (\A i, j \in DOMAIN seq : seq[i] = seq[j] => i = j) =>
                 \A i, j \in DOMAIN Selected(seq, S) :
                    Selected(seq, S)[i] = Selected(seq, S)[j] => i = j
<1> DEFINE I == {i \in DOMAIN seq : seq[i] \in S}
           R == {p \in I \X I : p[1] < p[2]}
           at == Ascending(I)
<1>1. PICK len \in Nat : DOMAIN seq = 1 .. len
  OBVIOUS
<1>2. IsFiniteSet(I) /\ I \in SUBSET Int
  <2>1. IsFiniteSet(1 .. len)
    BY FS_Interval
  <2>2. I \in SUBSET (1 .. len)
    BY <1>1
  <2>3. QED
    BY <2>1, <2>2, FS_Subset
<1>3. at \in SetToSeqs(I)
  <2>1. /\ \A x \in I : <<x, x>> \notin R
        /\ \A x, y \in I : x = y \/ <<x, y>> \in R \/ <<y, x>> \in R
    BY <1>2
  <2>2. \A x, y, z \in I : <<x, y>> \in R /\ <<y, z>> \in R => <<x, z>> \in R
    BY <1>2
  <2> HIDE DEF I, R
  <2>3. Ordered(I, R) \in SetToSeqs(I)
    BY <1>2, <2>1, <2>2, OrderExists
  <2>4. QED
    BY <2>3 DEF Ascending, R
<1> HIDE DEF I
<1>4. /\ at \in Seq(I) /\ Range(at) = I
      /\ \A i, j \in DOMAIN at : at[i] = at[j] => i = j
  BY <1>2, <1>3, SequenceOfSet
<1> HIDE DEF at
<1>5. Selected(seq, S) = [n \in DOMAIN at |-> seq[at[n]]]
  BY DEF Selected, at, I
<1>6. \A n \in DOMAIN at : at[n] \in I /\ at[n] \in DOMAIN seq /\ seq[at[n]] \in T \cap S
  <2>1. \A n \in DOMAIN at : at[n] \in I
    BY <1>4
  <2>2. \A i \in I : i \in DOMAIN seq /\ seq[i] \in S
    BY DEF I
  <2>3. QED
    BY <2>1, <2>2
<1>7. Selected(seq, S) \in Seq(T)
  <2>1. DOMAIN at = 1 .. Len(at) /\ Len(at) \in Nat
    BY <1>4
  <2>2. QED
    BY <1>5, <1>6, <2>1
<1>8. Range(Selected(seq, S)) = Range(seq) \cap S
  <2>1. ASSUME NEW i \in DOMAIN seq, seq[i] \in S
        PROVE  \E n \in DOMAIN at : seq[at[n]] = seq[i]
    <3>1. i \in Range(at)
      BY <1>4, <2>1 DEF I
    <3>2. QED
      BY <3>1 DEF Range
  <2>2. QED
    BY <1>5, <1>6, <2>1 DEF Range
<1>9. QED
  BY <1>4, <1>5, <1>6, <1>7, <1>8

-----------------------------------------------------------------------------
(* StenchSaves *)

LEMMA ImmunityInitial == StenchInit => ImmunityInv
BY DEF StenchInit, ImmunityInv

\* An immunity is granted at the present step, in the place of an older one.
LEMMA GrantStep ==
    ASSUME ImmunityInv, NEW c, UNCHANGED step, immunity' = Granted(c)
    PROVE  /\ ImmunityInv'
           /\ \A e \in immunity \ immunity' :
                 \E f \in immunity' : f.creature = e.creature /\ f.from >= e.from
<1> DEFINE new == [creature |-> c, from |-> step]
<1>1. immunity' = {e \in immunity : e.creature # c} \cup {new}
  BY DEF Granted
<1>2. new.creature = c /\ new.from = step /\ step \in Nat
  BY DEF ImmunityInv
<1>3. ImmunityInv'
  BY <1>1, <1>2, StenchAssumption DEF ImmunityInv
<1>4. ASSUME NEW e \in immunity \ immunity'
      PROVE  new \in immunity' /\ new.creature = e.creature /\ new.from >= e.from
  <2>1. e.creature = c /\ e.from \in Nat /\ e.from <= step
    BY <1>1, <1>4 DEF ImmunityInv
  <2>2. QED
    BY <1>1, <1>2, <2>1
<1>5. QED
  BY <1>3, <1>4

\* Immunities expire at the start of a turn.
LEMMA ExpiryStep ==
    ASSUME ImmunityInv, NEW c \in Creatures, StartTurn(c)
    PROVE  /\ ImmunityInv'
           /\ \A e \in immunity \ immunity' : step' >= e.from + ImmunitySteps
<1>1. /\ step \in Nat /\ step' = step + 1
      /\ immunity' = {e \in immunity : ~Expired(e, step + 1)}
  BY DEF ImmunityInv, StartTurn
<1>2. QED
  BY <1>1, StenchAssumption DEF ImmunityInv, Expired

\* Every step keeps the invariant and what ImmuneForAMinute says of steps.
LEMMA ImmunityStep ==
    ASSUME ImmunityInv, [StenchNext]_stenchVars
    PROVE  /\ ImmunityInv'
           /\ \A e \in immunity \ immunity' :
                 \/ step' >= e.from + ImmunitySteps
                 \/ \E f \in immunity' : f.creature = e.creature /\ f.from >= e.from
<1>1. CASE UNCHANGED <<step, immunity>>
  BY <1>1 DEF ImmunityInv
<1>2. CASE \E c \in Creatures : StartTurn(c)
  BY <1>2, ExpiryStep
<1>3. CASE \E success \in BOOLEAN : Resolve(success)
  <2>1. PICK success \in BOOLEAN : Resolve(success)
    BY <1>3
  <2>2. UNCHANGED step /\ (immunity' = Granted(pending[2]) \/ UNCHANGED immunity)
    BY <2>1 DEF Resolve
  <2>3. QED
    BY <1>1, <2>2, GrantStep
<1>4. CASE \E c \in Creatures, s \in Sources : Retch(c, s)
  BY <1>4, GrantStep DEF Retch
<1>5. QED
  BY <1>1, <1>2, <1>3, <1>4 DEF StenchNext, stenchVars, Pose, Change

LEMMA ImmunityInvariant == StenchSpec => []ImmunityInv
<1>1. ImmunityInv /\ [StenchNext]_stenchVars => ImmunityInv'
  BY ImmunityStep
<1>2. QED
  BY <1>1, ImmunityInitial, PTL DEF StenchSpec

\* An immunity lasts its minute and no longer, or until a newer one of the same
\* creature; nobody has two.
THEOREM ImmunityLasts == StenchSpec => ImmuneForAMinute
<1>1. ImmunityInv /\ [StenchNext]_stenchVars =>
        [/\ \A e, f \in immunity' : e.creature = f.creature => e = f
         /\ \A e \in immunity' : step' < e.from + ImmunitySteps
         /\ \A e \in immunity \ immunity' :
               \/ step' >= e.from + ImmunitySteps
               \/ \E f \in immunity' : f.creature = e.creature /\ f.from >= e.from]_stenchVars
  BY ImmunityStep DEF ImmunityInv
<1>2. QED
  BY <1>1, ImmunityInvariant, PTL DEF StenchSpec, ImmuneForAMinute

\* The candidates are the saves asked for, each once.
LEMMA CandidatesOnce ==
    ASSUME NEW c \in Creatures, NEW some \in SUBSET Sources
    PROVE  /\ Candidates(c, some) \in Seq(Sources \X Creatures)
           /\ Range(Candidates(c, some)) = some \X {c}
           /\ \A i, j \in DOMAIN Candidates(c, some) :
                 Candidates(c, some)[i] = Candidates(c, some)[j] => i = j
<1> DEFINE listed == Selected(SourceOrder, some)
           all == Candidates(c, some)
<1>1. /\ listed \in Seq(Sources) /\ Range(listed) = some
      /\ \A i, j \in DOMAIN listed : listed[i] = listed[j] => i = j
  <2>1. SourceOrder \in Seq(Sources) /\ Range(SourceOrder) = Sources
    BY StenchAssumption DEF Sources
  <2>2. Sources \cap some = some
    OBVIOUS
  <2>3. QED
    BY <2>1, <2>2, SelectedPart, StenchAssumption
<1> HIDE DEF listed
<1>2. all = [i \in DOMAIN listed |-> <<listed[i], c>>]
  BY DEF Candidates, listed
<1> HIDE DEF all
<1>3. DOMAIN listed = 1 .. Len(listed) /\ Len(listed) \in Nat /\ \A i \in DOMAIN listed : listed[i] \in Sources
  BY <1>1
<1>4. all \in Seq(Sources \X Creatures)
  BY <1>2, <1>3
<1>5. Range(all) = some \X {c}
  BY <1>1, <1>2, <1>3 DEF Range
<1>6. QED
  BY <1>1, <1>2, <1>4, <1>5 DEF all

\* Nothing that is still owed is skipped.
LEMMA AllRemain ==
    ASSUME NEW saves \in Seq(Sources \X Creatures), NEW effects,
           \A i \in DOMAIN saves : Owes(saves[i][1], saves[i][2], inside'[saves[i][2]], effects)
    PROVE  Remaining(saves, effects) = saves
<1> DEFINE owed == {i \in DOMAIN saves : Owes(saves[i][1], saves[i][2], inside'[saves[i][2]], effects)}
<1>1. owed = 1 .. Len(saves) /\ Len(saves) \in Nat
  OBVIOUS
<1> HIDE DEF owed
<1>2. CASE saves = <<>>
  <2>1. owed = {}
    BY <1>1, <1>2
  <2>2. QED
    BY <1>2, <2>1 DEF Remaining, owed
<1>3. CASE saves # <<>>
  <2>1. 1 \in owed /\ \A j \in owed : j \in Int /\ 1 <= j
    BY <1>1, <1>3
  <2>2. (CHOOSE i \in owed : \A j \in owed : i <= j) = 1
    BY <2>1
  <2>3. Remaining(saves, effects) = SubSeq(saves, 1, Len(saves))
    BY <2>1, <2>2 DEF Remaining, owed
  <2>4. QED
    BY <1>1, <2>3
<1>4. QED
  BY <1>2, <1>3

\* Nothing is left of a queue that is not owed.
LEMMA NoneRemain ==
    ASSUME NEW saves, NEW effects,
           \A i \in DOMAIN saves : ~Owes(saves[i][1], saves[i][2], inside'[saves[i][2]], effects)
    PROVE  Remaining(saves, effects) = <<>>
BY DEF Remaining

\* What a call leaves behind that has just looked at saves that are all owed
Started(saves, what) ==
    IF saves = <<>> THEN pending' = NoSave /\ queue' = <<>> /\ resume' = "none"
                    ELSE pending' = Head(saves) /\ queue' = Tail(saves) /\ resume' = what

\* Such a call keeps the invariant.
LEMMA StartedSound ==
    ASSUME StenchTypes, inside' \in [Creatures -> SUBSET Sources], UNCHANGED active,
           NEW c \in Creatures, NEW saves \in Seq(Sources \X Creatures),
           NEW what \in {"stride", "turn-start"}, Started(saves, what),
           \A i, j \in DOMAIN saves : saves[i] = saves[j] => i = j,
           exposed' \ saved' = Range(saves),
           \A x \in exposed' : x[2] = c /\ x[1] \in inside'[c] \cap active,
           ~Immune(c, immunity')
    PROVE  StenchInv'
<1>1. ASSUME saves = <<>> PROVE StenchInv'
  <2>1. pending' = NoSave /\ queue' = <<>> /\ resume' = "none"
    BY <1>1 DEF Started
  <2>2. exposed' \ saved' = {}
    BY <1>1 DEF Range
  <2>3. StenchTypes' /\ QueueSound' /\ ExposureAccounted' /\ NobodyEscapes'
    BY <2>1, <2>2 DEF StenchTypes, QueueSound, ExposureAccounted, NobodyEscapes
  <2>4. QED
    BY <2>3 DEF StenchInv
<1>2. ASSUME saves # <<>> PROVE StenchInv'
  <2>1. pending' = Head(saves) /\ queue' = Tail(saves) /\ resume' = what
    BY <1>2 DEF Started
  <2>2. /\ Head(saves) \in Sources \X Creatures /\ Tail(saves) \in Seq(Sources \X Creatures)
        /\ <<Head(saves)>> \o Tail(saves) = saves
        /\ Head(saves) = saves[1] /\ 1 \in DOMAIN saves
    BY <1>2
  <2>3. NoSave \notin Sources \X Creatures
    BY StenchAssumption DEF Sources
  <2>4. StenchTypes'
    BY <2>1, <2>2 DEF StenchTypes
  <2>5. \A i \in DOMAIN saves : saves[i] \in exposed'
    BY DEF Range
  <2>6. pending'[2] = c /\ pending'[1] \in inside'[c] \cap active /\ pending' # NoSave
    BY <2>1, <2>2, <2>3, <2>5
  <2>7. QueueSound'
    BY <2>1, <2>2, <2>5, <2>6 DEF QueueSound, Immune
  <2>8. ExposureAccounted'
    BY <2>1, <2>2, <2>6 DEF ExposureAccounted
  <2>9. QED
    BY <2>4, <2>6, <2>7, <2>8 DEF StenchInv, NobodyEscapes
<1>3. QED
  BY <1>1, <1>2

\* Movement into emanations and the start of a turn: what is asked for is owed.
LEMMA QueueKeeps ==
    ASSUME StenchTypes, inside' \in [Creatures -> SUBSET Sources], UNCHANGED active,
           NEW c \in Creatures, NEW some \in SUBSET Sources, NEW what \in {"stride", "turn-start"},
           QueueSaves(c, some, what),
           \A s \in some : Owes(s, c, inside'[c], immunity')
    PROVE  StenchInv'
<1> DEFINE saves == Candidates(c, some)
<1>1. /\ saves \in Seq(Sources \X Creatures)
      /\ Range(saves) = some \X {c}
      /\ \A i, j \in DOMAIN saves : saves[i] = saves[j] => i = j
  BY CandidatesOnce
<1>2. Activate(saves, immunity', what) /\ exposed' = some \X {c} /\ saved' = {}
  BY DEF QueueSaves
<1> HIDE DEF saves
<1>3. \A i \in DOMAIN saves : saves[i][1] \in some /\ saves[i][2] = c
  BY <1>1 DEF Range
<1>4. Remaining(saves, immunity') = saves
  BY <1>1, <1>3, AllRemain
<1>5. Started(saves, what)
  BY <1>2, <1>4 DEF Activate, Started
<1>6. CASE some = {}
  <2>1. saves = <<>>
    BY <1>1, <1>6 DEF Range
  <2>2. pending' = NoSave /\ queue' = <<>> /\ resume' = "none" /\ exposed' = {}
    BY <1>2, <1>5, <1>6, <2>1 DEF Started
  <2>3. QED
    BY <2>2 DEF StenchInv, StenchTypes, QueueSound, ExposureAccounted, NobodyEscapes
<1>7. CASE some # {}
  <2>1. ~Immune(c, immunity') /\ \A s \in some : s \in inside'[c] \cap active
    BY <1>7 DEF Owes
  <2>2. /\ exposed' \ saved' = Range(saves)
        /\ \A x \in exposed' : x[2] = c /\ x[1] \in inside'[c] \cap active
    BY <1>1, <1>2, <2>1
  <2>3. QED
    BY <1>1, <1>5, <2>1, <2>2, StartedSound
<1>8. QED
  BY <1>6, <1>7

LEMMA PoseKeeps ==
    ASSUME StenchInv, NEW c \in Creatures, NEW where \in SUBSET Sources,
           NEW earlier \in SUBSET inside[c], Pose(c, where, earlier)
    PROVE  StenchInv'
<1> DEFINE entered == {s \in where \ earlier : Owes(s, c, where, immunity)}
<1>1. StenchTypes /\ inside' \in [Creatures -> SUBSET Sources] /\ inside'[c] = where
  BY DEF StenchInv, StenchTypes, Pose
<1>2. UNCHANGED <<active, immunity>> /\ QueueSaves(c, entered, "stride") /\ entered \in SUBSET Sources
  BY DEF Pose
<1>3. \A s \in entered : Owes(s, c, inside'[c], immunity')
  BY <1>1, <1>2
<1> HIDE DEF entered
<1>4. QED
  BY <1>1, <1>2, <1>3, QueueKeeps

LEMMA TurnKeeps ==
    ASSUME StenchInv, NEW c \in Creatures, StartTurn(c)
    PROVE  StenchInv'
<1> DEFINE asked == {s \in Sources : Owes(s, c, inside[c], immunity')}
<1>1. StenchTypes /\ UNCHANGED <<inside, active>> /\ QueueSaves(c, asked, "turn-start")
  BY DEF StenchInv, StartTurn
<1>2. inside' \in [Creatures -> SUBSET Sources] /\ asked \in SUBSET Sources
  BY <1>1 DEF StenchTypes
<1>3. \A s \in asked : Owes(s, c, inside'[c], immunity')
  BY <1>1
<1> HIDE DEF asked
<1>4. QED
  BY <1>1, <1>2, <1>3, QueueKeeps

\* Who is granted the immunity has it, and nobody loses it.
LEMMA GrantedImmune ==
    ASSUME NEW c
    PROVE  Immune(c, Granted(c)) /\ \A d : Immune(d, immunity) => Immune(d, Granted(c))
<1> DEFINE new == [creature |-> c, from |-> step]
<1>1. new \in Granted(c) /\ new.creature = c
  BY DEF Granted
<1>2. \A e \in immunity : e.creature = c \/ e \in Granted(c)
  BY DEF Granted
<1> HIDE DEF new
<1>3. QED
  BY <1>1, <1>2 DEF Immune

\* A success leaves nothing to save against, a failure the rest of the queue.
LEMMA ResolveKeeps ==
    ASSUME StenchInv, NEW success \in BOOLEAN, Resolve(success)
    PROVE  StenchInv'
<1> DEFINE c == pending[2]
<1>1. /\ StenchTypes /\ QueueSound /\ ExposureAccounted
      /\ pending # NoSave /\ pending \in Sources \X Creatures /\ c \in Creatures
      /\ queue \in Seq(Sources \X Creatures)
  BY DEF StenchInv, StenchTypes, Resolve
<1>2. /\ UNCHANGED <<inside, active, exposed>> /\ saved' = saved \cup {pending}
      /\ Activate(queue, immunity', resume)
  BY DEF Resolve
<1> DEFINE waiting == <<pending>> \o queue
<1>3. /\ waiting \in Seq(Sources \X Creatures) /\ Len(waiting) = Len(queue) + 1
      /\ waiting[1] = pending
      /\ \A i \in DOMAIN queue : i + 1 \in DOMAIN waiting /\ waiting[i + 1] = queue[i]
      /\ \A i \in DOMAIN waiting : i = 1 \/ (i - 1 \in DOMAIN queue /\ waiting[i] = queue[i - 1])
  BY <1>1
<1>4. /\ \A i, j \in DOMAIN waiting : waiting[i] = waiting[j] => i = j
      /\ \A i \in DOMAIN waiting : waiting[i][2] = c
      /\ exposed \ saved = Range(waiting)
      /\ \A x \in exposed : x[2] = c /\ x[1] \in inside[c] \cap active
  BY <1>1 DEF QueueSound, ExposureAccounted
<1> HIDE DEF waiting
<1>5. /\ \A i, j \in DOMAIN queue : queue[i] = queue[j] => i = j
      /\ \A i \in DOMAIN queue : queue[i] # pending /\ queue[i][2] = c
  <2>1. ASSUME NEW i \in DOMAIN queue, NEW j \in DOMAIN queue, queue[i] = queue[j] PROVE i = j
    <3>1. i \in Nat /\ j \in Nat /\ i + 1 = j + 1
      BY <1>1, <1>3, <1>4, <2>1
    <3>2. QED
      BY <3>1
  <2>2. ASSUME NEW i \in DOMAIN queue PROVE queue[i] # pending /\ queue[i][2] = c
    <3>1. i \in 1 .. Len(queue) /\ i + 1 # 1 /\ 1 \in DOMAIN waiting
      BY <1>1, <1>3
    <3>2. QED
      BY <1>3, <1>4, <3>1
  <2>3. QED
    BY <2>1, <2>2
<1>6. exposed' \ saved' = Range(queue)
  <2>1. exposed' \ saved' = Range(waiting) \ {pending}
    BY <1>2, <1>4
  <2>2. Range(waiting) = Range(queue) \cup {pending}
    <3>1. 1 \in DOMAIN waiting
      BY <1>1, <1>3
    <3>2. pending \in Range(waiting)
      BY <1>3, <3>1 DEF Range
    <3>3. \A i \in DOMAIN queue : queue[i] \in Range(waiting)
      BY <1>3 DEF Range
    <3>4. \A i \in DOMAIN waiting : waiting[i] \in Range(queue) \cup {pending}
      BY <1>3 DEF Range
    <3>5. QED
      BY <3>2, <3>3, <3>4 DEF Range
  <2>3. pending \notin Range(queue)
    BY <1>5 DEF Range
  <2>4. QED
    BY <2>1, <2>2, <2>3
<1>7. CASE success
  <2>1. Immune(c, immunity')
    BY <1>7, GrantedImmune DEF Resolve
  <2>2. \A i \in DOMAIN queue : ~Owes(queue[i][1], queue[i][2], inside'[queue[i][2]], immunity')
    BY <1>5, <2>1 DEF Owes
  <2>3. pending' = NoSave /\ queue' = <<>> /\ resume' = "none"
    BY <1>2, <2>2, NoneRemain DEF Activate
  <2>4. pending \in saved' /\ \A x \in exposed' : x[2] = c
    BY <1>2, <1>4
  <2>5. NobodyEscapes'
    BY <2>1, <2>4 DEF NobodyEscapes
  <2>6. QED
    BY <1>1, <1>2, <2>3, <2>5 DEF StenchInv, StenchTypes, QueueSound, ExposureAccounted
<1>8. CASE ~success
  <2>1. UNCHANGED immunity /\ ~Immune(c, immunity')
    BY <1>1, <1>8 DEF Resolve, QueueSound, Immune
  <2>2. ASSUME NEW i \in DOMAIN queue
        PROVE  Owes(queue[i][1], queue[i][2], inside'[queue[i][2]], immunity')
    <3>1. queue[i] \in exposed
      BY <1>2, <1>6 DEF Range
    <3>2. QED
      BY <1>2, <1>4, <1>5, <2>1, <3>1 DEF Owes
  <2>3. Remaining(queue, immunity') = queue
    BY <1>1, <2>2, AllRemain
  <2>4. Started(queue, resume)
    BY <1>2, <2>3 DEF Activate, Started
  <2>5. resume \in {"stride", "turn-start"}
    BY <1>1 DEF QueueSound, StenchTypes
  <2>6. QED
    BY <1>1, <1>2, <1>4, <1>5, <1>6, <2>1, <2>4, <2>5, StartedSound DEF StenchTypes
<1>9. QED
  BY <1>7, <1>8

LEMMA StenchInvariant == StenchSpec => []StenchInv
<1>1. StenchInit => StenchInv
  BY DEF StenchInit, StenchInv, StenchTypes, QueueSound, ExposureAccounted, NobodyEscapes
<1>2. ASSUME StenchInv, [StenchNext]_stenchVars PROVE StenchInv'
  <2>1. ASSUME NEW c \in Creatures, NEW s \in Sources, Retch(c, s)
        PROVE  StenchInv'
    <3>1. \A d : Immune(d, immunity) => Immune(d, immunity')
      BY <2>1, GrantedImmune DEF Retch
    <3>2. QED
      BY <1>2, <2>1, <3>1
      DEF Retch, StenchInv, StenchTypes, QueueSound, ExposureAccounted, NobodyEscapes
  <2>2. ASSUME NEW s \in Sources, Change(s)
        PROVE  StenchInv'
    <3>1. active' \in SUBSET Sources
      BY <1>2, <2>2 DEF Change, StenchInv, StenchTypes
    <3>2. QED
      BY <1>2, <2>2, <3>1
      DEF Change, StenchInv, StenchTypes, QueueSound, ExposureAccounted, NobodyEscapes
  <2>3. CASE UNCHANGED stenchVars
    BY <1>2, <2>3
    DEF stenchVars, StenchInv, StenchTypes, QueueSound, ExposureAccounted, NobodyEscapes
  <2>4. QED
    BY <1>2, <2>1, <2>2, <2>3, PoseKeeps, TurnKeeps, ResolveKeeps DEF StenchNext
<1>3. QED
  BY <1>1, <1>2, PTL DEF StenchSpec

\* After every call what was interrupted waits exactly as long as a save is
\* pending, the queue has further saves of the same creature, none twice, and
\* the pending save can still be made.
THEOREM QueueStaysSound == StenchSpec => []QueueSound
BY StenchInvariant, PTL DEF StenchInv

\* What was interrupted goes on when every exposure has had its save, or a
\* success has made the creature immune.
THEOREM EverySaveMade == StenchSpec => []NobodyEscapes
BY StenchInvariant, PTL DEF StenchInv

-----------------------------------------------------------------------------
(* TrampleActivity *)

LEMMA TrampleInitial == TrampleInit => TrampleInv
<1> SUFFICES ASSUME TrampleInit PROVE TrampleInv
  OBVIOUS
<1>1. IsWorld(world)
  BY DEF TrampleInit, InitialWorld, IsWorld
<1>2. QED
  BY <1>1 DEF TrampleInit, TrampleInv, PreviewCurrent

\* What TrampleInv says of a running activity in a world of some defences
Sound(b, defence) ==
    /\ IsBody(b) /\ KnownAtStage(b)
    /\ b.stage \in {"movement", "targets"}
    /\ b.damage # None /\ b.result = <<>> => b.damage.preview = defence[b.entered[b.done + 1]]

\* A step that goes on with a sound activity and seals nothing
LEMMA GoOn ==
    ASSUME TrampleInv, UNCHANGED sealed, IsWorld(before'.world), IsWorld(world'),
           Sound(body', world'.defence)
    PROVE  TrampleInv'
BY DEF TrampleInv, PreviewCurrent, Current, Sound

\* A step that ends the activity
LEMMA Ended ==
    ASSUME TrampleInv, UNCHANGED sealed, IsWorld(world'), body' = None
    PROVE  TrampleInv'
BY DEF TrampleInv, PreviewCurrent

LEMMA FailKeeps ==
    ASSUME TrampleInv, body # None, FailTrample
    PROVE  TrampleInv'
BY Ended DEF TrampleInv, FailTrample

\* A suspension seals what is known at its stage.
LEMMA SuspendKeeps ==
    ASSUME TrampleInv, NEW b, NEW stage, IsBody(b), IsWorld(world'), Suspend(b, stage),
           KnownAtStage([b EXCEPT !.stage = stage, !.ordinal = @ + 1])
    PROVE  TrampleInv'
<1> DEFINE s == [b EXCEPT !.stage = stage, !.ordinal = @ + 1]
<1>1. IsBody(s)
  BY DEF IsBody
<1>2. sealed' = sealed \cup {s} /\ body' = None
  BY DEF Suspend
<1>3. QED
  BY <1>1, <1>2 DEF TrampleInv, PreviewCurrent

\* Worlds with one field changed
LEMMA Worlds ==
    ASSUME TrampleInv, NEW x
    PROVE  /\ IsWorld([world EXCEPT !.at = x]) /\ [world EXCEPT !.at = x].defence = world.defence
           /\ IsWorld([world EXCEPT !.save = x]) /\ [world EXCEPT !.save = x].defence = world.defence
           /\ IsWorld([world EXCEPT !.wounds = x])
           /\ [world EXCEPT !.wounds = x].defence = world.defence
           /\ IsWorld([world EXCEPT !.defence = x]) /\ [world EXCEPT !.defence = x].defence = x
           /\ IsWorld(InitialWorld(x)) /\ InitialWorld(x).defence = x
BY DEF TrampleInv, IsWorld, InitialWorld

LEMMA StartKeeps ==
    ASSUME TrampleInv, NEW plan, NEW rolls, StartTrample(plan, rolls)
    PROVE  TrampleInv'
<1>1. Sound(NewBody(plan, rolls), world'.defence)
  BY DEF NewBody, Sound, IsBody, KnownAtStage
<1>2. body' = NewBody(plan, rolls) /\ before'.world = world /\ UNCHANGED <<world, sealed>>
  BY DEF StartTrample
<1>3. QED
  BY <1>1, <1>2, GoOn DEF TrampleInv

\* Movement: nothing is known of a target yet.
LEMMA MoveKeeps ==
    ASSUME TrampleInv, SuspendStep \/ CommitStep \/ ResumeStep
    PROVE  TrampleInv'
<1>1. /\ body # None /\ body.stage = "movement" /\ IsBody(body) /\ IsWorld(before.world)
      /\ body.save = None /\ body.damage = None /\ ~body.shared
  BY DEF TrampleInv, SuspendStep, CommitStep, ResumeStep, Moving, KnownAtStage
<1>2. ASSUME NEW entered, Continue(Stepped(entered)), CommitWorld
      PROVE  TrampleInv'
  <2>1. Sound(Stepped(entered), world'.defence)
    BY <1>1 DEF Stepped, Sound, IsBody, KnownAtStage
  <2>2. IsWorld(world')
    BY <1>2, Worlds DEF CommitWorld
  <2>3. QED
    BY <1>1, <1>2, <2>1, <2>2, GoOn DEF Continue
<1>3. CASE SuspendStep
  <2>1. KnownAtStage([body EXCEPT !.stage = "movement-reaction", !.ordinal = @ + 1])
    BY <1>1 DEF IsBody, KnownAtStage
  <2>2. QED
    BY <1>1, <1>3, <2>1, SuspendKeeps DEF SuspendStep, TrampleInv
<1>4. CASE CommitStep
  BY <1>1, <1>2, <1>4, FailKeeps DEF CommitStep
<1>5. CASE ResumeStep
  BY <1>2, <1>5 DEF ResumeStep
<1>6. QED
  BY <1>3, <1>4, <1>5

LEMMA RollDamageKeeps ==
    ASSUME TrampleInv, RollDamage
    PROVE  TrampleInv'
<1> DEFINE b == [body EXCEPT !.shared = TRUE, !.stage = "targets"]
<1>1. body # None /\ Sound(body, world.defence) /\ IsWorld(before.world)
  BY DEF TrampleInv, RollDamage, AtTargets, Sound, PreviewCurrent, Current
<1>2. Sound(b, world.defence)
  BY <1>1 DEF Sound, IsBody, KnownAtStage
<1>3. CASE Continue(b) /\ UNCHANGED <<window, world>>
  BY <1>1, <1>2, <1>3, GoOn DEF Continue, TrampleInv
<1>4. QED
  BY <1>1, <1>3, FailKeeps DEF RollDamage

\* One target: its save, its damage, its wounds.
LEMMA RollSaveKeeps ==
    ASSUME TrampleInv, NEW suspend \in BOOLEAN, RollSave(suspend)
    PROVE  TrampleInv'
<1> DEFINE roll == body.rolls[Current]
           b == [body EXCEPT !.save = roll]
<1>1. body # None /\ IsBody(body) /\ IsWorld(before.world) /\ body.damage = None
      /\ body.stage = "targets"
  BY DEF TrampleInv, RollSave, Trampling, AtTargets, KnownAtStage
<1>2. IsBody(b) /\ b.damage = None /\ b.save = roll /\ b.stage = body.stage
  BY <1>1 DEF IsBody
<1>3. world' = [world EXCEPT !.save = [world.save EXCEPT ![Current] = roll]]
  BY DEF RollSave
<1>4. IsWorld(world')
  BY <1>3, Worlds
<1>5. CASE suspend
  <2>1. KnownAtStage([b EXCEPT !.stage = "save-reaction", !.ordinal = @ + 1])
    BY <1>2 DEF IsBody, KnownAtStage
  <2>2. Suspend(b, "save-reaction")
    BY <1>5 DEF RollSave
  <2>3. QED
    BY <1>2, <1>4, <2>1, <2>2, SuspendKeeps
<1>6. CASE ~suspend
  <2>1. Sound(b, world'.defence)
    BY <1>1, <1>2 DEF Sound, KnownAtStage
  <2>2. Continue(b)
    BY <1>6 DEF RollSave
  <2>3. QED
    BY <1>1, <1>4, <2>1, <2>2, GoOn DEF Continue
<1>7. QED
  BY <1>5, <1>6

LEMMA ScaleDamageKeeps ==
    ASSUME TrampleInv, NEW suspend \in BOOLEAN, ScaleDamage(suspend)
    PROVE  TrampleInv'
<1> DEFINE damage == [save |-> body.save, preview |-> world.defence[Current]]
           b == [body EXCEPT !.damage = damage]
<1>1. /\ body # None /\ IsBody(body) /\ IsWorld(before.world) /\ IsWorld(world)
      /\ body.stage = "targets" /\ body.save # None
  BY DEF TrampleInv, ScaleDamage, Trampling, AtTargets, KnownAtStage
<1>2. /\ IsBody(b) /\ b.damage = damage /\ b.save = body.save /\ b.stage = "targets"
      /\ b.entered = body.entered /\ b.done = body.done
  BY <1>1 DEF IsBody
<1>3. CASE Suspend(b, "damage-reaction") /\ UNCHANGED <<window, world>>
  <2>1. KnownAtStage([b EXCEPT !.stage = "damage-reaction", !.ordinal = @ + 1])
    BY <1>1, <1>2 DEF IsBody, KnownAtStage
  <2>2. QED
    BY <1>1, <1>2, <1>3, <2>1, SuspendKeeps
<1>4. CASE Continue(b) /\ UNCHANGED <<window, world>>
  <2>1. Sound(b, world.defence)
    BY <1>1, <1>2 DEF Sound, KnownAtStage, Current
  <2>2. QED
    BY <1>1, <1>4, <2>1, GoOn DEF Continue
<1>5. QED
  BY <1>1, <1>3, <1>4, FailKeeps DEF ScaleDamage

LEMMA ApplyDamageKeeps ==
    ASSUME TrampleInv, NEW suspend \in BOOLEAN, ApplyDamage(suspend)
    PROVE  TrampleInv'
<1> DEFINE outcome == <<[target |-> Current, save |-> body.save, damage |-> body.damage]>>
           b == [body EXCEPT !.result = outcome]
<1>1. /\ body # None /\ IsBody(body) /\ IsWorld(before.world)
      /\ body.stage = "targets" /\ body.save # None
  BY DEF TrampleInv, ApplyDamage, Trampling, AtTargets, KnownAtStage
<1>2. IsBody(b) /\ b.result # <<>> /\ b.save = body.save /\ b.stage = "targets"
  BY <1>1 DEF IsBody
<1>3. CASE FailTrample
  BY <1>1, <1>3, FailKeeps
<1>4. CASE ~FailTrample
  <2>1. world' = [world EXCEPT !.wounds = [world.wounds EXCEPT ![Current] = @ + 1]]
    BY <1>4 DEF ApplyDamage
  <2>2. IsWorld(world')
    BY <2>1, Worlds
  <2>3. CASE suspend
    <3>1. KnownAtStage([b EXCEPT !.stage = "zero-hp-reaction", !.ordinal = @ + 1])
      BY <1>1, <1>2 DEF IsBody, KnownAtStage
    <3>2. Suspend(b, "zero-hp-reaction")
      BY <1>4, <2>3 DEF ApplyDamage
    <3>3. QED
      BY <1>2, <2>2, <3>1, <3>2, SuspendKeeps
  <2>4. CASE ~suspend
    <3>1. Sound(b, world'.defence)
      BY <1>1, <1>2 DEF Sound, KnownAtStage
    <3>2. Continue(b)
      BY <1>4, <2>4 DEF ApplyDamage
    <3>3. QED
      BY <1>1, <2>2, <3>1, <3>2, GoOn DEF Continue
  <2>5. QED
    BY <2>3, <2>4
<1>5. QED
  BY <1>3, <1>4

LEMMA NextTargetKeeps ==
    ASSUME TrampleInv, NextTarget
    PROVE  TrampleInv'
<1> DEFINE b == [body EXCEPT !.results = @ \o body.result, !.done = @ + 1,
                             !.save = None, !.damage = None, !.result = <<>>]
<1>1. /\ IsBody(body) /\ IsWorld(before.world) /\ IsWorld(world) /\ body.stage = "targets"
  BY DEF TrampleInv, NextTarget, Trampling, AtTargets, KnownAtStage
<1>2. IsBody(b) /\ b.damage = None /\ b.stage = "targets"
  BY <1>1 DEF IsBody
<1>3. Sound(b, world.defence)
  BY <1>2 DEF Sound, KnownAtStage
<1>4. QED
  BY <1>1, <1>3, GoOn DEF NextTarget, Continue

\* A resumed activity goes on from what was sealed, in the defences the
\* reaction left.
LEMMA ResumeKeeps ==
    ASSUME TrampleInv, NEW c \in sealed, Resume(c)
    PROVE  TrampleInv'
<1>1. PICK defence \in [Targets -> Defences] :
        \/ ResumeMovement(c, defence)
        \/ \E roll \in Rolls : ResumeSave(c, roll, defence)
        \/ ResumeDamage(c, defence)
        \/ ResumeZeroHp(c, defence)
  BY DEF Resume
<1>2. IsBody(c) /\ KnownAtStage(c) /\ IsWorld(world)
  BY DEF TrampleInv
<1>3. ASSUME NEW b, NEW kind, Reopen(c, b, kind), IsWorld(world'), Sound(b, world'.defence)
      PROVE  TrampleInv'
  BY <1>2, <1>3, GoOn DEF Reopen
<1>4. CASE ResumeMovement(c, defence)
  <2>1. IsWorld(world')
    BY <1>4, Worlds DEF ResumeMovement, Reacted
  <2>2. Sound([c EXCEPT !.stage = "movement"], world'.defence)
    BY <1>2, <1>4 DEF ResumeMovement, Sound, IsBody, KnownAtStage
  <2>3. QED
    BY <1>3, <1>4, <2>1, <2>2 DEF ResumeMovement
<1>5. CASE \E roll \in Rolls : ResumeSave(c, roll, defence)
  <2>1. PICK roll \in Rolls : ResumeSave(c, roll, defence)
    BY <1>5
  <2>2. roll # None /\ c.stage = "save-reaction" /\ c.damage = None
    BY <1>2, <2>1, TrampleAssumption DEF ResumeSave, KnownAtStage
  <2>3. IsWorld(world')
    BY <1>2, <2>1 DEF ResumeSave, IsWorld
  <2>4. Sound([c EXCEPT !.stage = "targets", !.save = Stands(c, roll)], world'.defence)
    BY <1>2, <2>2 DEF Sound, IsBody, KnownAtStage
  <2>5. QED
    BY <1>3, <2>1, <2>3, <2>4 DEF ResumeSave
<1>6. CASE ResumeDamage(c, defence)
  <2> DEFINE b == [c EXCEPT !.stage = "targets",
                            !.damage = [c.damage EXCEPT !.preview = PreviewAgain(c, defence)]]
  <2>1. IsWorld(world') /\ world'.defence = defence
    BY <1>6, Worlds DEF ResumeDamage, Reacted
  <2>2. /\ c.stage = "damage-reaction" /\ c.save # None
        /\ c.damage \in [save : {c.damage.save}, preview : {c.damage.preview}]
    BY <1>2, <1>6 DEF ResumeDamage, KnownAtStage
  <2>3. /\ IsBody(b) /\ b.stage = "targets" /\ b.save = c.save
        /\ b.entered = c.entered /\ b.done = c.done
        /\ b.damage = [c.damage EXCEPT !.preview = PreviewAgain(c, defence)]
    BY <1>2 DEF IsBody
  <2>4. b.damage.preview = PreviewAgain(c, defence)
    BY <2>2, <2>3
  <2>5. Sound(b, defence)
    BY <2>2, <2>3, <2>4 DEF Sound, KnownAtStage, PreviewAgain
  <2>6. QED
    BY <1>3, <1>6, <2>1, <2>5 DEF ResumeDamage
<1>7. CASE ResumeZeroHp(c, defence)
  <2>1. IsWorld(world')
    BY <1>7, Worlds DEF ResumeZeroHp, Reacted
  <2>2. Sound([c EXCEPT !.stage = "targets"], world'.defence)
    BY <1>2, <1>7 DEF ResumeZeroHp, Sound, IsBody, KnownAtStage
  <2>3. QED
    BY <1>3, <1>7, <2>1, <2>2 DEF ResumeZeroHp
<1>8. QED
  BY <1>1, <1>4, <1>5, <1>6, <1>7

LEMMA TrampleInvariant == TrampleSpec => []TrampleInv
<1>1. ASSUME TrampleInv, [TrampleNext]_trampleVars PROVE TrampleInv'
  <2>1. CASE NextActivity
    <3>1. world' = InitialWorld(world.defence) /\ sealed' = {} /\ UNCHANGED <<body, before>>
      BY <2>1 DEF NextActivity
    <3>2. IsWorld(world') /\ world'.defence = world.defence
      BY <1>1, <3>1, Worlds
    <3>3. QED
      BY <1>1, <3>1, <3>2 DEF TrampleInv, PreviewCurrent, Current
  <2>2. CASE CompleteTrample
    BY <1>1, <2>2, Ended DEF CompleteTrample, TrampleInv
  <2>3. CASE UNCHANGED trampleVars
    BY <1>1, <2>3 DEF trampleVars, TrampleInv, PreviewCurrent, Current
  <2>4. QED
    BY <1>1, <2>1, <2>2, <2>3, StartKeeps, MoveKeeps, RollDamageKeeps, RollSaveKeeps,
       ScaleDamageKeeps, ApplyDamageKeeps, NextTargetKeeps, ResumeKeeps DEF TrampleNext
<1>2. QED
  BY <1>1, TrampleInitial, PTL DEF TrampleSpec

\* Damage is applied to the defences its preview saw, however often the
\* activity was suspended and whatever the reactions changed.
THEOREM PreviewHolds == TrampleSpec => []PreviewCurrent
BY TrampleInvariant, PTL DEF TrampleInv

\* The fields of an activity
LEMMA BodyFields ==
    ASSUME NEW b \in Bodies
    PROVE  /\ b.stage \in Stages /\ b.ordinal \in Nat /\ b.plan \in [1 .. PathLength -> Entries]
           /\ b.rolls \in RollsOfSome /\ b.steps \in 0 .. PathLength /\ b.entered \in Seq(Targets)
           /\ b.shared \in BOOLEAN /\ b.done \in Nat /\ b.save \in Rolls \cup {None}
           /\ b.damage \in Damage \cup {None} /\ b.result \in Seq(Result)
           /\ b.results \in Seq(Result)
BY DEF Bodies

LEMMA BodyShape == ASSUME NEW b \in Bodies PROVE IsBody(b)
BY DEF Bodies, IsBody

LEMMA BodyOfFields ==
    ASSUME NEW b, IsBody(b),
           b.stage \in Stages, b.ordinal \in Nat, b.plan \in [1 .. PathLength -> Entries],
           b.rolls \in RollsOfSome, b.steps \in 0 .. PathLength, b.entered \in Seq(Targets),
           b.shared \in BOOLEAN, b.done \in Nat, b.save \in Rolls \cup {None},
           b.damage \in Damage \cup {None}, b.result \in Seq(Result), b.results \in Seq(Result)
    PROVE  b \in Bodies
BY DEF IsBody, Bodies

LEMMA SealedBody ==
    ASSUME NEW b \in Bodies, NEW stage \in Stages
    PROVE  [b EXCEPT !.stage = stage, !.ordinal = @ + 1] \in Bodies
<1> DEFINE s == [b EXCEPT !.stage = stage, !.ordinal = @ + 1]
<1>1. IsBody(s)
  BY BodyShape DEF IsBody
<1>2. /\ s.stage = stage /\ s.ordinal = b.ordinal + 1 /\ s.plan = b.plan /\ s.rolls = b.rolls
      /\ s.steps = b.steps /\ s.entered = b.entered /\ s.shared = b.shared /\ s.done = b.done
      /\ s.save = b.save /\ s.damage = b.damage /\ s.result = b.result /\ s.results = b.results
  BY BodyShape DEF IsBody
<1>3. /\ b.stage \in Stages /\ b.ordinal \in Nat /\ b.plan \in [1 .. PathLength -> Entries]
      /\ b.rolls \in RollsOfSome /\ b.steps \in 0 .. PathLength /\ b.entered \in Seq(Targets)
      /\ b.shared \in BOOLEAN /\ b.done \in Nat /\ b.save \in Rolls \cup {None}
      /\ b.damage \in Damage \cup {None} /\ b.result \in Seq(Result)
      /\ b.results \in Seq(Result)
  BY BodyFields
<1> HIDE DEF s
<1>4. s.ordinal \in Nat
  BY <1>2, <1>3
<1>5. s \in Bodies
  BY <1>1, <1>2, <1>3, <1>4, BodyOfFields
<1>6. QED
  BY <1>5 DEF s

\* Nobody is entered twice.
LEMMA EnterOnce ==
    ASSUME NEW seq \in Seq(Targets), \A i, j \in DOMAIN seq : seq[i] = seq[j] => i = j,
           NEW ids \in Entries
    PROVE  /\ Enter(seq, ids) \in Seq(Targets)
           /\ \A i, j \in DOMAIN Enter(seq, ids) : Enter(seq, ids)[i] = Enter(seq, ids)[j] => i = j
<1> DEFINE new == Selected(ids, Targets \ Range(seq))
<1>1. ids \in Seq(Targets) /\ \A i, j \in DOMAIN ids : ids[i] = ids[j] => i = j
  <2>1. PICK n \in 0 .. 2 : ids \in [1 .. n -> Targets]
    BY DEF Entries
  <2>2. QED
    BY <2>1 DEF Entries
<1>2. /\ new \in Seq(Targets) /\ Range(new) = Range(ids) \cap (Targets \ Range(seq))
      /\ \A i, j \in DOMAIN new : new[i] = new[j] => i = j
  BY <1>1, SelectedPart
<1> HIDE DEF new
<1>3. \A i \in DOMAIN seq, j \in DOMAIN new : seq[i] # new[j]
  BY <1>2 DEF Range
<1> DEFINE all == seq \o new
<1>4. /\ all \in Seq(Targets) /\ Len(all) = Len(seq) + Len(new)
      /\ \A i \in 1 .. Len(seq) : all[i] = seq[i]
      /\ \A i \in Len(seq) + 1 .. Len(all) : all[i] = new[i - Len(seq)]
  BY <1>2
<1>5. /\ DOMAIN all = 1 .. Len(all) /\ DOMAIN seq = 1 .. Len(seq) /\ DOMAIN new = 1 .. Len(new)
      /\ Len(seq) \in Nat /\ Len(new) \in Nat
  BY <1>2, <1>4
<1> HIDE DEF all
<1>6. ASSUME NEW i \in DOMAIN all, NEW j \in DOMAIN all, all[i] = all[j] PROVE i = j
  <2>1. i \in Nat /\ j \in Nat
    BY <1>4, <1>5
  <2>2. CASE i <= Len(seq) /\ j <= Len(seq)
    BY <1>4, <1>5, <1>6, <2>1, <2>2
  <2>3. CASE i > Len(seq) /\ j > Len(seq)
    <3>1. i - Len(seq) \in DOMAIN new /\ j - Len(seq) \in DOMAIN new
      BY <1>4, <1>5, <2>1, <2>3
    <3>2. i \in Len(seq) + 1 .. Len(all) /\ j \in Len(seq) + 1 .. Len(all)
      BY <1>4, <1>5, <2>1, <2>3
    <3> all[i] = new[i - Len(seq)] /\ all[j] = new[j - Len(seq)]
      BY <1>4, <3>2
    <3>3. i - Len(seq) = j - Len(seq)
      BY <1>2, <1>6, <3>1
    <3>4. QED
      BY <1>5, <2>1, <3>3
  <2>4. CASE i <= Len(seq) /\ j > Len(seq)
    <3>1. i \in DOMAIN seq /\ j - Len(seq) \in DOMAIN new
      BY <1>4, <1>5, <2>1, <2>4
    <3>2. all[i] = seq[i] /\ all[j] = new[j - Len(seq)]
      BY <1>4, <1>5, <2>1, <2>4
    <3>3. QED
      BY <1>3, <1>6, <3>1, <3>2
  <2>5. CASE i > Len(seq) /\ j <= Len(seq)
    <3>1. j \in DOMAIN seq /\ i - Len(seq) \in DOMAIN new
      BY <1>4, <1>5, <2>1, <2>5
    <3>2. all[j] = seq[j] /\ all[i] = new[i - Len(seq)]
      BY <1>4, <1>5, <2>1, <2>5
    <3>3. QED
      BY <1>3, <1>6, <3>1, <3>2
  <2>6. QED
    BY <1>5, <2>1, <2>2, <2>3, <2>4, <2>5
<1>7. QED
  BY <1>4, <1>6 DEF Enter, all, new

WorldTyped(w) == w.save \in [Targets -> Rolls \cup {None}] /\ w.defence \in [Targets -> Defences]

\* Wounds are counted at most once, steps up to the end of the plan.
LEMMA KeptBounds ==
    ASSUME NEW b, NEW w, Kept(b, w)
    PROVE  w.at <= PathLength /\ \A t \in Targets : w.wounds[t] <= 1
<1>1. CASE b = None
  BY <1>1, TrampleAssumption DEF Kept
<1>2. CASE b # None
  <2>1. w.at = b.steps /\ w.wounds = [t \in Targets |-> IF t \in Wounded(b) THEN 1 ELSE 0]
    BY <1>2 DEF Kept, Agrees
  <2>2. b.steps \in 0 .. PathLength
    BY <1>2, BodyFields DEF Kept
  <2>3. QED
    BY <2>1, <2>2, TrampleAssumption
<1>3. QED
  BY <1>1, <1>2

\* An activity that goes on as it should
LEMMA GoOnOnce ==
    ASSUME OnceInv, body # None, UNCHANGED <<sealed, published, before, report>>,
           body' \in Bodies, ResultsInOrder(body'), Agrees(body', world'), WorldTyped(world')
    PROVE  OnceInv'
<1>1. body' # None
  BY NoneIsNothing
<1>2. Kept(body', world')
  BY <1>1 DEF Kept
<1>3. QED
  BY <1>1, <1>2, KeptBounds DEF OnceInv, TrampledOnce, WorldTyped

\* A suspension
LEMMA SuspendOnce ==
    ASSUME OnceInv, body # None, NEW b \in Bodies, NEW stage \in Stages, Suspend(b, stage),
           ResultsInOrder([b EXCEPT !.stage = stage, !.ordinal = @ + 1]),
           Agrees(b, world'), WorldTyped(world')
    PROVE  OnceInv'
<1> DEFINE s == [b EXCEPT !.stage = stage, !.ordinal = @ + 1]
<1>1. s \in Bodies /\ s # None
  BY SealedBody, NoneIsNothing
<1>2. /\ s.steps = b.steps /\ s.done = b.done /\ s.entered = b.entered /\ s.save = b.save
      /\ s.result = b.result /\ s.results = b.results
  BY DEF Bodies
<1>3. sealed' = sealed \cup {s} /\ body' = None /\ published' = s /\ UNCHANGED report
  BY DEF Suspend
<1> HIDE DEF s
<1>4. Agrees(s, world')
  BY <1>2 DEF Agrees, Wounded
<1>5. ResultsInOrder(s)
  BY DEF s
<1>6. Kept(published', world')
  BY <1>1, <1>3, <1>4, <1>5 DEF Kept
<1>7. QED
  BY <1>1, <1>3, <1>5, <1>6, KeptBounds DEF OnceInv, TrampledOnce, WorldTyped

\* A failing call leaves what was there before it.
LEMMA FailOnce ==
    ASSUME OnceInv, body # None, FailTrample
    PROVE  OnceInv'
BY KeptBounds DEF OnceInv, FailTrample, TrampledOnce

\* What the invariant says of a running activity
LEMMA Running ==
    ASSUME OnceInv, body # None
    PROVE  body \in Bodies /\ ResultsInOrder(body) /\ Agrees(body, world) /\ WorldTyped(world)
BY DEF OnceInv, Kept, WorldTyped

LEMMA StartOnce ==
    ASSUME OnceInv, NEW plan \in [1 .. PathLength -> Entries], NEW expected \in SUBSET Targets,
           NEW rolls \in [expected -> Rolls], StartTrample(plan, rolls)
    PROVE  OnceInv'
<1> DEFINE b == NewBody(plan, rolls)
<1>1. b \in Bodies
  BY TrampleAssumption DEF NewBody, Bodies, Stages, RollsOfSome
<1>2. ResultsInOrder(b)
  BY DEF NewBody, ResultsInOrder
<1>3. Kept(None, world) /\ WorldTyped(world)
  BY DEF OnceInv, StartTrample, WorldTyped
<1>4. Wounded(b) = {}
  BY DEF NewBody, Wounded
<1>5. Agrees(b, world)
  <2>1. b.steps = 0 /\ b.done = 0 /\ b.save = None
    BY DEF NewBody
  <2>2. world.at = 0 /\ world.wounds = [t \in Targets |-> 0]
    BY <1>3 DEF Kept
  <2> HIDE DEF b
  <2>3. QED
    BY <1>4, <2>1, <2>2 DEF Agrees
<1>6. /\ body' = b /\ before' = [world |-> world, published |-> None] /\ body' # None
      /\ UNCHANGED <<sealed, published, world, report>> /\ published = None /\ report = None
  BY <1>1, NoneIsNothing DEF StartTrample
<1> HIDE DEF b
<1>7. Kept(body', world') /\ Kept(before'.published, before'.world)
  BY <1>1, <1>2, <1>3, <1>5, <1>6 DEF Kept
<1>8. QED
  BY <1>3, <1>6, <1>7, KeptBounds DEF OnceInv, TrampledOnce, WorldTyped

\* Movement
LEMMA MoveOnce ==
    ASSUME OnceInv, SuspendStep \/ CommitStep \/ ResumeStep
    PROVE  OnceInv'
<1>1. /\ body # None /\ body.steps < Len(body.plan) /\ body.stage = "movement"
      /\ body \in Bodies /\ ResultsInOrder(body) /\ Agrees(body, world) /\ WorldTyped(world)
  BY Running DEF SuspendStep, CommitStep, ResumeStep, Moving
<1>2. /\ body.steps \in Nat /\ body.steps < PathLength
      /\ body.plan[body.steps + 1] \in Entries /\ body.entered \in Seq(Targets)
  BY <1>1, TrampleAssumption DEF Bodies
<1>3. ~body.shared /\ body.done = 0 /\ body.save = None /\ body.damage = None /\ body.result = <<>>
      /\ Len(body.results) = 0 /\ \A i, j \in DOMAIN body.entered : body.entered[i] = body.entered[j] => i = j
  BY <1>1 DEF ResultsInOrder
<1>4. CASE SuspendStep
  <2> DEFINE s == [body EXCEPT !.stage = "movement-reaction", !.ordinal = @ + 1]
  <2>1. /\ s.stage = "movement-reaction" /\ s.entered = body.entered /\ s.shared = body.shared
        /\ s.done = body.done /\ s.save = body.save /\ s.damage = body.damage
        /\ s.result = body.result /\ s.results = body.results
    BY <1>1 DEF Bodies
  <2> HIDE DEF s
  <2>2. ResultsInOrder(s)
    BY <1>2, <1>3, <2>1 DEF ResultsInOrder
  <2>3. QED
    BY <1>1, <1>4, <2>2, SuspendOnce DEF SuspendStep, Stages, s
<1>5. ASSUME Continue(Stepped(Enter(body.entered, body.plan[body.steps + 1]))), CommitWorld
      PROVE  OnceInv'
  <2> DEFINE entered == Enter(body.entered, body.plan[body.steps + 1])
             b == Stepped(entered)
  <2>1. entered \in Seq(Targets) /\ \A i, j \in DOMAIN entered : entered[i] = entered[j] => i = j
    BY <1>2, <1>3, EnterOnce
  <2> HIDE DEF entered
  <2>2. b \in Bodies
    <3>1. IsBody(b)
      BY <1>1, BodyShape DEF Stepped, IsBody
    <3>2. /\ b.steps = body.steps + 1 /\ b.entered = entered
          /\ b.stage = body.stage /\ b.ordinal = body.ordinal /\ b.plan = body.plan
          /\ b.rolls = body.rolls /\ b.shared = body.shared /\ b.done = body.done
          /\ b.save = body.save /\ b.damage = body.damage /\ b.result = body.result
          /\ b.results = body.results
      BY <1>1, BodyShape DEF Stepped, IsBody
    <3>3. b.steps \in 0 .. PathLength
      BY <1>2, <3>2, TrampleAssumption
    <3> HIDE DEF b
    <3>4. QED
      BY <1>1, <2>1, <3>1, <3>2, <3>3, BodyFields, BodyOfFields
  <2>3. /\ b.steps = body.steps + 1 /\ b.entered = entered /\ ~b.shared /\ b.done = 0
        /\ b.stage = "movement" /\ b.save = None /\ b.damage = None /\ b.result = <<>>
        /\ Len(b.results) = 0
    BY <1>1, <1>3 DEF Stepped, Bodies
  <2>4. body' = b /\ UNCHANGED <<sealed, published, before, report>>
    BY <1>5 DEF Continue, entered
  <2> HIDE DEF b
  <2>5. ResultsInOrder(b)
    BY <2>1, <2>3 DEF ResultsInOrder
  <2>6. Wounded(b) = {} /\ Wounded(body) = {}
    BY <1>3, <2>3 DEF Wounded
  <2>7. Agrees(b, world')
    BY <1>1, <1>5, <2>3, <2>6 DEF Agrees, CommitWorld
  <2>8. WorldTyped(world')
    BY <1>1, <1>5 DEF WorldTyped, CommitWorld
  <2>9. QED
    BY <1>1, <2>2, <2>4, <2>5, <2>7, <2>8, GoOnOnce
<1>6. CASE CommitStep
  BY <1>1, <1>5, <1>6, FailOnce DEF CommitStep
<1>7. CASE ResumeStep
  BY <1>5, <1>7 DEF ResumeStep
<1>8. QED
  BY <1>4, <1>6, <1>7

\* What is known when the rolls are to be checked, and at a target's turn
LEMMA AtTheTargets ==
    ASSUME TrampleInv, OnceInv, AtTargets
    PROVE  /\ body # None /\ body \in Bodies /\ ResultsInOrder(body) /\ Agrees(body, world)
           /\ WorldTyped(world) /\ IsWorld(world) /\ body.steps = PathLength
           /\ body.stage \in {"movement", "targets"}
<1>1. body # None /\ body \in Bodies /\ ResultsInOrder(body) /\ Agrees(body, world) /\ WorldTyped(world)
  BY Running DEF AtTargets
<1>2. IsWorld(world) /\ body.stage \in {"movement", "targets"}
  BY <1>1 DEF TrampleInv
<1>3. Len(body.plan) = PathLength
  <2>1. body.plan \in [1 .. PathLength -> Entries]
    BY <1>1, BodyFields
  <2>2. QED
    BY <2>1, TrampleAssumption
<1>4. QED
  BY <1>1, <1>2, <1>3 DEF AtTargets

LEMMA AtTheTurn ==
    ASSUME TrampleInv, OnceInv, Trampling
    PROVE  /\ body # None /\ body \in Bodies /\ ResultsInOrder(body) /\ Agrees(body, world)
           /\ WorldTyped(world) /\ IsWorld(world) /\ body.shared /\ body.stage = "targets"
           /\ body.entered \in Seq(Targets) /\ body.done \in Nat
           /\ body.done + 1 \in DOMAIN body.entered /\ Current \in Targets
           /\ \A i \in 1 .. body.done : /\ i \in DOMAIN body.entered
                                        /\ body.entered[i] \in Targets
                                        /\ body.entered[i] # Current
<1>1. AtTargets /\ body.shared /\ body.done < Len(body.entered)
  BY DEF Trampling
<1>2. /\ body # None /\ body \in Bodies /\ ResultsInOrder(body) /\ Agrees(body, world)
      /\ WorldTyped(world) /\ IsWorld(world) /\ body.stage \in {"movement", "targets"}
  BY <1>1, AtTheTargets
<1>3. body.entered \in Seq(Targets) /\ body.done \in Nat
  BY <1>2, BodyFields
<1>4. body.stage = "targets"
  BY <1>1, <1>2 DEF ResultsInOrder
<1>5. body.done + 1 \in DOMAIN body.entered /\ \A i \in 1 .. body.done : i \in DOMAIN body.entered
  BY <1>1, <1>3
<1>6. \A i, j \in DOMAIN body.entered : body.entered[i] = body.entered[j] => i = j
  BY <1>2 DEF ResultsInOrder
<1>7. \A i \in 1 .. body.done : i # body.done + 1
  BY <1>3
<1>8. QED
  BY <1>1, <1>2, <1>3, <1>4, <1>5, <1>6, <1>7 DEF Current

LEMMA RollDamageOnce ==
    ASSUME TrampleInv, OnceInv, RollDamage
    PROVE  OnceInv'
<1> DEFINE b == [body EXCEPT !.shared = TRUE, !.stage = "targets"]
<1>1. /\ body # None /\ body \in Bodies /\ ResultsInOrder(body) /\ Agrees(body, world)
      /\ WorldTyped(world) /\ body.steps = PathLength
  BY AtTheTargets DEF RollDamage
<1>2. CASE FailTrample
  BY <1>1, <1>2, FailOnce
<1>3. CASE ~FailTrample
  <2>1. /\ DOMAIN body.rolls = {body.entered[i] : i \in DOMAIN body.entered} /\ ~body.shared
        /\ body' = b /\ UNCHANGED <<sealed, published, before, report, world>>
    BY <1>3 DEF RollDamage, Continue
  <2>2. /\ IsBody(b) /\ b.stage = "targets" /\ b.ordinal = body.ordinal /\ b.plan = body.plan
        /\ b.rolls = body.rolls /\ b.steps = body.steps /\ b.entered = body.entered
        /\ b.shared = TRUE /\ b.done = body.done /\ b.save = body.save
        /\ b.damage = body.damage /\ b.result = body.result /\ b.results = body.results
    BY <1>1, BodyShape DEF IsBody
  <2> HIDE DEF b
  <2>3. b \in Bodies
    BY <1>1, <2>2, BodyFields, BodyOfFields DEF Stages
  <2>4. ResultsInOrder(b)
    BY <1>1, <2>1, <2>2 DEF ResultsInOrder, Range
  <2>5. Agrees(b, world)
    BY <1>1, <2>2 DEF Agrees, Wounded
  <2>6. QED
    BY <1>1, <2>1, <2>3, <2>4, <2>5, GoOnOnce
<1>4. QED
  BY <1>2, <1>3

LEMMA RollSaveOnce ==
    ASSUME TrampleInv, OnceInv, NEW suspend \in BOOLEAN, RollSave(suspend)
    PROVE  OnceInv'
<1> DEFINE roll == body.rolls[Current]
           b == [body EXCEPT !.save = roll]
<1>1. /\ body # None /\ body \in Bodies /\ ResultsInOrder(body) /\ Agrees(body, world)
      /\ WorldTyped(world) /\ IsWorld(world) /\ body.shared /\ body.stage = "targets"
      /\ body.entered \in Seq(Targets) /\ body.done \in Nat
      /\ body.done + 1 \in DOMAIN body.entered /\ Current \in Targets
      /\ \A i \in 1 .. body.done : body.entered[i] \in Targets /\ body.entered[i] # Current
  BY AtTheTurn DEF RollSave
<1>2. roll \in Rolls /\ roll # None
  <2>1. body.rolls \in RollsOfSome /\ DOMAIN body.rolls = Range(body.entered)
    BY <1>1, BodyFields DEF ResultsInOrder
  <2>2. PICK some \in SUBSET Targets : body.rolls \in [some -> Rolls]
    BY <2>1 DEF RollsOfSome
  <2>3. Current \in DOMAIN body.rolls
    BY <1>1, <2>1 DEF Range, Current
  <2>4. QED
    BY <2>2, <2>3, TrampleAssumption
<1> HIDE DEF roll
<1>3. body.save = None /\ body.damage = None /\ body.result = <<>>
  BY <1>1 DEF RollSave, ResultsInOrder
<1>4. /\ IsBody(b) /\ b.stage = "targets" /\ b.ordinal = body.ordinal /\ b.plan = body.plan
      /\ b.rolls = body.rolls /\ b.steps = body.steps /\ b.entered = body.entered
      /\ b.shared = body.shared /\ b.done = body.done /\ b.save = roll
      /\ b.damage = body.damage /\ b.result = body.result /\ b.results = body.results
  BY <1>1, BodyShape DEF IsBody
<1>5. /\ world'.at = world.at /\ world'.wounds = world.wounds /\ world'.defence = world.defence
      /\ world'.save = [world.save EXCEPT ![Current] = roll]
  BY <1>1 DEF RollSave, IsWorld, roll
<1>6. IF suspend THEN Suspend(b, "save-reaction") ELSE Continue(b)
  BY DEF RollSave, roll
<1> HIDE DEF b
<1>7. b \in Bodies
  BY <1>1, <1>2, <1>4, BodyFields, BodyOfFields DEF Stages
<1>8. Agrees(b, world')
  <2>1. Wounded(b) = Wounded(body)
    BY <1>4 DEF Wounded
  <2>2. world'.save[Current] = roll
    BY <1>1, <1>5 DEF WorldTyped
  <2>3. \A i \in 1 .. body.done : world'.save[body.entered[i]] = world.save[body.entered[i]]
    BY <1>1, <1>5 DEF WorldTyped
  <2>4. QED
    BY <1>1, <1>4, <1>5, <2>1, <2>2, <2>3 DEF Agrees, Current
<1>9. WorldTyped(world')
  BY <1>1, <1>2, <1>5 DEF WorldTyped
<1>10. ASSUME NEW stage \in {"targets", "save-reaction"}, NEW c,
              c.stage = stage, c.entered = b.entered, c.steps = b.steps, c.rolls = b.rolls,
              c.shared = b.shared, c.done = b.done, c.save = b.save, c.damage = b.damage,
              c.result = b.result, c.results = b.results
       PROVE  ResultsInOrder(c)
  <2>1. body.done < Len(body.entered)
    BY <1>1 DEF RollSave, Trampling
  <2>2. QED
    BY <1>1, <1>2, <1>3, <1>4, <1>10, <2>1 DEF ResultsInOrder
<1>11. CASE suspend
  <2>1. ResultsInOrder([b EXCEPT !.stage = "save-reaction", !.ordinal = @ + 1])
    BY <1>4, <1>10 DEF IsBody
  <2>2. QED
    BY <1>1, <1>6, <1>7, <1>8, <1>9, <1>11, <2>1, SuspendOnce DEF Stages
<1>12. CASE ~suspend
  <2>1. ResultsInOrder(b)
    BY <1>4, <1>10
  <2>2. QED
    BY <1>1, <1>6, <1>7, <1>8, <1>9, <1>12, <2>1, GoOnOnce DEF Continue, RollSave
<1>13. QED
  BY <1>11, <1>12

LEMMA ScaleDamageOnce ==
    ASSUME TrampleInv, OnceInv, NEW suspend \in BOOLEAN, ScaleDamage(suspend)
    PROVE  OnceInv'
<1> DEFINE damage == [save |-> body.save, preview |-> world.defence[Current]]
           b == [body EXCEPT !.damage = damage]
<1>1. /\ body # None /\ body \in Bodies /\ ResultsInOrder(body) /\ Agrees(body, world)
      /\ WorldTyped(world) /\ body.shared /\ body.stage = "targets" /\ Current \in Targets
  BY AtTheTurn DEF ScaleDamage
<1>2. body.save # None /\ body.damage = None /\ body.result = <<>>
  BY <1>1 DEF ScaleDamage, ResultsInOrder
<1>3. damage \in Damage /\ damage # None /\ damage.save = body.save
  <2>1. body.save \in Rolls /\ world.defence[Current] \in Defences
    BY <1>1, <1>2, BodyFields DEF WorldTyped
  <2>2. QED
    BY <2>1, TrampleAssumption DEF Damage
<1>4. /\ IsBody(b) /\ b.stage = "targets" /\ b.ordinal = body.ordinal /\ b.plan = body.plan
      /\ b.rolls = body.rolls /\ b.steps = body.steps /\ b.entered = body.entered
      /\ b.shared = body.shared /\ b.done = body.done /\ b.save = body.save
      /\ b.damage = damage /\ b.result = body.result /\ b.results = body.results
  BY <1>1, BodyShape DEF IsBody
<1>5. \/ FailTrample
      \/ Suspend(b, "damage-reaction") /\ UNCHANGED world
      \/ Continue(b) /\ UNCHANGED world
  BY DEF ScaleDamage
<1> HIDE DEF b, damage
<1>6. b \in Bodies
  BY <1>1, <1>3, <1>4, BodyFields, BodyOfFields DEF Stages
<1>7. Agrees(b, world)
  BY <1>1, <1>4 DEF Agrees, Wounded
<1>8. ASSUME NEW stage \in {"targets", "damage-reaction"}, NEW c, c.stage = stage, c.entered = b.entered,
             c.steps = b.steps, c.rolls = b.rolls, c.shared = b.shared, c.done = b.done,
             c.save = b.save, c.damage = b.damage, c.result = b.result, c.results = b.results
      PROVE  ResultsInOrder(c)
  BY <1>1, <1>2, <1>3, <1>4, <1>8 DEF ResultsInOrder
<1>9. CASE Suspend(b, "damage-reaction") /\ UNCHANGED world
  <2>1. ResultsInOrder([b EXCEPT !.stage = "damage-reaction", !.ordinal = @ + 1])
    BY <1>4, <1>8 DEF IsBody
  <2>2. QED
    BY <1>1, <1>6, <1>7, <1>9, <2>1, SuspendOnce DEF Stages
<1>10. CASE Continue(b) /\ UNCHANGED world
  <2>1. ResultsInOrder(b)
    BY <1>4, <1>8
  <2>2. QED
    BY <1>1, <1>6, <1>7, <1>10, <2>1, GoOnOnce DEF Continue
<1>11. QED
  BY <1>1, <1>5, <1>9, <1>10, FailOnce

LEMMA ApplyDamageOnce ==
    ASSUME TrampleInv, OnceInv, NEW suspend \in BOOLEAN, ApplyDamage(suspend)
    PROVE  OnceInv'
<1> DEFINE outcome == [target |-> Current, save |-> body.save, damage |-> body.damage]
           b == [body EXCEPT !.result = <<outcome>>]
<1>1. /\ body # None /\ body \in Bodies /\ ResultsInOrder(body) /\ Agrees(body, world)
      /\ WorldTyped(world) /\ IsWorld(world) /\ body.shared /\ body.stage = "targets"
      /\ Current \in Targets
      /\ \A i \in 1 .. body.done : body.entered[i] \in Targets /\ body.entered[i] # Current
  BY AtTheTurn DEF ApplyDamage
<1>2. body.damage # None /\ body.save # None /\ body.result = <<>>
  BY <1>1 DEF ApplyDamage, ResultsInOrder
<1>3. <<outcome>> \in Seq(Result) /\ outcome.target = Current
  <2>1. body.save \in Rolls /\ body.damage \in Damage
    BY <1>1, <1>2, BodyFields
  <2>2. outcome \in Result
    BY <1>1, <2>1 DEF Result
  <2>3. QED
    BY <2>2
<1>4. /\ IsBody(b) /\ b.stage = "targets" /\ b.ordinal = body.ordinal /\ b.plan = body.plan
      /\ b.rolls = body.rolls /\ b.steps = body.steps /\ b.entered = body.entered
      /\ b.shared = body.shared /\ b.done = body.done /\ b.save = body.save
      /\ b.damage = body.damage /\ b.result = <<outcome>> /\ b.results = body.results
  BY <1>1, BodyShape DEF IsBody
<1>5. CASE FailTrample
  BY <1>1, <1>5, FailOnce
<1>6. CASE ~FailTrample
  <2>1. /\ world'.at = world.at /\ world'.save = world.save /\ world'.defence = world.defence
        /\ world'.wounds = [world.wounds EXCEPT ![Current] = @ + 1]
    BY <1>1, <1>6 DEF ApplyDamage, IsWorld
  <2>2. IF suspend THEN Suspend(b, "zero-hp-reaction") ELSE Continue(b)
    BY <1>6 DEF ApplyDamage
  <2>3. b.result = <<[target |-> b.entered[b.done + 1], save |-> b.save, damage |-> b.damage]>>
    BY <1>4 DEF Current
  <2>4. Wounded(body) = {body.entered[i] : i \in 1 .. body.done}
    BY <1>2 DEF Wounded
  <2>5. Wounded(b) = Wounded(body) \cup {Current}
    <3>1. {b.result[i].target : i \in DOMAIN b.result} = {Current}
      BY <1>3, <1>4
    <3>2. QED
      BY <1>4, <2>4, <3>1 DEF Wounded
  <2> HIDE DEF b, outcome
  <2>6. Current \notin Wounded(body)
    BY <1>1, <2>4
  <2>7. b \in Bodies
    BY <1>1, <1>3, <1>4, BodyFields, BodyOfFields DEF Stages
  <2>8. Agrees(b, world')
    <3>1. world.wounds = [t \in Targets |-> IF t \in Wounded(body) THEN 1 ELSE 0]
      BY <1>1 DEF Agrees
    <3>2. world.wounds[Current] = 0
      BY <1>1, <2>6, <3>1
    <3>3. world'.wounds = [t \in Targets |-> IF t \in Wounded(b) THEN 1 ELSE 0]
      BY <1>1, <2>1, <2>5, <2>6, <3>1, <3>2
    <3>4. QED
      BY <1>1, <1>4, <2>1, <3>3 DEF Agrees
  <2>9. WorldTyped(world')
    BY <1>1, <2>1 DEF WorldTyped
  <2>10. ASSUME NEW stage \in {"targets", "zero-hp-reaction"}, NEW c, c.stage = stage, c.entered = b.entered,
                c.steps = b.steps, c.rolls = b.rolls, c.shared = b.shared, c.done = b.done,
                c.save = b.save, c.damage = b.damage, c.result = b.result, c.results = b.results
         PROVE  ResultsInOrder(c)
    BY <1>1, <1>2, <1>4, <2>3, <2>10 DEF ResultsInOrder
  <2>11. CASE suspend
    <3>1. ResultsInOrder([b EXCEPT !.stage = "zero-hp-reaction", !.ordinal = @ + 1])
      BY <1>4, <2>10 DEF IsBody
    <3>2. QED
      BY <1>1, <2>2, <2>7, <2>8, <2>9, <2>11, <3>1, SuspendOnce DEF Stages
  <2>12. CASE ~suspend
    <3>1. ResultsInOrder(b)
      BY <1>4, <2>10
    <3>2. QED
      BY <1>1, <2>2, <2>7, <2>8, <2>9, <2>12, <3>1, GoOnOnce DEF Continue
  <2>13. QED
    BY <2>11, <2>12
<1>7. QED
  BY <1>5, <1>6

LEMMA NextTargetOnce ==
    ASSUME TrampleInv, OnceInv, NextTarget
    PROVE  OnceInv'
<1> DEFINE b == [body EXCEPT !.results = @ \o body.result, !.done = @ + 1,
                             !.save = None, !.damage = None, !.result = <<>>]
           outcome == [target |-> Current, save |-> body.save, damage |-> body.damage]
<1>1. /\ body # None /\ body \in Bodies /\ ResultsInOrder(body) /\ Agrees(body, world)
      /\ WorldTyped(world) /\ body.shared /\ body.stage = "targets"
      /\ body.entered \in Seq(Targets) /\ body.done \in Nat /\ Current \in Targets
  BY AtTheTurn DEF NextTarget
<1>2. /\ body.result = <<outcome>> /\ body.damage # None /\ body.save # None
      /\ body.damage.save = body.save /\ body.done < Len(body.entered)
      /\ body.done = Len(body.results)
  BY <1>1 DEF NextTarget, Trampling, ResultsInOrder, Current
<1>3. /\ outcome.target = Current /\ outcome.save = body.save /\ outcome.damage = body.damage
  OBVIOUS
<1>4. body.result \in Seq(Result) /\ body.results \in Seq(Result)
  BY <1>1, BodyFields
<1>5. outcome \in Result
  <2>1. 1 \in DOMAIN body.result /\ body.result[1] = outcome
    BY <1>2
  <2> HIDE DEF outcome
  <2>2. QED
    BY <1>4, <2>1
<1>6. /\ IsBody(b) /\ b.stage = "targets" /\ b.ordinal = body.ordinal /\ b.plan = body.plan
      /\ b.rolls = body.rolls /\ b.steps = body.steps /\ b.entered = body.entered
      /\ b.shared = body.shared /\ b.done = body.done + 1 /\ b.save = None
      /\ b.damage = None /\ b.result = <<>> /\ b.results = body.results \o body.result
  BY <1>1, BodyShape DEF IsBody
<1>7. body' = b /\ UNCHANGED <<sealed, published, before, report, world>>
  BY DEF NextTarget, Continue
<1> HIDE DEF b, outcome
<1>8. /\ b.results \in Seq(Result) /\ Len(b.results) = b.done
      /\ b.results[b.done] = outcome
      /\ \A i \in 1 .. body.done : b.results[i] = body.results[i]
      /\ 1 .. b.done = 1 .. body.done \cup {b.done}
  BY <1>1, <1>2, <1>4, <1>5, <1>6
<1>9. b \in Bodies
  <2>1. b.done \in Nat /\ None \in Rolls \cup {None} /\ None \in Damage \cup {None}
    BY <1>1, <1>6
  <2>2. b.result \in Seq(Result)
    BY <1>6
  <2>3. QED
    BY <1>1, <1>6, <1>8, <2>1, <2>2, BodyFields, BodyOfFields DEF Stages
<1>10. ResultsInOrder(b)
  <2>1. \A i \in 1 .. body.done : /\ b.results[i].target = b.entered[i]
                                  /\ b.results[i].damage.save = b.results[i].save
    BY <1>1, <1>6, <1>8 DEF ResultsInOrder
  <2>2. b.results[b.done].target = b.entered[b.done]
        /\ b.results[b.done].damage.save = b.results[b.done].save
    BY <1>2, <1>3, <1>6, <1>8 DEF Current
  <2>3. \A i \in 1 .. b.done : /\ b.results[i].target = b.entered[i]
                               /\ b.results[i].damage.save = b.results[i].save
    BY <1>8, <2>1, <2>2
  <2>4. b.done <= Len(b.entered)
    BY <1>1, <1>2, <1>6
  <2>5. /\ \A i, j \in DOMAIN b.entered : b.entered[i] = b.entered[j] => i = j
        /\ b.steps = PathLength /\ DOMAIN b.rolls = Range(b.entered)
    BY <1>1, <1>6 DEF ResultsInOrder
  <2>6. QED
    BY <1>1, <1>6, <1>8, <2>3, <2>4, <2>5 DEF ResultsInOrder
<1>11. Agrees(b, world)
  <2>1. Wounded(b) = Wounded(body)
    <3>1. {body.result[i].target : i \in DOMAIN body.result} = {Current}
      BY <1>2, <1>3
    <3>2. {b.entered[i] : i \in 1 .. b.done} = {body.entered[i] : i \in 1 .. body.done} \cup {Current}
      <4>1. Current = body.entered[b.done] /\ b.entered = body.entered
        BY <1>6 DEF Current
      <4>2. {body.entered[i] : i \in 1 .. body.done \cup {b.done}} =
              {body.entered[i] : i \in 1 .. body.done} \cup {body.entered[b.done]}
        OBVIOUS
      <4>3. QED
        BY <1>8, <4>1, <4>2
    <3>3. {b.result[i].target : i \in DOMAIN b.result} = {}
      BY <1>6
    <3>4. QED
      BY <3>1, <3>2, <3>3 DEF Wounded
  <2>2. \A i \in 1 .. body.done : world.save[b.entered[i]] = b.results[i].save
    BY <1>1, <1>6, <1>8 DEF Agrees
  <2>3. world.save[b.entered[b.done]] = b.results[b.done].save
    BY <1>1, <1>2, <1>3, <1>6, <1>8 DEF Agrees
  <2>4. QED
    BY <1>1, <1>6, <1>8, <2>1, <2>2, <2>3 DEF Agrees
<1>12. QED
  BY <1>1, <1>7, <1>9, <1>10, <1>11, GoOnOnce

LEMMA CompleteOnce ==
    ASSUME TrampleInv, OnceInv, CompleteTrample
    PROVE  OnceInv'
<1>1. /\ body # None /\ body \in Bodies /\ ResultsInOrder(body) /\ Agrees(body, world)
      /\ WorldTyped(world) /\ body.steps = PathLength
  BY AtTheTargets DEF CompleteTrample
<1>2. /\ body.shared /\ body.done = Len(body.entered)
      /\ published' = None /\ report' = body.results /\ body' = None /\ UNCHANGED <<sealed, world>>
  BY DEF CompleteTrample
<1>3. body.entered \in Seq(Targets) /\ body.results \in Seq(Result) /\ body.done \in Nat
  BY <1>1, BodyFields
<1>4. /\ body.done = Len(body.results) /\ body.save = None /\ body.result = <<>>
      /\ \A i, j \in DOMAIN body.entered : body.entered[i] = body.entered[j] => i = j
      /\ \A i \in 1 .. body.done : /\ body.results[i].target = body.entered[i]
                                   /\ body.results[i].damage.save = body.results[i].save
  BY <1>1, <1>2, <1>3 DEF ResultsInOrder
<1>5. DOMAIN body.results = 1 .. body.done /\ DOMAIN body.entered = 1 .. body.done
  <2>1. DOMAIN body.results = 1 .. Len(body.results) /\ DOMAIN body.entered = 1 .. Len(body.entered)
    BY <1>3
  <2>2. QED
    BY <1>2, <1>4, <2>1
<1>6. world.at = PathLength
  BY <1>1 DEF Agrees
<1>7. ASSUME NEW t \in Targets
      PROVE  /\ world.wounds[t] = Cardinality({i \in DOMAIN body.results : body.results[i].target = t})
             /\ world.wounds[t] <= 1
  <2> DEFINE of == {i \in DOMAIN body.results : body.results[i].target = t}
  <2>1. of = {i \in DOMAIN body.entered : body.entered[i] = t}
    BY <1>4, <1>5
  <2>2. Wounded(body) = Range(body.entered)
    BY <1>4, <1>5 DEF Wounded, Range
  <2>3. world.wounds[t] = IF t \in Range(body.entered) THEN 1 ELSE 0
    BY <1>1, <2>2 DEF Agrees
  <2> HIDE DEF of
  <2>4. CASE t \in Range(body.entered)
    <3>1. PICK i \in DOMAIN body.entered : body.entered[i] = t
      BY <2>4 DEF Range
    <3>2. of = {i}
      BY <1>4, <2>1, <3>1
    <3>3. Cardinality(of) = 1
      BY <3>2, FS_Singleton
    <3>4. QED
      BY <2>3, <2>4, <3>3 DEF of
  <2>5. CASE t \notin Range(body.entered)
    <3>1. of = {}
      BY <2>1, <2>5 DEF Range
    <3>2. Cardinality(of) = 0
      BY <3>1, FS_EmptySet
    <3>3. QED
      BY <2>3, <2>5, <3>2 DEF of
  <2>6. QED
    BY <2>4, <2>5
<1>8. ASSUME NEW i \in DOMAIN body.results
      PROVE  /\ body.results[i].save = world.save[body.results[i].target]
             /\ body.results[i].damage.save = body.results[i].save
  BY <1>1, <1>4, <1>5, <1>8 DEF Agrees
<1>9. report' # None
  BY <1>2, <1>3, NoneIsNothing
<1>10. TrampledOnce'
  <2>1. world'.at <= PathLength
    BY <1>2, <1>6, TrampleAssumption
  <2>2. QED
    BY <1>2, <1>6, <1>7, <1>8, <2>1 DEF TrampledOnce
<1>11. QED
  BY <1>1, <1>2, <1>9, <1>10 DEF OnceInv, WorldTyped

\* The continuation a call resumes is the one the host agrees with.
LEMMA ReopenOnce ==
    ASSUME OnceInv, NEW c \in sealed, NEW b \in Bodies, NEW kind, Reopen(c, b, kind),
           ResultsInOrder(b), Agrees(b, world'), WorldTyped(world')
    PROVE  OnceInv'
<1>1. /\ body = None /\ c = published /\ body' = b /\ published' = None
      /\ before' = [world |-> world, published |-> published] /\ UNCHANGED <<sealed, report>>
  BY DEF Reopen, Resumable
<1>2. c \in Bodies /\ c # None /\ b # None
  BY NoneIsNothing DEF OnceInv
<1>3. report = None /\ Kept(published, world)
  BY <1>1, <1>2 DEF OnceInv
<1>4. before'.world = world /\ before'.published = published
  BY <1>1
<1>5. Kept(b, world')
  BY <1>2 DEF Kept
<1>6. QED
  BY <1>1, <1>2, <1>3, <1>4, <1>5, KeptBounds DEF OnceInv, TrampledOnce, WorldTyped

LEMMA ResumeOnce ==
    ASSUME TrampleInv, OnceInv, NEW c \in sealed, Resume(c)
    PROVE  OnceInv'
<1>1. PICK defence \in [Targets -> Defences] :
        \/ ResumeMovement(c, defence)
        \/ \E roll \in Rolls : ResumeSave(c, roll, defence)
        \/ ResumeDamage(c, defence)
        \/ ResumeZeroHp(c, defence)
  BY DEF Resume
<1>2. Resumable(c) /\ body = None
  BY <1>1 DEF ResumeMovement, ResumeSave, ResumeDamage, ResumeZeroHp, Reopen
<1>3. /\ c \in Bodies /\ ResultsInOrder(c) /\ Agrees(c, world) /\ IsWorld(world)
      /\ WorldTyped(world)
  <2>1. c = published /\ c \in Bodies /\ c # None
    BY <1>2, NoneIsNothing DEF Resumable, OnceInv
  <2>2. Kept(published, world)
    BY <1>2, <2>1 DEF OnceInv
  <2>3. QED
    BY <2>1, <2>2 DEF Kept, TrampleInv, OnceInv, WorldTyped
<1>4. ASSUME NEW w, w = [world EXCEPT !.defence = defence]
      PROVE  Agrees(c, w) /\ WorldTyped(w)
  <2>1. w.at = world.at /\ w.wounds = world.wounds /\ w.save = world.save /\ w.defence = defence
    BY <1>3, <1>4 DEF IsWorld
  <2>2. QED
    BY <1>3, <2>1 DEF Agrees, WorldTyped
<1>5. ASSUME NEW stage \in {"movement", "targets"}, NEW kind,
             \/ c.stage = "movement-reaction" /\ stage = "movement"
             \/ c.stage = "zero-hp-reaction" /\ stage = "targets",
             Reopen(c, [c EXCEPT !.stage = stage], kind), Reacted(defence)
      PROVE  OnceInv'
  <2> DEFINE b == [c EXCEPT !.stage = stage]
  <2>1. /\ IsBody(b) /\ b.stage = stage /\ b.ordinal = c.ordinal /\ b.plan = c.plan
        /\ b.rolls = c.rolls /\ b.steps = c.steps /\ b.entered = c.entered
        /\ b.shared = c.shared /\ b.done = c.done /\ b.save = c.save
        /\ b.damage = c.damage /\ b.result = c.result /\ b.results = c.results
    BY <1>3, BodyShape DEF IsBody
  <2> HIDE DEF b
  <2>2. b \in Bodies
    BY <1>3, <2>1, BodyFields, BodyOfFields DEF Stages
  <2>3. ResultsInOrder(b)
    BY <1>3, <1>5, <2>1 DEF ResultsInOrder
  <2>4. Agrees(c, world') /\ WorldTyped(world')
    BY <1>4, <1>5 DEF Reacted
  <2>5. Agrees(b, world')
    BY <2>1, <2>4 DEF Agrees, Wounded
  <2>6. Reopen(c, b, kind)
    BY <1>5 DEF b
  <2>7. QED
    BY <2>2, <2>3, <2>4, <2>5, <2>6, ReopenOnce
<1>6. ASSUME c.save # None
      PROVE  /\ c.done + 1 \in DOMAIN c.entered /\ c.entered[c.done + 1] \in Targets
             /\ \A i \in 1 .. c.done : /\ c.entered[i] \in Targets
                                       /\ c.entered[i] # c.entered[c.done + 1]
  <2>1. c.entered \in Seq(Targets) /\ c.done \in Nat /\ c.done < Len(c.entered)
        /\ \A i, j \in DOMAIN c.entered : c.entered[i] = c.entered[j] => i = j
    BY <1>3, <1>6, BodyFields DEF ResultsInOrder
  <2>2. c.done + 1 \in DOMAIN c.entered
        /\ \A i \in 1 .. c.done : i \in DOMAIN c.entered /\ i # c.done + 1
    BY <2>1
  <2>3. QED
    BY <2>1, <2>2
<1>7. CASE \E roll \in Rolls : ResumeSave(c, roll, defence)
  <2>1. PICK roll \in Rolls : ResumeSave(c, roll, defence)
    BY <1>7
  <2> DEFINE b == [c EXCEPT !.stage = "targets", !.save = Stands(c, roll)]
             target == c.entered[c.done + 1]
  <2>2. c.stage = "save-reaction" /\ Reopen(c, b, "none")
        /\ world' = [world EXCEPT !.save[target] = roll, !.defence = defence]
    BY <2>1 DEF ResumeSave
  <2>3. c.save # None /\ c.damage = None /\ c.result = <<>> /\ roll # None
    BY <1>3, <2>2, TrampleAssumption DEF ResultsInOrder
  <2>4. /\ target \in Targets
        /\ \A i \in 1 .. c.done : c.entered[i] \in Targets /\ c.entered[i] # target
    BY <1>6, <2>3
  <2>5. /\ IsBody(b) /\ b.stage = "targets" /\ b.ordinal = c.ordinal /\ b.plan = c.plan
        /\ b.rolls = c.rolls /\ b.steps = c.steps /\ b.entered = c.entered
        /\ b.shared = c.shared /\ b.done = c.done /\ b.save = roll
        /\ b.damage = c.damage /\ b.result = c.result /\ b.results = c.results
    BY <1>3, BodyShape DEF IsBody, Stands
  <2> HIDE DEF b
  <2>6. b \in Bodies
    BY <1>3, <2>5, BodyFields, BodyOfFields DEF Stages
  <2>7. ResultsInOrder(b)
    BY <1>3, <2>2, <2>3, <2>5 DEF ResultsInOrder
  <2>8. /\ world'.at = world.at /\ world'.wounds = world.wounds /\ world'.defence = defence
        /\ world'.save = [world.save EXCEPT ![target] = roll]
    BY <1>3, <2>2 DEF IsWorld
  <2> HIDE DEF target
  <2>9. WorldTyped(world')
    BY <1>3, <2>4, <2>8 DEF WorldTyped
  <2>10. Agrees(b, world')
    <3>1. world'.save[target] = roll
      BY <1>3, <2>4, <2>8 DEF WorldTyped
    <3>2. \A i \in 1 .. c.done : world'.save[c.entered[i]] = world.save[c.entered[i]]
      BY <1>3, <2>4, <2>8 DEF WorldTyped
    <3>3. Wounded(b) = Wounded(c)
      BY <2>5 DEF Wounded
    <3>4. QED
      BY <1>3, <2>5, <2>8, <3>1, <3>2, <3>3 DEF Agrees, target
  <2>11. QED
    BY <2>2, <2>6, <2>7, <2>9, <2>10, ReopenOnce
<1>8. CASE ResumeDamage(c, defence)
  <2> DEFINE damage == [c.damage EXCEPT !.preview = PreviewAgain(c, defence)]
             b == [c EXCEPT !.stage = "targets", !.damage = damage]
  <2>1. c.stage = "damage-reaction" /\ Reopen(c, b, "none") /\ Reacted(defence)
    BY <1>8 DEF ResumeDamage
  <2>2. c.damage # None /\ c.save # None /\ c.damage.save = c.save /\ c.result = <<>>
    BY <1>3, <2>1 DEF ResultsInOrder
  <2>3. c.damage \in Damage
    BY <1>3, <2>2, BodyFields
  <2>4. PreviewAgain(c, defence) \in Defences
    BY <1>6, <2>2 DEF PreviewAgain
  <2>5. damage \in Damage /\ damage.save = c.damage.save /\ damage # None
    BY <2>3, <2>4, TrampleAssumption DEF Damage
  <2>6. /\ IsBody(b) /\ b.stage = "targets" /\ b.ordinal = c.ordinal /\ b.plan = c.plan
        /\ b.rolls = c.rolls /\ b.steps = c.steps /\ b.entered = c.entered
        /\ b.shared = c.shared /\ b.done = c.done /\ b.save = c.save
        /\ b.damage = damage /\ b.result = c.result /\ b.results = c.results
    BY <1>3, BodyShape DEF IsBody
  <2> HIDE DEF b, damage
  <2>7. b \in Bodies
    BY <1>3, <2>5, <2>6, BodyFields, BodyOfFields DEF Stages
  <2>8. ResultsInOrder(b)
    BY <1>3, <2>1, <2>2, <2>5, <2>6 DEF ResultsInOrder
  <2>9. Agrees(c, world') /\ WorldTyped(world')
    BY <1>4, <2>1 DEF Reacted
  <2>10. Agrees(b, world')
    BY <2>6, <2>9 DEF Agrees, Wounded
  <2>11. QED
    BY <2>1, <2>7, <2>8, <2>9, <2>10, ReopenOnce
<1>9. CASE ResumeMovement(c, defence)
  BY <1>5, <1>9 DEF ResumeMovement
<1>10. CASE ResumeZeroHp(c, defence)
  BY <1>5, <1>10 DEF ResumeZeroHp
<1>11. QED
  BY <1>1, <1>7, <1>8, <1>9, <1>10

\* Before anything happened, and when the next activity begins
LEMMA FreshWorld ==
    ASSUME NEW defence \in [Targets -> Defences]
    PROVE  /\ Kept(None, InitialWorld(defence)) /\ WorldTyped(InitialWorld(defence))
           /\ InitialWorld(defence).at <= PathLength
           /\ \A t \in Targets : InitialWorld(defence).wounds[t] <= 1
BY TrampleAssumption DEF Kept, InitialWorld, WorldTyped

LEMMA OnceInvariant == TrampleSpec => []OnceInv
<1>1. TrampleInit => OnceInv
  <2> SUFFICES ASSUME TrampleInit PROVE OnceInv
    OBVIOUS
  <2>1. PICK d \in Defences : world = InitialWorld([t \in Targets |-> d])
    BY DEF TrampleInit
  <2>2. [t \in Targets |-> d] \in [Targets -> Defences]
    OBVIOUS
  <2>3. QED
    BY <2>1, <2>2, FreshWorld DEF TrampleInit, OnceInv, TrampledOnce, WorldTyped
<1>2. ASSUME TrampleInv, OnceInv, [TrampleNext]_trampleVars PROVE OnceInv'
  <2>1. CASE NextActivity
    <3>1. /\ world' = InitialWorld(world.defence) /\ sealed' = {} /\ report' = None
          /\ body' = None /\ published' = None
      BY <1>2, <2>1 DEF NextActivity, OnceInv
    <3>2. world.defence \in [Targets -> Defences]
      BY <1>2 DEF OnceInv
    <3>3. QED
      BY <3>1, <3>2, FreshWorld DEF OnceInv, TrampledOnce, WorldTyped
  <2>2. CASE UNCHANGED trampleVars
    BY <1>2, <2>2 DEF trampleVars, OnceInv, TrampledOnce
  <2>3. QED
    BY <1>2, <2>1, <2>2, StartOnce, MoveOnce, RollDamageOnce, RollSaveOnce, ScaleDamageOnce,
       ApplyDamageOnce, NextTargetOnce, CompleteOnce, ResumeOnce DEF TrampleNext
<1>3. QED
  BY <1>1, <1>2, TrampleInvariant, PTL DEF TrampleSpec

\* However often the activity is suspended and whichever continuations are
\* presented again, nobody is damaged twice, no step is committed twice and
\* the report is of what happened.
THEOREM TrampledOnlyOnce == TrampleSpec => []TrampledOnce
BY OnceInvariant, PTL DEF OnceInv

-----------------------------------------------------------------------------
(* TrampleRoute *)

LEMMA RouteInvStep == ASSUME RouteInv, [RouteNext]_routeVars PROVE RouteInv'
<1>1. CASE StartCompound
  BY <1>1 DEF StartCompound, RouteInv
<1>2. CASE ResumeDamagePool
  BY <1>2 DEF ResumeDamagePool, Refuse, RouteInv
<1>3. CASE ResumeAfterMove
  BY <1>3 DEF ResumeAfterMove, RouteInv
<1>4. CASE ResumeTarget
  BY <1>4 DEF ResumeTarget, RouteInv
<1>5. CASE UNCHANGED activity \/ activity' = NoActivity
  BY <1>5 DEF RouteInv
<1>6. QED
  BY <1>1, <1>2, <1>3, <1>4, <1>5
     DEF RouteNext, routeVars, OtherMoves, MovementDisrupted, ResumeRefused, Refuse

LEMMA RouteStays == RouteSpec => []RouteInv
<1>1. RouteInit => RouteInv
  BY DEF RouteInit, RouteInv
<1>2. QED
  BY <1>1, RouteInvStep, PTL DEF RouteSpec

\* Finitely many creatures are entered.
LEMMA EnteredFinite ==
    ASSUME NEW direction, NEW n
    PROVE  /\ IsFiniteSet(Entered(origin, direction, n))
           /\ Cardinality(Entered(origin, direction, n)) \in Nat
           /\ Cardinality(Others) \in Nat
           /\ Cardinality(Entered(origin, direction, n)) <= Cardinality(Others)
<1>1. IsFiniteSet(Others)
  <2>1. CreatureOrder \in Seq(Range(CreatureOrder))
    BY RouteAssumption
  <2>2. PICK len \in Nat : DOMAIN CreatureOrder = 1 .. len
    BY <2>1
  <2>3. IsFiniteSet(1 .. len)
    BY <2>2, FS_Interval
  <2>4. CreatureOrder \in Surjection(1 .. len, Others)
    BY <2>1, <2>2 DEF Others, Range, Surjection
  <2>5. QED
    BY <2>3, <2>4, FS_Surjection
<1>2. Entered(origin, direction, n) \subseteq Others
  BY DEF Entered, Met, Overlapped
<1>3. QED
  BY <1>1, <1>2, FS_Subset, FS_CardinalityType

\* A set of natural numbers has a least one.
LEMMA LeastNumber ==
    ASSUME NEW T \in SUBSET Nat, T # {}
    PROVE  \E m \in T : \A n \in T : m <= n
<1> DEFINE R == OpToRel(<, Nat)
<1>1. \A m, n \in Nat : n < m => <<n, m>> \in R
  BY DEF OpToRel
<1>2. IsWellFoundedOn(R, Nat)
  BY NatLessThanWellFounded
<1> HIDE DEF R
<1>3. PICK m \in T : \A n \in T : ~(<<n, m>> \in R)
  BY <1>2, WFMin
<1>4. \A n \in T : n \in Nat /\ m \in Nat /\ ~(n < m)
  BY <1>1, <1>3
<1>5. QED
  BY <1>4

\* Of the possible runs one comes before all others.
LEMMA FirstRun ==
    ASSUME Runs # {}
    PROVE  \E r \in Runs : \A q \in Runs \ {r} : Before(r, q)
<1> DEFINE crossed(r) == Cardinality(Entered(origin, r[1], r[2]))
           spared(r) == Cardinality(Others) - crossed(r)
<1>1. ASSUME NEW r \in Runs
      PROVE  /\ r[1] \in Nat /\ r[2] \in Nat /\ r = <<r[1], r[2]>>
             /\ crossed(r) \in Nat /\ spared(r) \in Nat
             /\ crossed(r) = Cardinality(Others) - spared(r)
  <2>1. r \in (1 .. 4) \X (1 .. MaxRun)
    BY DEF Runs
  <2>2. QED
    BY <2>1, EnteredFinite, RouteAssumption
<1>2. PICK a \in {spared(r) : r \in Runs} : \A b \in {spared(r) : r \in Runs} : a <= b
  BY <1>1, LeastNumber
<1> DEFINE most == {r \in Runs : spared(r) = a}
<1> DEFINE lengths == {r[2] : r \in most}
<1>3. PICK l \in lengths : \A k \in lengths : l <= k
  <2>1. lengths \in SUBSET Nat /\ lengths # {}
    BY <1>1, <1>2
  <2> HIDE DEF lengths
  <2>2. QED
    BY <2>1, LeastNumber
<1> DEFINE shortest == {r \in most : r[2] = l}
           directions == {r[1] : r \in shortest}
<1>4. PICK d \in directions : \A e \in directions : d <= e
  <2>1. directions \in SUBSET Nat /\ directions # {}
    BY <1>1, <1>3
  <2> HIDE DEF directions
  <2>2. QED
    BY <2>1, LeastNumber
<1>5. PICK r \in shortest : r[1] = d
  BY <1>4
<1>6. ASSUME NEW q \in Runs, q # r
      PROVE  \/ crossed(r) > crossed(q)
             \/ crossed(r) = crossed(q) /\ r[2] < q[2]
             \/ crossed(r) = crossed(q) /\ r[2] = q[2] /\ r[1] < q[1]
  <2>1. spared(q) >= a /\ spared(r) = a /\ r[2] = l /\ r[1] = d
    BY <1>2, <1>5
  <2>2. spared(q) = a => q[2] >= l
    BY <1>1, <1>3
  <2>3. spared(q) = a /\ q[2] = l => q[1] >= d
    BY <1>1, <1>4
  <2>4. r \in Runs
    OBVIOUS
  <2>5. /\ q[1] \in Nat /\ q[2] \in Nat /\ q = <<q[1], q[2]>>
        /\ r[1] \in Nat /\ r[2] \in Nat /\ r = <<r[1], r[2]>>
    BY <1>1, <2>4
  <2>6. /\ crossed(q) \in Nat /\ spared(q) \in Nat /\ Cardinality(Others) \in Nat
        /\ crossed(q) = Cardinality(Others) - spared(q)
        /\ crossed(r) \in Nat /\ spared(r) \in Nat
        /\ crossed(r) = Cardinality(Others) - spared(r)
    BY <1>1, <2>4, EnteredFinite
  <2> HIDE DEF crossed, spared, most, shortest
  <2>7. ~(q[1] = r[1] /\ q[2] = r[2])
    BY <1>6, <2>5
  <2>8. QED
    BY <2>1, <2>2, <2>3, <2>5, <2>6, <2>7
<1>7. \A q \in Runs \ {r} : Before(r, q)
  BY <1>6 DEF Before
<1>8. QED
  BY <1>7

\* When the damage pool is there, the movement is asked for along such a run.
LEMMA PoolStep ==
    ASSUME RouteInv, RouteNext, activity # NoActivity, activity.stage = "damage-pool",
           activity' # NoActivity, activity'.stage = "movement"
    PROVE  /\ activity.route.run \in Runs
           /\ activity.route.census = Entered(origin, activity.route.run[1], activity.route.run[2])
           /\ \A q \in Runs \ {activity.route.run} : Before(activity.route.run, q)
<1>1. activity.route = Route /\ Route # NoActivity
  BY DEF RouteInv, RouteNext, StartCompound, ResumeDamagePool, ResumeRefused, SameRoute, Refuse, OtherMoves,
         ResumeAfterMove, MovementDisrupted, ResumeTarget
<1> DEFINE best == CHOOSE r \in Runs : \A q \in Runs \ {r} : Before(r, q)
<1>2. Runs # {} /\ Route = [run |-> best, census |-> Entered(origin, best[1], best[2])]
  BY <1>1 DEF Route
<1>3. best \in Runs /\ \A q \in Runs \ {best} : Before(best, q)
  BY <1>2, FirstRun
<1>4. QED
  BY <1>1, <1>2, <1>3

\* No straight run is better than the one the movement is asked for.
THEOREM BestRun == RouteSpec => BestRunTaken
<1> DEFINE Asked ==
      (activity # NoActivity /\ activity.stage = "damage-pool" /\ activity' # NoActivity
         /\ activity'.stage = "movement") =>
        LET n == activity.route.run[2]
            some == Cardinality(activity.route.census)
        IN /\ Passable(origin, activity.route.run[1], n)
           /\ \A direction \in 1 .. 4, k \in 1 .. MaxRun :
                 Passable(origin, direction, k) =>
                    LET crossed == Cardinality(Entered(origin, direction, k))
                    IN crossed < some \/ (crossed = some /\ k >= n)
<1>1. ASSUME RouteInv, RouteNext PROVE Asked
  <2> SUFFICES ASSUME activity # NoActivity, activity.stage = "damage-pool",
                      activity' # NoActivity, activity'.stage = "movement"
               PROVE  /\ Passable(origin, activity.route.run[1], activity.route.run[2])
                      /\ \A direction \in 1 .. 4, k \in 1 .. MaxRun :
                            Passable(origin, direction, k) =>
                              LET crossed == Cardinality(Entered(origin, direction, k))
                                  some == Cardinality(activity.route.census)
                              IN crossed < some \/ (crossed = some /\ k >= activity.route.run[2])
    OBVIOUS
  <2> DEFINE best == activity.route.run
             crossed(d, k) == Cardinality(Entered(origin, d, k))
  <2>1. /\ best \in Runs
        /\ activity.route.census = Entered(origin, best[1], best[2])
        /\ \A q \in Runs \ {best} : Before(best, q)
    BY <1>1, PoolStep
  <2>2. Passable(origin, best[1], best[2]) /\ best[2] \in 1 .. MaxRun
    BY <2>1 DEF Runs
  <2>3. ASSUME NEW d \in 1 .. 4, NEW k \in 1 .. MaxRun, Passable(origin, d, k)
        PROVE  \/ crossed(d, k) < crossed(best[1], best[2])
               \/ crossed(d, k) = crossed(best[1], best[2]) /\ k >= best[2]
    <3>1. <<d, k>> \in Runs
      BY <2>3 DEF Runs
    <3>2. crossed(d, k) \in Nat /\ crossed(best[1], best[2]) \in Nat
          /\ k \in Int /\ best[2] \in Int
      BY <2>2, EnteredFinite, RouteAssumption
    <3>3. CASE <<d, k>> = best
      BY <3>2, <3>3
    <3>4. CASE <<d, k>> # best
      <4>1. Before(best, <<d, k>>)
        BY <2>1, <3>1, <3>4
      <4>2. \/ crossed(best[1], best[2]) > crossed(d, k)
            \/ crossed(best[1], best[2]) = crossed(d, k) /\ best[2] < k
            \/ crossed(best[1], best[2]) = crossed(d, k) /\ best[2] = k /\ best[1] < d
        BY <4>1 DEF Before
      <4> HIDE DEF crossed
      <4>3. QED
        BY <3>2, <4>2
    <3>5. QED
      BY <3>3, <3>4
  <2>4. QED
    BY <2>1, <2>2, <2>3
<1>2. RouteInv /\ [RouteNext]_routeVars => [Asked]_routeVars
  BY <1>1
<1>3. QED
  BY <1>2, RouteStays, PTL DEF RouteSpec, BestRunTaken

\* Whoever is entered is met somewhere first.
LEMMA FirstMet ==
    ASSUME NEW direction, NEW n \in 1 .. MaxRun, NEW c \in Entered(origin, direction, n)
    PROVE  /\ FirstEntry(c, direction) \in 1 .. n
           /\ c \in Met(origin, direction, FirstEntry(c, direction))
           /\ \A l \in 1 .. FirstEntry(c, direction) - 1 : c \notin Met(origin, direction, l)
<1> DEFINE places == {k \in 1 .. n : c \in Met(origin, direction, k)}
           First(k) == /\ c \in Met(origin, direction, k)
                       /\ \A j \in 1 .. k - 1 : c \notin Met(origin, direction, j)
<1>1. MaxRun \in Nat
  BY RouteAssumption
<1>2. places # {} /\ places \in SUBSET Nat
  BY DEF Entered
<1>3. PICK k \in places : \A j \in places : k <= j
  <2> HIDE DEF places
  <2>1. QED
    BY <1>2, LeastNumber
<1>4. k \in 1 .. n /\ c \in Met(origin, direction, k)
  OBVIOUS
<1>5. ASSUME NEW j \in 1 .. k - 1 PROVE c \notin Met(origin, direction, j)
  <2>1. j \in 1 .. n /\ ~(k <= j)
    BY <1>1, <1>4
  <2>2. QED
    BY <1>3, <2>1
<1>6. First(k) /\ k \in 1 .. MaxRun
  BY <1>1, <1>4, <1>5
<1>7. FirstEntry(c, direction) = CHOOSE m \in 1 .. MaxRun : First(m)
  BY DEF FirstEntry
<1> HIDE DEF First
<1>8. FirstEntry(c, direction) \in 1 .. MaxRun /\ First(FirstEntry(c, direction))
  BY <1>6, <1>7
<1>9. FirstEntry(c, direction) <= k
  <2>1. ASSUME k \in 1 .. FirstEntry(c, direction) - 1 PROVE FALSE
    BY <1>4, <1>8, <2>1 DEF First
  <2>2. QED
    BY <1>1, <1>6, <1>8, <2>1
<1>10. QED
  BY <1>1, <1>4, <1>8, <1>9 DEF First

\* The creatures entered, each once, the first met first
LEMMA OrderOfEntry ==
    ASSUME NEW direction, NEW n \in 1 .. MaxRun
    PROVE  LET entered == Entered(origin, direction, n)
               s == InOrder(entered, direction)
           IN /\ s \in Seq(entered) /\ Range(s) = entered /\ Len(s) = Cardinality(entered)
              /\ \A i, j \in DOMAIN s :
                    i < j => FirstEntry(s[i], direction) <= FirstEntry(s[j], direction)
<1> DEFINE S == Entered(origin, direction, n)
           at(c) == CHOOSE i \in DOMAIN CreatureOrder : CreatureOrder[i] = c
           first(c) == FirstEntry(c, direction)
           R == {p \in S \X S : \/ first(p[1]) < first(p[2])
                                \/ first(p[1]) = first(p[2]) /\ at(p[1]) < at(p[2])}
           s == Ordered(S, R)
<1>1. IsFiniteSet(S)
  BY EnteredFinite
<1>2. ASSUME NEW c \in S
      PROVE  first(c) \in Nat /\ at(c) \in Nat /\ CreatureOrder[at(c)] = c
  <2>1. first(c) \in 1 .. n
    BY FirstMet
  <2>2. c \in Range(CreatureOrder)
    BY DEF Entered, Met, Overlapped, Others
  <2>3. \E i \in DOMAIN CreatureOrder : CreatureOrder[i] = c
    BY <2>2 DEF Range
  <2>4. at(c) \in DOMAIN CreatureOrder /\ CreatureOrder[at(c)] = c
    BY <2>3
  <2>5. DOMAIN CreatureOrder \in SUBSET Nat
    BY RouteAssumption
  <2>6. QED
    BY <2>1, <2>4, <2>5, RouteAssumption
<1> HIDE DEF S, at, first
<1>3. \A x, y \in S : <<x, y>> \in R <=>
          (first(x) < first(y) \/ (first(x) = first(y) /\ at(x) < at(y)))
  OBVIOUS
<1> HIDE DEF R
<1>4. /\ \A x \in S : <<x, x>> \notin R
      /\ \A x, y \in S : x = y \/ <<x, y>> \in R \/ <<y, x>> \in R
  <2>1. ASSUME NEW x \in S PROVE <<x, x>> \notin R
    BY <1>2, <1>3
  <2>2. ASSUME NEW x \in S, NEW y \in S, x # y PROVE <<x, y>> \in R \/ <<y, x>> \in R
    <3>1. at(x) # at(y)
      BY <1>2, <2>2
    <3>2. first(x) \in Nat /\ first(y) \in Nat /\ at(x) \in Nat /\ at(y) \in Nat
      BY <1>2
    <3>3. QED
      BY <1>3, <3>1, <3>2
  <2>3. QED
    BY <2>1, <2>2
<1>5. \A x, y, z \in S : <<x, y>> \in R /\ <<y, z>> \in R => <<x, z>> \in R
  <2>1. ASSUME NEW x \in S, NEW y \in S, NEW z \in S, <<x, y>> \in R, <<y, z>> \in R
        PROVE  <<x, z>> \in R
    <3>1. /\ first(x) \in Nat /\ first(y) \in Nat /\ first(z) \in Nat
          /\ at(x) \in Nat /\ at(y) \in Nat /\ at(z) \in Nat
      BY <1>2
    <3>2. QED
      BY <1>3, <2>1, <3>1
  <2>2. QED
    BY <2>1
<1>6. /\ s \in SetToSeqs(S)
      /\ \A i, j \in DOMAIN s : i < j => <<s[i], s[j]>> \in R
  BY <1>1, <1>4, <1>5, OrderExists
<1>7. s \in Seq(S) /\ Range(s) = S /\ Len(s) = Cardinality(S)
  BY <1>1, <1>6, SequenceOfSet
<1>8. s = InOrder(S, direction)
  BY DEF InOrder, R, at, first
<1> HIDE DEF s
<1>9. ASSUME NEW i \in DOMAIN s, NEW j \in DOMAIN s, i < j
      PROVE  FirstEntry(s[i], direction) <= FirstEntry(s[j], direction)
  <2>1. s[i] \in S /\ s[j] \in S /\ <<s[i], s[j]>> \in R
    BY <1>6, <1>7, <1>9
  <2>2. first(s[i]) \in Nat /\ first(s[j]) \in Nat /\ first(s[i]) <= first(s[j])
    BY <1>2, <1>3, <2>1
  <2>3. QED
    BY <2>2 DEF first
<1>10. QED
  BY <1>7, <1>8, <1>9 DEF S

\* The route that is chosen has nobody too large.
LEMMA RouteSparesLarge ==
    ASSUME Route # NoActivity
    PROVE  /\ Route.run \in (1 .. 4) \X (1 .. MaxRun)
           /\ Route.census \cap TooLarge = {}
<1> DEFINE best == CHOOSE r \in Runs : \A q \in Runs \ {r} : Before(r, q)
<1>1. Runs # {} /\ Route = [run |-> best, census |-> Entered(origin, best[1], best[2])]
  BY DEF Route
<1>2. best \in Runs
  BY <1>1, FirstRun
<1>3. QED
  BY <1>1, <1>2 DEF Runs, Passable

\* The movement: those on the route are those on its squares now.
LEMMA MovedAlongPath ==
    ASSUME PathInv, ResumeAfterMove
    PROVE  RouteKept' /\ TramplesItsPath'
<1> DEFINE direction == activity.route.run[1]
           n == activity.route.run[2]
           entered == Entered(origin, direction, n)
           s == InOrder(entered, direction)
<1>1. CASE activity' = NoActivity
  BY <1>1 DEF RouteKept, TramplesItsPath
<1>2. CASE activity' # NoActivity
  <2>1. /\ activity' = [activity EXCEPT !.stage = "targets", !.targets = s]
        /\ entered = activity.route.census /\ UNCHANGED place
        /\ activity # NoActivity /\ activity.stage = "movement"
    BY <1>2 DEF ResumeAfterMove, SameCensus
  <2>2. /\ activity \in [stage : {activity.stage}, route : {activity.route}, from : {activity.from},
                         targets : {activity.targets}, cursor : {activity.cursor}]
        /\ activity.route.run \in (1 .. 4) \X (1 .. MaxRun)
        /\ entered \cap TooLarge = {} /\ activity.from = origin
    BY <2>1 DEF PathInv, RouteInv, RouteKept
  <2>3. n \in 1 .. MaxRun /\ MaxRun \in Nat
    BY <2>2, RouteAssumption
  <2>4. /\ s \in Seq(entered) /\ Range(s) = entered /\ Len(s) = Cardinality(entered)
        /\ \A i, j \in DOMAIN s : i < j => FirstEntry(s[i], direction) <= FirstEntry(s[j], direction)
    BY <2>3, OrderOfEntry
  <2> HIDE DEF s
  <2>5. /\ activity'.stage = "targets" /\ activity'.targets = s
        /\ activity'.route = activity.route /\ activity'.from = origin
    BY <2>1, <2>2
  <2>6. RouteKept'
    BY <2>1, <2>2, <2>5 DEF RouteKept
  <2>7. ASSUME NEW i \in DOMAIN s, NEW j \in DOMAIN s, i < j
        PROVE  \E k \in 1 .. n : /\ s[i] \in Met(origin, direction, k)
                                 /\ \A l \in 1 .. k - 1 : s[j] \notin Met(origin, direction, l)
    <3> DEFINE k == FirstEntry(s[i], direction)
               m == FirstEntry(s[j], direction)
    <3>1. s[i] \in entered /\ s[j] \in entered
      BY <2>4
    <3>2. k \in 1 .. n /\ s[i] \in Met(origin, direction, k)
      BY <2>3, <3>1, FirstMet
    <3>3. m \in 1 .. n /\ \A l \in 1 .. m - 1 : s[j] \notin Met(origin, direction, l)
      BY <2>3, <3>1, FirstMet
    <3>4. k <= m
      BY <2>4, <2>7
    <3> HIDE DEF k, m
    <3>5. \A l \in 1 .. k - 1 : l \in 1 .. m - 1
      BY <2>3, <3>2, <3>3, <3>4
    <3>6. QED
      BY <3>2, <3>3, <3>5
  <2>8. OnTheWay(s, place, origin, direction, n)
    <3>1. Range(s) = UNION {Met(origin, direction, k) : k \in 1 .. n}
      BY <2>4 DEF Entered
    <3>2. Range(s) \cap TooLarge = {} /\ Len(s) = Cardinality(Range(s))
      BY <2>2, <2>4
    <3> HIDE DEF direction, n, entered
    <3>3. QED
      BY <2>7, <3>1, <3>2 DEF OnTheWay, Met
  <2>9. TramplesItsPath'
    BY <2>1, <2>5, <2>8 DEF TramplesItsPath
  <2>10. QED
    BY <2>6, <2>9
<1>3. QED
  BY <1>1, <1>2

LEMMA PathInvariant == RouteSpec => []PathInv
<1>1. RouteInit => PathInv
  BY DEF RouteInit, PathInv, RouteInv, RouteKept, TramplesItsPath
<1>2. ASSUME PathInv, [RouteNext]_routeVars PROVE RouteKept' /\ TramplesItsPath'
  <2>1. CASE StartCompound
    <3>1. /\ activity' = [stage |-> "damage-pool", route |-> Route, from |-> origin,
                          targets |-> <<>>, cursor |-> 0]
          /\ Route # NoActivity /\ UNCHANGED origin
      BY <2>1 DEF StartCompound
    <3>2. QED
      BY <3>1, RouteSparesLarge DEF RouteKept, TramplesItsPath
  <2>2. CASE ResumeDamagePool \/ ResumeTarget
    BY <1>2, <2>2
    DEF ResumeDamagePool, ResumeTarget, Refuse, PathInv, RouteInv, RouteKept, TramplesItsPath
  <2>3. CASE ResumeAfterMove
    BY <1>2, <2>3, MovedAlongPath
  <2>4. CASE \E c \in Others, to \in Squares \cup {Gone} : OtherMoves(c, to)
    BY <1>2, <2>4 DEF OtherMoves, PathInv, RouteKept, TramplesItsPath
  <2>5. CASE \E n \in 0 .. MaxRun : MovementDisrupted(n)
    BY <2>5 DEF MovementDisrupted, RouteKept, TramplesItsPath
  <2>6. CASE ResumeRefused
    BY <2>6 DEF ResumeRefused, Refuse, RouteKept, TramplesItsPath
  <2>7. CASE UNCHANGED routeVars
    BY <1>2, <2>7 DEF routeVars, PathInv, RouteKept, TramplesItsPath
  <2>8. QED
    BY <1>2, <2>1, <2>2, <2>3, <2>4, <2>5, <2>6, <2>7 DEF RouteNext
<1>3. ASSUME PathInv, [RouteNext]_routeVars PROVE PathInv'
  BY <1>2, <1>3, RouteInvStep DEF PathInv
<1>4. QED
  BY <1>1, <1>3, PTL DEF RouteSpec

\* Those who must save stood on the squares that were crossed, each once, the
\* first met first, and none of them is too large.
THEOREM PathTrampled == RouteSpec => []TramplesItsPath
BY PathInvariant, PTL DEF PathInv
================================================================================
