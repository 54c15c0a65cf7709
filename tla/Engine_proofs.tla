--------------------------- MODULE Engine_proofs ---------------------------
(***************************************************************************)
(* What holds of the genetic operators, of the repair and of the loop over *)
(* the generations, for any candidates, slots, rooms and lecturers, any    *)
(* length of the run and any scores.                                       *)
(***************************************************************************)
EXTENDS Genetics, GALoop, FiniteSetTheorems, SequenceTheorems, FunctionTheorems,
        WellFoundedInduction, TLAPS

-----------------------------------------------------------------------------
(***************************************************************************)
(* The genetic operators: a gene keeps to what its candidate allows, a     *)
(* timetable with nothing to repair stays without a clash, and the repair  *)
(* leaves no clash that a block, a room or a team would have avoided.      *)
(***************************************************************************)

Less == {p \in Nat \X Nat : p[1] < p[2]}
LEMMA LessWF == IsWellFoundedOn(Less, Nat)
  BY NatLessThanWellFounded DEF OpToRel, Less
\* A set of naturals that has a member has a least one.
LEMMA LeastNatural ==
  ASSUME NEW S \in SUBSET Nat, S # {}
  PROVE  \E n \in S : \A m \in S : n <= m
<1>1. PICK n \in S : \A m \in S : <<m, n>> \notin Less
  BY LessWF, WFMin
<1>2. ASSUME NEW m \in S PROVE n <= m
  <2>1. m \in Nat /\ n \in Nat /\ <<m, n>> \notin Less BY <1>1
  <2>2. ~(m < n) BY <2>1 DEF Less
  <2> QED BY <2>1, <2>2
<1> QED BY <1>2

-----------------------------------------------------------------------------
(* The genes of a locus                                                    *)

RoomsOf(k) ==
  IF Candidates[k].fixed THEN {Candidates[k].room}
  ELSE (Candidates[k].rooms \cup {Candidates[k].room}) \ {None}
TimesOf(k) == IF BlocksOf[k] = {} THEN DegradedOf[k] ELSE BlocksOf[k]
CrewsOf(k) ==
  IF IsCohort(Candidates[k])
  THEN UNION {Teams(Candidates[k], L) : L \in Range(Candidates[k].groups)}
  ELSE Range(Candidates[k].groups)
SessionsOf(k) == [room : RoomsOf(k), slots : TimesOf(k), lecturers : CrewsOf(k)]
KindOf(k) == IF Candidates[k].fixed THEN "FIXED" ELSE "FLEXIBLE"

LEMMA GenePoolIs ==
  ASSUME NEW k \in Loci
  PROVE  GenePool(k) = [kind : {KindOf(k)}, sessions : [1..Candidates[k].count -> SessionsOf(k)]]
BY DEF GenePool, KindOf, SessionsOf, RoomsOf, TimesOf, CrewsOf

LEMMA CandidateIs ==
  ASSUME NEW k \in Loci
  PROVE  /\ Candidates[k].count \in Nat \ {0} /\ Candidates[k].duration \in Nat \ {0}
         /\ Candidates[k].room # None \/ Candidates[k].rooms # {}
         /\ None \notin Candidates[k].rooms /\ Candidates[k].fixed \in BOOLEAN
         /\ Candidates[k].fixed => Candidates[k].room # None
         /\ Len(Candidates[k].groups) \in Nat \ {0}
         /\ DOMAIN Candidates[k].groups = 1..Len(Candidates[k].groups)
BY CandidatesAssumption

LEMMA PoolFinite ==
  ASSUME NEW k \in Loci
  PROVE  IsFiniteSet(Pool(Candidates[k]))
BY PoolsAssumption DEF Pool

LEMMA LociAre == Len(Candidates) \in Nat \ {0} /\ 1 \in Loci /\ Loci = 1..Len(Candidates)
BY CandidatesAssumption DEF Loci

LEMMA Remainder ==
  ASSUME NEW a \in Nat, NEW m \in Nat \ {0}
  PROVE  a % m \in 0..(m - 1)
OBVIOUS

\* A group of the candidate is one of its teams, and the teams of the size of a
\* team are the others.
LEMMA GroupFits ==
  ASSUME NEW k \in Loci, NEW i \in Nat \ {0}
  PROVE  Group(Candidates[k], i) \in CrewsOf(k)
<1> DEFINE c == Candidates[k]
           n == ((i - 1) % Len(c.groups)) + 1
<1>1. n \in 1..Len(c.groups)
  <2>1. Len(c.groups) \in Nat \ {0} /\ i - 1 \in Nat BY CandidateIs
  <2>2. (i - 1) % Len(c.groups) \in 0..(Len(c.groups) - 1) BY <2>1, Remainder
  <2> DEFINE m == Len(c.groups)
  <2> HIDE DEF m
  <2>3. m \in Nat \ {0} /\ (i - 1) % m \in 0..(m - 1) BY <2>1, <2>2 DEF m
  <2>4. ((i - 1) % m) + 1 \in 1..m BY <2>3
  <2> QED BY <2>4 DEF m
<1>2. Group(c, i) = c.groups[n] /\ c.groups[n] \in Range(c.groups)
  BY <1>1, CandidateIs DEF Group, Range
<1> HIDE DEF n
<1>3. c.groups[n] \in Teams(c, c.groups[n]) BY <1>2 DEF Teams, Pool
<1>4. Group(c, i) \in UNION {Teams(c, L) : L \in Range(c.groups)} BY <1>2, <1>3
<1> QED BY <1>2, <1>4 DEF CrewsOf

LEMMA TeamFits ==
  ASSUME NEW k \in Loci, NEW L \in CrewsOf(k), NEW T \in Teams(Candidates[k], L)
  PROVE  T \in CrewsOf(k)
<1> DEFINE c == Candidates[k]
<1>1. CASE IsCohort(c)
  <2>1. PICK M \in Range(c.groups) : L \in Teams(c, M) BY <1>1 DEF CrewsOf
  <2>2. T \in Teams(c, M) BY <2>1 DEF Teams
  <2> QED BY <1>1, <2>1, <2>2 DEF CrewsOf
<1>2. CASE ~IsCohort(c)
  <2>1. Len(c.groups) = 1
    <3>1. Len(c.groups) \in Nat \ {0} /\ ~(Len(c.groups) > 1) BY <1>2, CandidateIs DEF IsCohort
    <3> DEFINE m == Len(c.groups)
    <3> HIDE DEF m
    <3>2. m \in Nat \ {0} /\ ~(m > 1) BY <3>1 DEF m
    <3>3. m = 1 BY <3>2
    <3> QED BY <3>3 DEF m
  <2>2. Range(c.groups) = {c.groups[1]} BY <2>1, CandidateIs DEF Range
  <2>3. L = c.groups[1] /\ Pool(c) = L BY <1>2, <2>2 DEF CrewsOf, Pool
  <2>4. T \in SUBSET L /\ Cardinality(T) = Cardinality(L) BY <2>3 DEF Teams
  <2>5. T = L BY <2>3, <2>4, PoolFinite, FS_Subset
  <2> QED BY <2>5
<1> QED BY <1>1, <1>2

LEMMA SlotsFit ==
  ASSUME NEW k \in Loci, NEW b \in SlotDraws(k)
  PROVE  b \in [1..Candidates[k].count -> TimesOf(k)]
BY DEF SlotDraws, PickBlocks, TimesOf

LEMMA RoomsFit ==
  ASSUME NEW k \in Loci, NEW R, NEW r \in RoomDraws(Candidates[k], R)
  PROVE  r \in [1..Candidates[k].count -> R]
BY DEF RoomDraws

LEMMA SeedsFit ==
  ASSUME NEW k \in Loci, NEW g \in Seeds(k)
  PROVE  g \in GenePool(k)
<1> DEFINE c == Candidates[k]
<1>1. PICK r \in RoomDraws(c, RoomsToDraw(c)), b \in SlotDraws(k) : g = Seed(c, r, b)
  BY DEF Seeds
<1>2. RoomsToDraw(c) \subseteq RoomsOf(k) BY CandidateIs DEF RoomsOf, RoomsToDraw
<1>3. r \in [1..c.count -> RoomsToDraw(c)] BY RoomsFit
<1>4. b \in [1..c.count -> TimesOf(k)] BY SlotsFit
<1>5. ASSUME NEW i \in 1..c.count
      PROVE  [room |-> r[i], slots |-> b[i], lecturers |-> Group(c, i)] \in SessionsOf(k)
  <2>1. i \in Nat \ {0} BY CandidateIs
  <2>2. Group(c, i) \in CrewsOf(k) BY <2>1, GroupFits
  <2>3. r[i] \in RoomsOf(k) /\ b[i] \in TimesOf(k) BY <1>2, <1>3, <1>4
  <2> QED BY <2>2, <2>3 DEF SessionsOf
<1>6. g \in [kind : {KindOf(k)}, sessions : [1..Candidates[k].count -> SessionsOf(k)]]
  BY <1>1, <1>5 DEF KindOf, Seed
<1> QED BY <1>6, GenePoolIs

LEMMA GeneIs ==
  ASSUME NEW k \in Loci, NEW g \in GenePool(k)
  PROVE  /\ g.kind = KindOf(k) /\ DOMAIN g.sessions = 1..Candidates[k].count
         /\ g.sessions \in [1..Candidates[k].count -> SessionsOf(k)]
         /\ \A i \in 1..Candidates[k].count :
              /\ g.sessions[i] \in SessionsOf(k)
              /\ g.sessions[i].room \in RoomsOf(k) /\ g.sessions[i].slots \in TimesOf(k)
              /\ g.sessions[i].lecturers \in CrewsOf(k)
         /\ 1 \in 1..Candidates[k].count
         /\ \A S \in [1..Candidates[k].count -> SessionsOf(k)] :
              [g EXCEPT !.sessions = S] \in GenePool(k)
<1>1. g \in [kind : {KindOf(k)}, sessions : [1..Candidates[k].count -> SessionsOf(k)]]
  BY GenePoolIs
<1>2. g.sessions \in [1..Candidates[k].count -> SessionsOf(k)] BY <1>1
<1>3. \A i \in 1..Candidates[k].count : g.sessions[i] \in SessionsOf(k) BY <1>2
<1>4. \A i \in 1..Candidates[k].count :
        /\ g.sessions[i].room \in RoomsOf(k) /\ g.sessions[i].slots \in TimesOf(k)
        /\ g.sessions[i].lecturers \in CrewsOf(k)
  BY <1>3 DEF SessionsOf
<1>5. \A S \in [1..Candidates[k].count -> SessionsOf(k)] : [g EXCEPT !.sessions = S] \in GenePool(k)
  BY <1>1, GenePoolIs
<1>6. 1 \in 1..Candidates[k].count BY CandidateIs
<1> QED BY <1>1, <1>2, <1>3, <1>4, <1>5, <1>6

LEMMA MutantsFit ==
  ASSUME NEW k \in Loci, NEW g \in GenePool(k), NEW h \in MutateGene(k, g)
  PROVE  h \in GenePool(k)
<1> DEFINE c == Candidates[k]
<1>1. PICK T \in Rebuilt(k, g) : \E S \in WithTeam(c, T) : h = [g EXCEPT !.sessions = S]
  BY DEF MutateGene
<1>2. PICK S \in WithTeam(c, T) : h = [g EXCEPT !.sessions = S] BY <1>1
<1>3. T \in [1..c.count -> SessionsOf(k)]
  <2>1. PICK r \in MutantRooms(c, g), b \in SlotDraws(k) :
          T = [i \in DOMAIN g.sessions |->
                [room |-> r[i], slots |-> b[i], lecturers |-> g.sessions[i].lecturers]]
    BY DEF Rebuilt
  <2>2. r \in [1..c.count -> RoomsOf(k)]
    <3>1. CASE g.kind = "FIXED"
      <4>1. r = [i \in DOMAIN g.sessions |-> g.sessions[i].room] BY <3>1 DEF MutantRooms
      <4> QED BY <4>1, GeneIs
    <3>2. CASE g.kind # "FIXED"
      <4> DEFINE R == IF c.rooms # {} THEN c.rooms ELSE {g.sessions[1].room}
      <4>1. ~c.fixed BY <3>2, GeneIs DEF KindOf
      <4>2. R \subseteq RoomsOf(k)
        <5>1. c.rooms \subseteq RoomsOf(k) BY <4>1, CandidateIs DEF RoomsOf
        <5>2. g.sessions[1].room \in RoomsOf(k) BY GeneIs
        <5> QED BY <5>1, <5>2
      <4>3. r \in RoomDraws(c, R) BY <3>2 DEF MutantRooms
      <4> HIDE DEF R
      <4>4. r \in [1..c.count -> R] BY <4>3, RoomsFit
      <4> QED BY <4>2, <4>4
    <3> QED BY <3>1, <3>2
  <2>3. b \in [1..c.count -> TimesOf(k)] BY SlotsFit
  <2>4. \A i \in 1..c.count :
          [room |-> r[i], slots |-> b[i], lecturers |-> g.sessions[i].lecturers] \in SessionsOf(k)
    BY <2>2, <2>3, GeneIs DEF SessionsOf
  <2> QED BY <2>1, <2>4, GeneIs, ZenonT(40)
<1>4. S \in [1..c.count -> SessionsOf(k)]
  <2>1. CASE ~IsCohort(c) BY <1>3, <2>1 DEF WithTeam
  <2>2. CASE IsCohort(c)
    <3>1. PICK i \in DOMAIN T : \E U \in Teams(c, T[i].lecturers) : S = [T EXCEPT ![i].lecturers = U]
      BY <2>2 DEF WithTeam
    <3>2. PICK U \in Teams(c, T[i].lecturers) : S = [T EXCEPT ![i].lecturers = U] BY <3>1
    <3>3. T[i] \in SessionsOf(k) /\ T[i].lecturers \in CrewsOf(k) BY <1>3, <3>1 DEF SessionsOf
    <3>4. U \in CrewsOf(k) BY <3>3, TeamFits
    <3>5. [T[i] EXCEPT !.lecturers = U] \in SessionsOf(k) BY <3>3, <3>4 DEF SessionsOf
    <3>6. S = [T EXCEPT ![i] = [T[i] EXCEPT !.lecturers = U]] BY <3>2
    <3> QED BY <1>3, <3>5, <3>6
  <2> QED BY <2>1, <2>2
<1> QED BY <1>2, <1>4, GeneIs

-----------------------------------------------------------------------------
(* What repair returns                                                     *)

\* What a gene may be replaced by, one session at a time.
Fits(k) == chromosome[k] \in GenePool(k)

LEMMA CrewIsOfPool ==
  ASSUME NEW k \in Loci, NEW L \in CrewsOf(k)
  PROVE  L \in SUBSET Pool(Candidates[k])
BY DEF CrewsOf, Teams, Pool

LEMMA AlternativesAre ==
  ASSUME NEW k \in Loci, NEW L \in CrewsOf(k)
  PROVE  LET c == Candidates[k] IN
         AlternativesOf[k][L] =
           {{T \in Teams(c, L) \ {L} : StandsTogether(f, T)} : f \in Bijection(1..Cardinality(Pool(c)), Pool(c))}
BY CrewIsOfPool DEF AlternativesOf

LEMMA SwapsFit ==
  ASSUME NEW k \in Loci, NEW b, NEW L \in CrewsOf(k), NEW T \in Swaps(k, b, L)
  PROVE  T \in CrewsOf(k)
<1>1. PICK A \in AlternativesOf[k][L] : T \in A BY DEF Swaps, FreeOf
<1>2. T \in Teams(Candidates[k], L) BY <1>1, AlternativesAre
<1> QED BY <1>2, TeamFits

LEMMA PlaceFits ==
  ASSUME NEW k \in Loci, NEW i, NEW b \in TimesOf(k), NEW r \in RoomsOf(k), NEW L \in CrewsOf(k),
         NEW s \in Place(k, i, b, r, L)
  PROVE  s \in SessionsOf(k)
<1>1. PICK T \in (IF LecturerClash(k, b, L) THEN Swaps(k, b, L) ELSE {L}) :
        s = [room |-> r, slots |-> b, lecturers |-> T]
  BY DEF Place, Sessions
<1>2. T \in CrewsOf(k) BY <1>1, SwapsFit
<1> QED BY <1>1, <1>2 DEF SessionsOf

LEMMA OtherRoomsFit ==
  ASSUME NEW k \in Loci, Fits(k), NEW s, NEW r \in OtherRooms(k, s)
  PROVE  r \in RoomsOf(k)
<1>1. ~Candidates[k].fixed /\ r \in Candidates[k].rooms
  BY GeneIs DEF OtherRooms, Fits, KindOf
<1> QED BY <1>1, CandidateIs DEF RoomsOf

LEMMA AttemptFits ==
  ASSUME NEW k \in Loci, Fits(k), NEW i, NEW s \in SessionsOf(k), NEW B \in SUBSET TimesOf(k),
         NEW x \in Attempt(k, i, s, B)
  PROVE  x \in SessionsOf(k)
<1> DEFINE here == UNION {Place(k, i, b, s.room, s.lecturers) : b \in B}
           elsewhere == UNION {Place(k, i, b, r, s.lecturers) : b \in B, r \in OtherRooms(k, s)}
           Team(b) == Swaps(k, b, s.lecturers)
                        \cup (IF MayFindNoSwap(k, b, s.lecturers) THEN {s.lecturers} ELSE {})
           anyhow == UNION {Sessions(s.room, b, Team(b)) : b \in B}
<1>1. s.room \in RoomsOf(k) /\ s.lecturers \in CrewsOf(k) BY DEF SessionsOf
<1>2. x \in here \/ x \in elsewhere \/ x \in anyhow BY DEF Attempt, Anyhow
<1>3. CASE x \in here
  <2>1. PICK b \in B : x \in Place(k, i, b, s.room, s.lecturers) BY <1>3
  <2> QED BY <1>1, <2>1, PlaceFits
<1>4. CASE x \in elsewhere
  <2>1. PICK b \in B, r \in OtherRooms(k, s) : x \in Place(k, i, b, r, s.lecturers) BY <1>4
  <2> QED BY <1>1, <2>1, PlaceFits, OtherRoomsFit
<1>5. CASE x \in anyhow
  <2>1. PICK b \in B : x \in Sessions(s.room, b, Team(b)) BY <1>5
  <2>2. PICK T \in Team(b) : x = [room |-> s.room, slots |-> b, lecturers |-> T]
    BY <2>1 DEF Sessions
  <2>3. T \in CrewsOf(k) BY <1>1, <2>2, SwapsFit
  <2> QED BY <1>1, <2>1, <2>2, <2>3 DEF SessionsOf
<1> QED BY <1>2, <1>3, <1>4, <1>5

LEMMA RepairedFits ==
  ASSUME NEW k \in Loci, Fits(k), NEW i \in 1..Candidates[k].count, NEW x \in Repaired(k, i)
  PROVE  x \in SessionsOf(k)
<1> DEFINE s == chromosome[k].sessions[i]
<1>1. s \in SessionsOf(k) BY GeneIs DEF Fits
<1> HIDE DEF s
<1>2. CASE x = s BY <1>1, <1>2
<1>3. CASE x \in Sessions(s.room, s.slots, Swaps(k, s.slots, s.lecturers))
  <2>1. PICK T \in Swaps(k, s.slots, s.lecturers) :
          x = [room |-> s.room, slots |-> s.slots, lecturers |-> T]
    BY <1>3 DEF Sessions
  <2>2. T \in CrewsOf(k) BY <1>1, <2>1, SwapsFit DEF SessionsOf
  <2> QED BY <1>1, <2>1, <2>2 DEF SessionsOf
<1>4. CASE BlocksOf[k] # {} /\ x \in Attempt(k, i, s, BlocksOf[k])
  <2>1. BlocksOf[k] \in SUBSET TimesOf(k) BY <1>4 DEF TimesOf
  <2> QED BY <1>1, <1>4, <2>1, AttemptFits
<1>5. CASE BlocksOf[k] = {} /\ x \in UNION {Attempt(k, i, s, {b}) : b \in DegradedOf[k]}
  <2>1. PICK b \in DegradedOf[k] : x \in Attempt(k, i, s, {b}) BY <1>5
  <2>2. {b} \in SUBSET TimesOf(k) BY <1>5, <2>1 DEF TimesOf
  <2> QED BY <1>1, <2>1, <2>2, AttemptFits
<1> QED BY <1>2, <1>3, <1>4, <1>5 DEF Repaired, s

\* A move to a larger room.
LEMMA UpgradedIs ==
  ASSUME NEW k \in Loci, NEW g \in GenePool(k), NEW h \in Upgraded(k, g)
  PROVE  \/ h = g
         \/ g.kind # "FIXED" /\ \E n \in DOMAIN g.sessions, r \in Candidates[k].rooms :
              /\ FreeFor(k, g, n, r)
              /\ h = [g EXCEPT !.sessions[n].room = r]
<1> DEFINE c == Candidates[k]
           Cap(i) == Capacity[g.sessions[i].room]
           Larger(i) == {r \in c.rooms : Capacity[r] > Cap(i) /\ FreeFor(k, g, i, r)}
           movable == {i \in DOMAIN g.sessions : Larger(i) # {}}
           first == Min({i \in movable : \A j \in movable : Cap(i) <= Cap(j)})
<1> SUFFICES ASSUME h # g
             PROVE  g.kind # "FIXED" /\ \E n \in DOMAIN g.sessions, r \in Candidates[k].rooms :
                      FreeFor(k, g, n, r) /\ h = [g EXCEPT !.sessions[n].room = r]
  OBVIOUS
<1>1. g.kind # "FIXED"
      /\ h \in {[g EXCEPT !.sessions[first].room = r] :
                 r \in {q \in Larger(first) : \A p \in Larger(first) : Capacity[p] <= Capacity[q]}}
  BY DEF Upgraded
<1>2. PICK r \in Larger(first) : h = [g EXCEPT !.sessions[first].room = r] BY <1>1
<1> HIDE DEF first
<1>3. r \in c.rooms /\ FreeFor(k, g, first, r) BY <1>2
<1>4. CASE first \in DOMAIN g.sessions BY <1>1, <1>2, <1>3, <1>4
<1>5. CASE first \notin DOMAIN g.sessions
  <2>1. [g.sessions EXCEPT ![first].room = r] = g.sessions BY <1>5, GeneIs
  <2>2. h = [g EXCEPT !.sessions = g.sessions] BY <1>2, <2>1
  <2>3. h = g
    <3>1. g \in [kind : {KindOf(k)}, sessions : [1..Candidates[k].count -> SessionsOf(k)]]
      BY GenePoolIs
    <3> QED BY <2>2, <3>1
  <2> QED BY <2>3
<1> QED BY <1>4, <1>5

LEMMA UpgradedFits ==
  ASSUME NEW k \in Loci, NEW g \in GenePool(k), NEW h \in Upgraded(k, g)
  PROVE  h \in GenePool(k)
<1>1. CASE h = g BY <1>1
<1>2. CASE h # g
  <2>1. g.kind # "FIXED" BY <1>2, UpgradedIs
  <2>2. PICK n \in DOMAIN g.sessions, r \in Candidates[k].rooms : h = [g EXCEPT !.sessions[n].room = r]
    BY <1>2, UpgradedIs
  <2>3. g.sessions[n] \in SessionsOf(k) /\ r \in RoomsOf(k)
    BY <2>1, <2>2, GeneIs, CandidateIs DEF KindOf, RoomsOf
  <2>4. [g.sessions[n] EXCEPT !.room = r] \in SessionsOf(k) BY <2>3 DEF SessionsOf
  <2> DEFINE S == [g.sessions EXCEPT ![n] = [g.sessions[n] EXCEPT !.room = r]]
  <2>5. S \in [1..Candidates[k].count -> SessionsOf(k)] BY <2>4, GeneIs
  <2>6. h = [g EXCEPT !.sessions = S] BY <2>2
  <2> QED BY <2>5, <2>6, GeneIs
<1> QED BY <1>1, <1>2

-----------------------------------------------------------------------------
(* The first population                                                    *)

\* What the recursion of Chromosomes says, up to a number of genes.
Grows(g, m) == g = [n \in 0..m |-> IF n = 0 THEN {<<>>} ELSE Longer(g[n - 1], n)]

LEMMA Growing == \A m \in 0..Len(Candidates) : \E g : Grows(g, m)
<1> DEFINE S == {m \in 0..Len(Candidates) : ~\E g : Grows(g, m)}
           N == Len(Candidates)
<1>1. N \in Nat BY LociAre
<1> HIDE DEF N
<1> SUFFICES ASSUME S # {} PROVE FALSE BY DEF N
<1>2. PICK m \in S : \A j \in S : m <= j
  <2>1. S \in SUBSET Nat BY <1>1 DEF N
  <2> HIDE DEF S
  <2> QED BY <2>1, LeastNatural
<1>3. m \in 0..N /\ \A g : ~Grows(g, m) BY <1>2 DEF N
<1>4. CASE m = 0
  <2> DEFINE g == [n \in 0..0 |-> {<<>>}]
  <2>1. \A n \in 0..0 : n = 0 OBVIOUS
  <2>2. g = [n \in 0..0 |-> IF n = 0 THEN {<<>>} ELSE Longer(g[n - 1], n)] BY <2>1
  <2>3. Grows(g, 0) BY <2>2 DEF Grows
  <2> QED BY <1>3, <1>4, <2>3
<1>5. CASE m # 0
  <2>1. m - 1 \in 0..N /\ m - 1 < m /\ m \in Nat BY <1>1, <1>3, <1>5
  <2>2. m - 1 \notin S BY <1>2, <2>1
  <2>3. PICK g : Grows(g, m - 1) BY <2>1, <2>2 DEF N
  <2> DEFINE h == [n \in 0..m |-> IF n = m THEN Longer(g[m - 1], m) ELSE g[n]]
  <2>4. g = [n \in 0..(m - 1) |-> IF n = 0 THEN {<<>>} ELSE Longer(g[n - 1], n)]
    BY <2>3 DEF Grows
  <2>5. ASSUME NEW n \in 0..m
        PROVE  h[n] = IF n = 0 THEN {<<>>} ELSE Longer(h[n - 1], n)
    <3>1. CASE n = m
      <4>1. h[n] = Longer(g[m - 1], m) BY <3>1
      <4>2. n - 1 \in 0..m /\ n - 1 # m /\ n # 0 BY <1>5, <2>1, <3>1
      <4>3. h[n - 1] = g[m - 1] BY <3>1, <4>2
      <4> QED BY <3>1, <4>1, <4>2, <4>3
    <3>2. CASE n # m
      <4>1. n \in 0..(m - 1) /\ h[n] = g[n] BY <2>1, <3>2
      <4>2. n # 0 => n - 1 \in 0..m /\ n - 1 # m BY <2>1
      <4>3. n # 0 => h[n - 1] = g[n - 1] BY <4>2
      <4>4. g[n] = IF n = 0 THEN {<<>>} ELSE Longer(g[n - 1], n) BY <2>4, <4>1
      <4> QED BY <4>1, <4>3, <4>4
    <3> QED BY <3>1, <3>2
  <2>6. h = [n \in 0..m |-> IF n = 0 THEN {<<>>} ELSE Longer(h[n - 1], n)]
    <3>1. DOMAIN h = 0..m /\ h = [n \in 0..m |-> h[n]] OBVIOUS
    <3> HIDE DEF h
    <3> QED BY <2>5, <3>1
  <2>7. Grows(h, m)
    <3> HIDE DEF h
    <3> QED BY <2>6 DEF Grows
  <2> QED BY <1>3, <2>7
<1> QED BY <1>4, <1>5

LEMMA ChromosomesAre == Grows(Chromosomes, Len(Candidates))
<1>1. \E g : Grows(g, Len(Candidates))
  <2>1. Len(Candidates) \in 0..Len(Candidates) BY LociAre
  <2> QED BY <2>1, Growing
<1>2. Chromosomes = CHOOSE g : Grows(g, Len(Candidates)) BY DEF Chromosomes, Grows
<1> QED BY <1>1, <1>2

LEMMA Appending ==
  ASSUME NEW T, NEW q \in Seq(T), NEW x \in T
  PROVE  /\ Append(q, x) \in Seq(T) /\ Len(Append(q, x)) = Len(q) + 1 /\ Len(q) \in Nat
         /\ Append(q, x)[Len(q) + 1] = x
         /\ \A i \in 1..Len(q) : Append(q, x)[i] = q[i]
OBVIOUS

\* A gene for each of the first n candidates, from the seeds of its locus.
SeededUpTo(n, f) ==
  /\ f \in Seq(UNION {Seeds(k) : k \in Loci}) /\ Len(f) = n
  /\ \A k \in 1..n : f[k] \in Seeds(k)

LEMMA SeededAll == \A n \in 0..Len(Candidates) : \A f \in Chromosomes[n] : SeededUpTo(n, f)
<1> DEFINE N == Len(Candidates)
           S == {n \in 0..N : ~\A f \in Chromosomes[n] : SeededUpTo(n, f)}
           U == UNION {Seeds(k) : k \in Loci}
<1>1. N \in Nat /\ Loci = 1..N BY LociAre
<1>2. \A n \in 0..N : Chromosomes[n] = IF n = 0 THEN {<<>>} ELSE Longer(Chromosomes[n - 1], n)
  BY ChromosomesAre DEF Grows
<1> HIDE DEF N
<1> SUFFICES ASSUME S # {} PROVE FALSE BY DEF N
<1>3. PICK n \in S : \A j \in S : n <= j
  <2>1. S \in SUBSET Nat BY <1>1
  <2> HIDE DEF S
  <2> QED BY <2>1, LeastNatural
<1>4. PICK f \in Chromosomes[n] : ~SeededUpTo(n, f) BY <1>3
<1>5. n \in 0..N BY <1>3
<1>6. CASE n = 0
  <2>1. f = <<>> BY <1>2, <1>4, <1>5, <1>6
  <2>2. f \in Seq(U) /\ Len(f) = 0 /\ 1..0 = {} BY <2>1
  <2> QED BY <1>4, <1>6, <2>2 DEF SeededUpTo
<1>7. CASE n # 0
  <2>1. n - 1 \in 0..N /\ n - 1 < n /\ n \in Loci /\ n \in Nat BY <1>1, <1>5, <1>7
  <2>2. n - 1 \notin S BY <1>3, <2>1
  <2>3. f \in Longer(Chromosomes[n - 1], n) BY <1>2, <1>4, <1>5, <1>7
  <2>4. PICK q \in Chromosomes[n - 1], g \in Seeds(n) : f = Append(q, g) BY <2>3 DEF Longer
  <2>5. SeededUpTo(n - 1, q) BY <2>1, <2>2, <2>4
  <2>6. q \in Seq(U) /\ Len(q) = n - 1 /\ \A k \in 1..(n - 1) : q[k] \in Seeds(k)
    BY <2>5 DEF SeededUpTo
  <2>7. g \in U BY <2>1, <2>4
  <2> HIDE DEF U
  <2>8. f \in Seq(U) /\ Len(f) = Len(q) + 1 /\ f[Len(q) + 1] = g /\ \A i \in 1..Len(q) : f[i] = q[i]
    BY <2>4, <2>6, <2>7, Appending
  <2> DEFINE m == n - 1
  <2>9. m \in Nat /\ n = m + 1 BY <2>1, <1>1, <1>5, <1>7
  <2>10. Len(f) = n /\ f[n] = g /\ \A i \in 1..m : f[i] \in Seeds(i)
    <3>1. Len(f) = m + 1 /\ f[m + 1] = g /\ \A i \in 1..m : f[i] = q[i] BY <2>6, <2>8
    <3>2. \A i \in 1..m : q[i] \in Seeds(i) BY <2>6
    <3> HIDE DEF m
    <3> QED BY <2>9, <3>1, <3>2
  <2> HIDE DEF m
  <2>11. \A i \in 1..n : i = n \/ i \in 1..m BY <2>9
  <2>12. \A i \in 1..n : f[i] \in Seeds(i) BY <2>4, <2>10, <2>11
  <2>13. SeededUpTo(n, f)  BY <2>8, <2>10, <2>12 DEF SeededUpTo, U
  <2> QED BY <1>4, <2>13
<1> QED BY <1>6, <1>7

LEMMA ChromosomesFit ==
  ASSUME NEW f \in Chromosomes[Len(Candidates)]
  PROVE  DOMAIN f = Loci /\ \A k \in Loci : f[k] \in GenePool(k)
<1>1. SeededUpTo(Len(Candidates), f)
  <2>1. Len(Candidates) \in 0..Len(Candidates) BY LociAre
  <2> QED BY <2>1, SeededAll
<1> DEFINE U == UNION {Seeds(k) : k \in Loci}
<1>2. f \in Seq(U) /\ Len(f) = Len(Candidates) /\ \A k \in 1..Len(Candidates) : f[k] \in Seeds(k)
  BY <1>1 DEF SeededUpTo
<1> HIDE DEF U
<1>3. DOMAIN f = 1..Len(f) BY <1>2
<1> QED BY <1>2, <1>3, SeedsFit DEF Loci

-----------------------------------------------------------------------------
(* Masking                                                                 *)

\* A gene of the pool at every locus, and a session of the gene under repair.
GenesInv == GenesOK /\ session \in 1..Candidates[locus].count

LEMMA CleanIsBoolean == NothingToRepair \in BOOLEAN
BY DEF NothingToRepair

LEMMA NextLocus ==
  ASSUME GenesInv, locus < Len(Candidates)
  PROVE  locus + 1 \in Loci
<1>1. Len(Candidates) \in Nat /\ locus \in 1..Len(Candidates) BY LociAre DEF GenesInv, GenesOK
<1>2. locus + 1 \in 1..Len(Candidates) BY <1>1
<1> QED BY <1>2, LociAre

\* The pass over the genes stands at one of them.
LEMMA Advances ==
  ASSUME GenesInv, NEW next, Advance(next),
         next \in {"member", "cross", "mutate", "repair", "nudge"}
  PROVE  /\ stage' \in {"member", "cross", "mutate", "repair", "nudge"}
         /\ locus' \in Loci /\ session' \in Nat \ {0} /\ session' \in 1..Candidates[locus'].count
<1>1. session' = 1 /\ locus' \in Loci
      /\ stage' \in {"member", "cross", "mutate", "repair", "nudge"}
  BY NextLocus, LociAre DEF Advance, GenesInv, GenesOK
<1>2. 1 \in 1..Candidates[locus'].count BY <1>1, CandidateIs
<1> QED BY <1>1, <1>2

\* As a pass over one gene's sessions goes on to the next session.
LEMMA NextSession ==
  ASSUME GenesInv, session < Candidates[locus].count
  PROVE  session + 1 \in Nat \ {0} /\ session + 1 \in 1..Candidates[locus].count
<1> DEFINE n == Candidates[locus].count
<1>1. n \in Nat /\ session \in 1..n BY CandidateIs DEF GenesInv, GenesOK
<1> HIDE DEF n
<1>2. session < n BY DEF n
<1>3. session + 1 \in Nat \ {0} /\ session + 1 \in 1..n BY <1>1, <1>2
<1> QED BY <1>3 DEF n

\* One gene of the chromosome replaced by another of its pool.
LEMMA Replaced ==
  ASSUME GenesInv, NEW k \in Loci, NEW g \in GenePool(k),
         chromosome' = [chromosome EXCEPT ![k] = g]
  PROVE  DOMAIN chromosome' = Loci /\ \A j \in Loci : chromosome'[j] \in GenePool(j)
<1>1. DOMAIN chromosome = Loci /\ \A j \in Loci : chromosome[j] \in GenePool(j)
  BY DEF GenesInv, GenesOK
<1> QED BY <1>1

LEMMA SelectKeepsGenes ==
  ASSUME GenesInv, Select
  PROVE  GenesInv'
<1> USE DEF GenesInv, GenesOK, Select
<1>1. DOMAIN chromosome' = Loci /\ \A k \in Loci : chromosome'[k] \in GenePool(k) OBVIOUS
<1>2. GenesOK' BY <1>1 DEF Loci, GenePool
<1> QED BY <1>2

LEMMA CrossKeepsGenes ==
  ASSUME GenesInv, Cross
  PROVE  GenesInv'
<1>1. PICK g \in {chromosome[locus]} \cup GenePool(locus) :
        chromosome' = [chromosome EXCEPT ![locus] = g]
  BY DEF Cross
<1>2. locus \in Loci /\ g \in GenePool(locus) BY DEF GenesInv, GenesOK
<1>3. DOMAIN chromosome' = Loci /\ \A k \in Loci : chromosome'[k] \in GenePool(k)
  BY <1>1, <1>2, Replaced
<1>4. Advance("mutate") /\ clean' = clean BY DEF Cross
<1>5. clean' \in BOOLEAN BY <1>4 DEF GenesInv, GenesOK
<1> QED BY <1>3, <1>4, <1>5, Advances DEF GenesInv, GenesOK

LEMMA MutateKeepsGenes ==
  ASSUME GenesInv, Mutate
  PROVE  GenesInv'
<1>1. PICK g \in {chromosome[locus]} \cup MutateGene(locus, chromosome[locus]) :
        chromosome' = [chromosome EXCEPT ![locus] = g]
  BY DEF Mutate
<1>2. locus \in Loci /\ chromosome[locus] \in GenePool(locus) BY DEF GenesInv, GenesOK
<1>3. g \in GenePool(locus) BY <1>2, MutantsFit
<1>4. DOMAIN chromosome' = Loci /\ \A k \in Loci : chromosome'[k] \in GenePool(k)
  BY <1>1, <1>2, <1>3, Replaced
<1>5. clean' \in BOOLEAN
  <2>1. NothingToRepair' \in BOOLEAN BY DEF NothingToRepair
  <2> QED BY <2>1 DEF Mutate, GenesInv, GenesOK
<1>6. Advance("repair") BY DEF Mutate
<1> QED BY <1>4, <1>5, <1>6, Advances DEF GenesInv, GenesOK

LEMMA RepairKeepsGenes ==
  ASSUME GenesInv, Repair
  PROVE  GenesInv'
<1> DEFINE g == chromosome[locus]
           i == session
           x(s) == IF g.kind = "FIXED" THEN [s EXCEPT !.room = g.sessions[1].room] ELSE s
<1>1. PICK s \in Repaired(locus, session) :
        chromosome' = [chromosome EXCEPT ![locus].sessions[session] = x(s)]
  BY DEF Repair
<1>2. locus \in Loci /\ g \in GenePool(locus) /\ i \in 1..Candidates[locus].count
      /\ DOMAIN chromosome = Loci
  BY DEF GenesInv, GenesOK
<1>3. s \in SessionsOf(locus) BY <1>1, <1>2, RepairedFits DEF Fits
<1>4. x(s) \in SessionsOf(locus)
  <2>1. g.sessions[1].room \in RoomsOf(locus) BY <1>2, GeneIs
  <2> QED BY <1>3, <2>1 DEF SessionsOf
<1> HIDE DEF x
<1> DEFINE S == [g.sessions EXCEPT ![i] = x(s)]
<1>5. S \in [1..Candidates[locus].count -> SessionsOf(locus)] BY <1>2, <1>4, GeneIs
<1>6. [g EXCEPT !.sessions = S] \in GenePool(locus) BY <1>2, <1>5, GeneIs
<1>7. chromosome' = [chromosome EXCEPT ![locus] = [g EXCEPT !.sessions = S]] BY <1>1
<1> HIDE DEF S, g
<1>8. DOMAIN chromosome' = Loci /\ \A k \in Loci : chromosome'[k] \in GenePool(k)
  BY <1>2, <1>6, <1>7, Replaced
<1>9. locus' = locus /\ clean' = clean BY DEF Repair
<1>10. 1 \in 1..Candidates[locus].count BY <1>2, CandidateIs
<1>11. session' \in Nat \ {0} /\ session' \in 1..Candidates[locus].count
       /\ stage' \in {"member", "cross", "mutate", "repair", "nudge"}
  BY <1>10, NextSession DEF Repair, GenesInv, GenesOK
<1> QED BY <1>2, <1>8, <1>9, <1>11 DEF GenesInv, GenesOK

LEMMA NudgeKeepsGenes ==
  ASSUME GenesInv, Nudge
  PROVE  GenesInv'
<1>1. PICK g \in Upgraded(locus, chromosome[locus]) : chromosome' = [chromosome EXCEPT ![locus] = g]
  BY DEF Nudge
<1>2. locus \in Loci /\ chromosome[locus] \in GenePool(locus) BY DEF GenesInv, GenesOK
<1>3. g \in GenePool(locus) BY <1>1, <1>2, UpgradedFits
<1>4. DOMAIN chromosome' = Loci /\ \A k \in Loci : chromosome'[k] \in GenePool(k)
  BY <1>1, <1>2, <1>3, Replaced
<1>5. clean' = clean BY DEF Nudge
<1>6. CASE session < Candidates[locus].count
  <2>1. session' = session + 1 /\ stage' = stage /\ locus' = locus BY <1>6 DEF Nudge
  <2> QED BY <1>4, <1>5, <1>6, <2>1, NextSession DEF GenesInv, GenesOK
<1>7. CASE ~(session < Candidates[locus].count)
  <2>1. session' = 1 /\ locus' \in Loci /\ stage' \in {"repair", "member"}
    BY <1>7, NextLocus, LociAre DEF Nudge, GenesInv, GenesOK
  <2>2. 1 \in 1..Candidates[locus'].count BY <2>1, CandidateIs
  <2> QED BY <1>4, <1>5, <2>1, <2>2 DEF GenesInv, GenesOK
<1> QED BY <1>6, <1>7

LEMMA GenesInitially ==
  ASSUME GeneticsInit
  PROVE  GenesInv
<1>1. 1 \in Loci /\ 1 \in 1..Candidates[1].count BY LociAre, CandidateIs
<1>2. DOMAIN chromosome = Loci /\ \A k \in Loci : chromosome[k] \in GenePool(k)
  BY ChromosomesFit DEF GeneticsInit
<1> QED BY <1>1, <1>2, CleanIsBoolean DEF GeneticsInit, GenesInv, GenesOK

LEMMA GenesKept ==
  ASSUME GenesInv, [GeneticsNext]_geneVars
  PROVE  GenesInv'
<1>1. CASE UNCHANGED geneVars
  <2>1. UNCHANGED <<chromosome, stage, locus, session, clean>> BY <1>1 DEF geneVars
  <2> QED BY <2>1 DEF GenesInv, GenesOK
<1> QED BY <1>1, SelectKeepsGenes, CrossKeepsGenes, MutateKeepsGenes, RepairKeepsGenes,
           NudgeKeepsGenes DEF GeneticsNext

\* Masking: whatever crossover, mutation and repair do, a locked gene keeps its
\* room and every session keeps to the rooms, the times and the teams of its
\* candidate (mutateChromosome, crossover and repairChromosome).
THEOREM GenesOKCorrect == GeneticsSpec => []GenesOK
<1>1. GenesInv => GenesOK BY DEF GenesInv
<1> QED BY <1>1, GenesInitially, GenesKept, PTL DEF GeneticsSpec

-----------------------------------------------------------------------------
(* What fitness counts as a clash                                          *)

LEMMA ImageFinite ==
  ASSUME NEW S, IsFiniteSet(S), NEW f, DOMAIN f = S
  PROVE  IsFiniteSet({f[x] : x \in S})
<1> DEFINE T == {f[x] : x \in S}
           h == [x \in S |-> f[x]]
<1>1. h \in [S -> T] /\ \A t \in T : \E x \in S : h[x] = t OBVIOUS
<1>2. h \in Surjection(S, T) BY <1>1 DEF Surjection
<1> HIDE DEF h, T
<1>3. IsFiniteSet(T) BY <1>2, FS_Surjection
<1> QED BY <1>3 DEF T

LEMMA UnionFinite ==
  ASSUME NEW S, IsFiniteSet(S), NEW f, DOMAIN f = S, \A x \in S : IsFiniteSet(f[x])
  PROVE  IsFiniteSet(UNION {f[x] : x \in S})
<1> DEFINE T == {f[x] : x \in S}
<1>1. IsFiniteSet(T) /\ \A t \in T : IsFiniteSet(t) BY ImageFinite
<1> HIDE DEF T
<1>2. IsFiniteSet(UNION T) BY <1>1, FS_UNION
<1> QED BY <1>2 DEF T

\* The uses of a room or of a lecturer, and how many are beyond the first.
Beyond(U) == Cardinality(U) - Cardinality({<<u[2], u[3]>> : u \in U})

LEMMA NoneBeyond ==
  ASSUME NEW U, IsFiniteSet(U)
  PROVE  /\ Beyond(U) \in Nat
         /\ Beyond(U) = 0 <=> \A u, v \in U : u[2] = v[2] /\ u[3] = v[3] => u = v
<1> DEFINE T == {<<u[2], u[3]>> : u \in U}
           f == [u \in U |-> <<u[2], u[3]>>]
<1>1. f \in [U -> T] /\ \A t \in T : \E u \in U : f[u] = t OBVIOUS
<1>2. f \in Surjection(U, T) BY <1>1 DEF Surjection
<1>3. \A u, v \in U : f[u] = f[v] <=> u[2] = v[2] /\ u[3] = v[3] OBVIOUS
<1>4. Beyond(U) = Cardinality(U) - Cardinality(T) BY DEF Beyond
<1> HIDE DEF f, T
<1>5. /\ IsFiniteSet(T) /\ Cardinality(T) <= Cardinality(U)
      /\ Cardinality(T) = Cardinality(U) <=> f \in Injection(U, T)
  BY <1>2, FS_Surjection
<1>6. Cardinality(U) \in Nat /\ Cardinality(T) \in Nat BY <1>5, FS_CardinalityType
<1>7. Beyond(U) \in Nat /\ (Beyond(U) = 0 <=> Cardinality(T) = Cardinality(U))
  BY <1>4, <1>5, <1>6
<1>8. f \in Injection(U, T) <=> \A u, v \in U : f[u] = f[v] => u = v
  BY <1>1 DEF Injection, IsInjective
<1> QED BY <1>3, <1>5, <1>7, <1>8

LEMMA SessionIdsAre ==
  /\ \A p \in SessionIds : /\ p[1] \in Loci /\ p[2] \in 1..Candidates[p[1]].count
                           /\ p = <<p[1], p[2]>>
  /\ \A k \in Loci : \A i \in 1..Candidates[k].count : <<k, i>> \in SessionIds
BY DEF SessionIds

LEMMA SessionIdsFinite == IsFiniteSet(SessionIds)
<1> DEFINE f == [k \in Loci |-> {<<k, i>> : i \in 1..Candidates[k].count}]
<1>1. ASSUME NEW k \in Loci PROVE IsFiniteSet(f[k])
  <2> DEFINE S == 1..Candidates[k].count
             h == [i \in S |-> <<k, i>>]
  <2>1. IsFiniteSet(S)
    <3>1. Candidates[k].count \in Nat BY CandidateIs
    <3> QED BY <3>1, FS_Interval
  <2>2. DOMAIN h = S /\ {h[i] : i \in S} = f[k] OBVIOUS
  <2> HIDE DEF h, S
  <2>3. IsFiniteSet({h[i] : i \in S}) BY <2>1, <2>2, ImageFinite
  <2> QED BY <2>2, <2>3
<1>2. DOMAIN f = Loci /\ SessionIds = UNION {f[k] : k \in Loci} BY DEF SessionIds
<1>3. IsFiniteSet(Loci) BY LociAre, FS_Interval
<1> HIDE DEF f
<1> QED BY <1>1, <1>2, <1>3, UnionFinite

\* The slots and the lecturers of a session are finitely many.
LEMMA SlotsFinite ==
  ASSUME NEW k \in Loci, NEW b \in TimesOf(k)
  PROVE  IsFiniteSet(Range(b))
<1> DEFINE d == Candidates[k].duration
<1>1. d \in Nat BY CandidateIs
<1>2. DOMAIN b \subseteq 1..d
  <2>1. CASE BlocksOf[k] # {}
    <3>1. b \in Blocks(Candidates[k].slots, d) BY <2>1 DEF TimesOf, BlocksOf
    <3> QED BY <3>1 DEF Blocks
  <2>2. CASE BlocksOf[k] = {}
    <3>1. b \in SameDaySessions(Candidates[k].slots, d) BY <2>2 DEF TimesOf, DegradedOf
    <3>2. PICK q : b = Upto(q, d) BY <3>1 DEF SameDaySessions
    <3> QED BY <3>2 DEF Upto
  <2> QED BY <2>1, <2>2
<1> HIDE DEF d
<1>3. IsFiniteSet(DOMAIN b)
  <2>1. IsFiniteSet(1..d) BY <1>1, FS_Interval
  <2> QED BY <1>2, <2>1, FS_Subset
<1>4. IsFiniteSet({b[i] : i \in DOMAIN b}) BY <1>3, ImageFinite
<1> QED BY <1>4 DEF Range

LEMMA CrewFinite ==
  ASSUME NEW k \in Loci, NEW L \in CrewsOf(k)
  PROVE  IsFiniteSet(L)
<1>1. L \subseteq Pool(Candidates[k])
  <2>1. CASE IsCohort(Candidates[k]) BY <2>1 DEF CrewsOf, Teams
  <2>2. CASE ~IsCohort(Candidates[k]) BY <2>2 DEF CrewsOf, Pool
  <2> QED BY <2>1, <2>2
<1> QED BY <1>1, PoolFinite, FS_Subset

LEMMA AtIs ==
  ASSUME GenesOK, NEW p \in SessionIds
  PROVE  /\ At(p) \in SessionsOf(p[1]) /\ At(p).room \in RoomsOf(p[1])
         /\ At(p).slots \in TimesOf(p[1]) /\ At(p).lecturers \in CrewsOf(p[1])
<1>1. p[1] \in Loci /\ p[2] \in 1..Candidates[p[1]].count BY SessionIdsAre
<1>2. chromosome[p[1]] \in GenePool(p[1]) BY <1>1 DEF GenesOK
<1> QED BY <1>1, <1>2, GeneIs DEF At

RoomUses == UNION {{<<p, At(p).room, t>> : t \in Range(At(p).slots)} : p \in SessionIds}
LecturerUses == UNION {{p} \X At(p).lecturers \X Range(At(p).slots) : p \in SessionIds}

LEMMA RoomUsesFinite ==
  ASSUME GenesOK
  PROVE  IsFiniteSet(RoomUses)
<1> DEFINE f == [p \in SessionIds |-> {<<p, At(p).room, t>> : t \in Range(At(p).slots)}]
<1>1. ASSUME NEW p \in SessionIds PROVE IsFiniteSet(f[p])
  <2> DEFINE S == Range(At(p).slots)
             h == [t \in S |-> <<p, At(p).room, t>>]
  <2>1. IsFiniteSet(S) BY AtIs, SessionIdsAre, SlotsFinite
  <2>2. DOMAIN h = S /\ {h[t] : t \in S} = f[p] OBVIOUS
  <2> HIDE DEF h, S
  <2>3. IsFiniteSet({h[t] : t \in S}) BY <2>1, <2>2, ImageFinite
  <2> QED BY <2>2, <2>3
<1>2. DOMAIN f = SessionIds /\ RoomUses = UNION {f[p] : p \in SessionIds} BY DEF RoomUses
<1> HIDE DEF f
<1> QED BY <1>1, <1>2, SessionIdsFinite, UnionFinite

LEMMA LecturerUsesFinite ==
  ASSUME GenesOK
  PROVE  IsFiniteSet(LecturerUses)
<1> DEFINE f == [p \in SessionIds |-> {p} \X At(p).lecturers \X Range(At(p).slots)]
<1>1. ASSUME NEW p \in SessionIds PROVE IsFiniteSet(f[p])
  <2> DEFINE S == At(p).lecturers \X Range(At(p).slots)
             h == [u \in S |-> <<p, u[1], u[2]>>]
  <2>1. IsFiniteSet(S)
    <3>1. IsFiniteSet(At(p).lecturers) /\ IsFiniteSet(Range(At(p).slots))
      BY AtIs, SessionIdsAre, SlotsFinite, CrewFinite
    <3> QED BY <3>1, FS_Product
  <2>2. DOMAIN h = S /\ {h[u] : u \in S} = f[p]
    <3>1. ASSUME NEW u \in S PROVE h[u] \in f[p] OBVIOUS
    <3>2. ASSUME NEW v \in f[p] PROVE \E u \in S : v = h[u]
      <4>1. PICK l \in At(p).lecturers, t \in Range(At(p).slots) : v = <<p, l, t>> OBVIOUS
      <4>2. <<l, t>> \in S /\ h[<<l, t>>] = v BY <4>1
      <4> QED BY <4>2
    <3>3. DOMAIN h = S OBVIOUS
    <3> HIDE DEF h, f, S
    <3> QED BY <3>1, <3>2, <3>3
  <2> HIDE DEF h, S
  <2>3. IsFiniteSet({h[u] : u \in S}) BY <2>1, <2>2, ImageFinite
  <2> QED BY <2>2, <2>3
<1>2. DOMAIN f = SessionIds /\ LecturerUses = UNION {f[p] : p \in SessionIds} BY DEF LecturerUses
<1> HIDE DEF f
<1> QED BY <1>1, <1>2, SessionIdsFinite, UnionFinite

\* No two sessions meet in a slot and share a room or a lecturer.
Peace ==
  \A p, q \in SessionIds : p # q /\ Range(At(p).slots) \cap Range(At(q).slots) # {} =>
    At(p).room # At(q).room /\ At(p).lecturers \cap At(q).lecturers = {}

LEMMA UseIs ==
  /\ \A u : u \in RoomUses <=>
       \E p \in SessionIds : \E t \in Range(At(p).slots) : u = <<p, At(p).room, t>>
  /\ \A u : u \in LecturerUses <=>
       \E p \in SessionIds : \E t \in Range(At(p).slots) : \E l \in At(p).lecturers : u = <<p, l, t>>
BY DEF RoomUses, LecturerUses

\* evaluateHardFitness counts nothing exactly where no two sessions clash.
LEMMA HardViolationsAre == GenesOK => HardViolations \in Nat /\ (HardViolations = 0 <=> Peace)
<1> SUFFICES ASSUME GenesOK PROVE HardViolations \in Nat /\ (HardViolations = 0 <=> Peace)
  OBVIOUS
<1>1. HardViolations = Beyond(RoomUses) + Beyond(LecturerUses)
  BY DEF HardViolations, Beyond, RoomUses, LecturerUses
<1>2. /\ Beyond(RoomUses) \in Nat
      /\ Beyond(RoomUses) = 0 <=> \A u, v \in RoomUses : u[2] = v[2] /\ u[3] = v[3] => u = v
  BY RoomUsesFinite, NoneBeyond
<1>3. /\ Beyond(LecturerUses) \in Nat
      /\ Beyond(LecturerUses) = 0 <=> \A u, v \in LecturerUses : u[2] = v[2] /\ u[3] = v[3] => u = v
  BY LecturerUsesFinite, NoneBeyond
<1>4. ASSUME Peace PROVE Beyond(RoomUses) = 0 /\ Beyond(LecturerUses) = 0
  <2>1. ASSUME NEW u \in RoomUses, NEW v \in RoomUses, u[2] = v[2], u[3] = v[3] PROVE u = v
    <3>1. PICK p \in SessionIds : \E t \in Range(At(p).slots) : u = <<p, At(p).room, t>> BY UseIs
    <3>2. PICK q \in SessionIds : \E t \in Range(At(q).slots) : v = <<q, At(q).room, t>> BY UseIs
    <3>3. PICK t \in Range(At(p).slots) : u = <<p, At(p).room, t>> BY <3>1
    <3>4. PICK z \in Range(At(q).slots) : v = <<q, At(q).room, z>> BY <3>2
    <3>5. At(p).room = At(q).room /\ t = z BY <2>1, <3>3, <3>4
    <3>6. p = q BY <1>4, <3>5 DEF Peace
    <3> QED BY <3>3, <3>4, <3>5, <3>6
  <2>2. ASSUME NEW u \in LecturerUses, NEW v \in LecturerUses, u[2] = v[2], u[3] = v[3] PROVE u = v
    <3>1. PICK p \in SessionIds :
            \E t \in Range(At(p).slots) : \E l \in At(p).lecturers : u = <<p, l, t>>
      BY UseIs
    <3>2. PICK q \in SessionIds :
            \E t \in Range(At(q).slots) : \E l \in At(q).lecturers : v = <<q, l, t>>
      BY UseIs
    <3>3. PICK t \in Range(At(p).slots), l \in At(p).lecturers : u = <<p, l, t>> BY <3>1
    <3>4. PICK z \in Range(At(q).slots), m \in At(q).lecturers : v = <<q, m, z>> BY <3>2
    <3>5. l = m /\ t = z BY <2>2, <3>3, <3>4
    <3>6. p = q BY <1>4, <3>5 DEF Peace
    <3> QED BY <3>3, <3>4, <3>5, <3>6
  <2> QED BY <1>2, <1>3, <2>1, <2>2
<1>5. ASSUME Beyond(RoomUses) = 0, Beyond(LecturerUses) = 0 PROVE Peace
  <2> SUFFICES ASSUME NEW p \in SessionIds, NEW q \in SessionIds, p # q,
                      NEW t \in Range(At(p).slots) \cap Range(At(q).slots)
               PROVE  At(p).room # At(q).room /\ At(p).lecturers \cap At(q).lecturers = {}
    BY DEF Peace
  <2>1. At(p).room # At(q).room
    <3> SUFFICES ASSUME At(p).room = At(q).room PROVE FALSE OBVIOUS
    <3> DEFINE u == <<p, At(p).room, t>>
               v == <<q, At(q).room, t>>
    <3>1. u \in RoomUses /\ v \in RoomUses BY UseIs
    <3>2. u = v BY <1>2, <1>5, <3>1
    <3> QED BY <3>2
  <2>2. ASSUME NEW l \in At(p).lecturers \cap At(q).lecturers PROVE FALSE
    <3> DEFINE u == <<p, l, t>>
               v == <<q, l, t>>
    <3>1. u \in LecturerUses /\ v \in LecturerUses BY UseIs
    <3>2. u = v BY <1>3, <1>5, <3>1
    <3> QED BY <3>2
  <2> QED BY <2>1, <2>2
<1>6. Beyond(RoomUses) + Beyond(LecturerUses) = 0 <=> Beyond(RoomUses) = 0 /\ Beyond(LecturerUses) = 0
  BY <1>2, <1>3
<1> QED BY <1>1, <1>2, <1>3, <1>4, <1>5, <1>6

-----------------------------------------------------------------------------
(* Nothing to repair                                                       *)

\* The sessions of the other genes, by their places.
LEMMA OthersAre ==
  ASSUME GenesOK, NEW k \in Loci
  PROVE  /\ \A s \in Others(k) : \E q \in SessionIds : q[1] # k /\ s = At(q)
         /\ \A q \in SessionIds : q[1] # k => At(q) \in Others(k)
<1>1. ASSUME NEW s \in Others(k) PROVE \E q \in SessionIds : q[1] # k /\ s = At(q)
  <2>1. PICK j \in Loci \ {k} : s \in Range(chromosome[j].sessions) BY DEF Others
  <2>2. DOMAIN chromosome[j].sessions = 1..Candidates[j].count BY <2>1, GeneIs DEF GenesOK
  <2>3. PICK i \in 1..Candidates[j].count : s = chromosome[j].sessions[i] BY <2>1, <2>2 DEF Range
  <2> DEFINE q == <<j, i>>
  <2>4. q \in SessionIds /\ q[1] = j /\ q[2] = i BY <2>1, <2>3, SessionIdsAre
  <2>5. s = At(q) BY <2>3, <2>4 DEF At
  <2> QED BY <2>1, <2>4, <2>5
<1>2. ASSUME NEW q \in SessionIds, q[1] # k PROVE At(q) \in Others(k)
  <2>1. q[1] \in Loci \ {k} /\ q[2] \in 1..Candidates[q[1]].count BY <1>2, SessionIdsAre
  <2>2. DOMAIN chromosome[q[1]].sessions = 1..Candidates[q[1]].count BY <2>1, GeneIs DEF GenesOK
  <2>3. At(q) \in Range(chromosome[q[1]].sessions) BY <2>1, <2>2 DEF At, Range
  <2> QED BY <2>1, <2>3 DEF Others
<1> QED BY <1>1, <1>2

LEMMA TakenIs ==
  ASSUME NEW k
  PROVE  /\ \A r, t : <<r, t>> \in RoomTaken(k) <=> \E s \in Others(k) : r = s.room /\ t \in Range(s.slots)
         /\ \A l, t : <<l, t>> \in LecturerTaken(k) <=>
              \E s \in Others(k) : l \in s.lecturers /\ t \in Range(s.slots)
BY DEF RoomTaken, LecturerTaken

LEMMA UsedIs ==
  ASSUME NEW k, NEW i
  PROVE  \A t : t \in UsedInGene(k, i) <=> \E j \in 1..(i - 1) : t \in Range(chromosome[k].sessions[j].slots)
BY DEF UsedInGene

\* Where there is nothing to repair, repairSessionAsBlock returns the session.
LEMMA RepairedIsItself ==
  ASSUME GenesOK, NothingToRepair, NEW k \in Loci, NEW i \in 1..Candidates[k].count
  PROVE  Repaired(k, i) = {chromosome[k].sessions[i]}
<1> DEFINE p == <<k, i>>
           s == chromosome[k].sessions[i]
<1>1. p \in SessionIds /\ p[1] = k /\ p[2] = i /\ At(p) = s BY SessionIdsAre DEF At
<1>2. Peace BY HardViolationsAre DEF NothingToRepair
<1>3. Len(s.slots) = Candidates[k].duration BY <1>1 DEF NothingToRepair
<1> HIDE DEF s
<1>4. ~RoomOrGeneClash(k, i, s.slots, s.room)
  <2>1. ASSUME NEW t \in Range(s.slots), t \in UsedInGene(k, i) PROVE FALSE
    <3>1. PICK j \in 1..(i - 1) : t \in Range(chromosome[k].sessions[j].slots) BY <2>1, UsedIs
    <3>2. j \in 1..Candidates[k].count /\ j # i
      <4> DEFINE n == Candidates[k].count
      <4>1. n \in Nat /\ i \in 1..n BY CandidateIs
      <4> HIDE DEF n
      <4>2. j \in 1..n /\ j # i BY <4>1, <3>1
      <4> QED BY <4>2 DEF n
    <3> DEFINE q == <<k, j>>
    <3>3. q \in SessionIds /\ q[1] = k /\ q # p /\ At(q) = chromosome[k].sessions[j]
      BY <3>2, SessionIdsAre DEF At
    <3> QED BY <1>1, <2>1, <3>1, <3>3 DEF NothingToRepair
  <2>2. ASSUME NEW t \in Range(s.slots), <<s.room, t>> \in RoomTaken(k) PROVE FALSE
    <3>1. PICK o \in Others(k) : s.room = o.room /\ t \in Range(o.slots) BY <2>2, TakenIs
    <3>2. PICK q \in SessionIds : q[1] # k /\ o = At(q) BY <3>1, OthersAre
    <3> QED BY <1>1, <1>2, <2>2, <3>1, <3>2 DEF Peace
  <2> QED BY <2>1, <2>2 DEF RoomOrGeneClash
<1>5. ~LecturerClash(k, s.slots, s.lecturers)
  <2> SUFFICES ASSUME NEW u \in (s.lecturers \X Range(s.slots)) \cap LecturerTaken(k) PROVE FALSE
    BY DEF LecturerClash
  <2>1. PICK l \in s.lecturers, t \in Range(s.slots) : u = <<l, t>> OBVIOUS
  <2>2. PICK o \in Others(k) : l \in o.lecturers /\ t \in Range(o.slots) BY <2>1, TakenIs
  <2>3. PICK q \in SessionIds : q[1] # k /\ o = At(q) BY <2>2, OthersAre
  <2> QED BY <1>1, <1>2, <2>1, <2>2, <2>3 DEF Peace
<1> QED BY <1>3, <1>4, <1>5 DEF Repaired, s

\* The repair of a timetable without a clash leaves it as it is until a session
\* moves to a larger room.
PeaceInv ==
  /\ GenesInv
  /\ clean /\ stage \in {"repair", "nudge", "member"} => NothingToRepair

\* The same, of a session and its place.
Quiet ==
  /\ Peace
  /\ \A p \in SessionIds : Len(At(p).slots) = Candidates[p[1]].duration
  /\ \A p, q \in SessionIds : p # q /\ p[1] = q[1] => Range(At(p).slots) \cap Range(At(q).slots) = {}

LEMMA NothingIsQuiet == GenesOK => (NothingToRepair <=> Quiet)
BY HardViolationsAre DEF NothingToRepair, Quiet

LEMMA SameQuiet ==
  ASSUME \A p \in SessionIds : At(p)' = At(p), Quiet
  PROVE  Quiet'
BY ZenonT(40) DEF Quiet, Peace, SessionIds, Loci

LEMMA RepairIsIdle ==
  ASSUME GenesInv, Repair, NothingToRepair
  PROVE  \A p \in SessionIds : At(p)' = At(p)
<1> DEFINE g == chromosome[locus]
           x(s) == IF g.kind = "FIXED" THEN [s EXCEPT !.room = g.sessions[1].room] ELSE s
           s0 == g.sessions[session]
<1>1. PICK s \in Repaired(locus, session) :
        chromosome' = [chromosome EXCEPT ![locus].sessions[session] = x(s)]
  BY DEF Repair
<1>2. locus \in Loci /\ g \in GenePool(locus) /\ session \in 1..Candidates[locus].count
      /\ DOMAIN chromosome = Loci
  BY DEF GenesInv, GenesOK
<1>3. s = s0 BY <1>1, <1>2, RepairedIsItself DEF GenesInv
<1>4. s0 \in SessionsOf(locus) /\ s0.room \in RoomsOf(locus) /\ g.sessions[1].room \in RoomsOf(locus)
  BY <1>2, GeneIs
<1>5. x(s0) = s0
  <2>1. CASE g.kind = "FIXED"
    <3>1. RoomsOf(locus) = {Candidates[locus].room} BY <1>2, <2>1, GeneIs DEF KindOf, RoomsOf
    <3>2. g.sessions[1].room = s0.room BY <1>4, <3>1
    <3> HIDE DEF s0
    <3>3. [s0 EXCEPT !.room = s0.room] = s0 BY <1>4 DEF SessionsOf
    <3> QED BY <2>1, <3>2, <3>3
  <2>2. CASE g.kind # "FIXED" BY <2>2
  <2> QED BY <2>1, <2>2
<1> HIDE DEF x
<1>6. chromosome' = [chromosome EXCEPT ![locus].sessions[session] = s0] BY <1>1, <1>3, <1>5
<1> SUFFICES ASSUME NEW p \in SessionIds PROVE At(p)' = At(p) OBVIOUS
<1>7. p[1] \in Loci /\ p[2] \in 1..Candidates[p[1]].count BY SessionIdsAre
<1>8. chromosome'[p[1]].sessions[p[2]] = chromosome[p[1]].sessions[p[2]]
  <2>1. CASE p[1] # locus BY <1>2, <1>6, <1>7, <2>1
  <2>2. CASE p[1] = locus
    <3>1. chromosome'[locus] = [g EXCEPT !.sessions[session] = s0] BY <1>2, <1>6
    <3>2. chromosome'[locus].sessions = [g.sessions EXCEPT ![session] = s0]
      <4>1. g \in [kind : {KindOf(locus)}, sessions : [1..Candidates[locus].count -> SessionsOf(locus)]]
        BY <1>2, GenePoolIs
      <4> QED BY <3>1, <4>1
    <3>3. [g.sessions EXCEPT ![session] = s0] = g.sessions BY <1>2, GeneIs
    <3> QED BY <2>2, <3>2, <3>3
  <2> QED BY <2>1, <2>2
<1> QED BY <1>8 DEF At

LEMMA NudgeIsQuiet ==
  ASSUME GenesInv, Nudge, Quiet
  PROVE  Quiet'
<1> DEFINE g == chromosome[locus]
<1>1. PICK h \in Upgraded(locus, g) : chromosome' = [chromosome EXCEPT ![locus] = h] BY DEF Nudge
<1>2. locus \in Loci /\ g \in GenePool(locus) /\ DOMAIN chromosome = Loci
  BY DEF GenesInv, GenesOK
<1>3. chromosome'[locus] = h /\ \A k \in Loci \ {locus} : chromosome'[k] = chromosome[k]
  BY <1>1, <1>2
<1>4. CASE h = g
  <2>1. ASSUME NEW p \in SessionIds PROVE At(p)' = At(p)
    <3>1. p[1] \in Loci BY SessionIdsAre
    <3>2. chromosome'[p[1]] = chromosome[p[1]] BY <1>3, <1>4, <3>1
    <3> QED BY <3>2 DEF At
  <2> QED BY <2>1, SameQuiet
<1>5. CASE h # g
  <2>1. PICK n \in DOMAIN g.sessions, r \in Candidates[locus].rooms :
          FreeFor(locus, g, n, r) /\ h = [g EXCEPT !.sessions[n].room = r]
    BY <1>2, <1>5, UpgradedIs
  <2>2. DOMAIN g.sessions = 1..Candidates[locus].count BY <1>2, GeneIs
  <2>3. PICK m \in SessionIds : m = <<locus, n>> /\ At(m) = g.sessions[n]
    <3>1. <<locus, n>> \in SessionIds BY <1>2, <2>1, <2>2, SessionIdsAre
    <3>2. At(<<locus, n>>) = g.sessions[n] BY DEF At
    <3> QED BY <3>1, <3>2
  <2>4. h.sessions = [g.sessions EXCEPT ![n].room = r]
    <3>1. g \in [kind : {KindOf(locus)}, sessions : [1..Candidates[locus].count -> SessionsOf(locus)]]
      BY <1>2, GenePoolIs
    <3> QED BY <2>1, <3>1
  <2>5. ASSUME NEW p \in SessionIds, p # m PROVE At(p)' = At(p)
    <3>1. p[1] \in Loci /\ p[2] \in 1..Candidates[p[1]].count /\ p = <<p[1], p[2]>> BY SessionIdsAre
    <3>2. chromosome'[p[1]].sessions[p[2]] = chromosome[p[1]].sessions[p[2]]
      <4>1. CASE p[1] # locus BY <1>3, <3>1, <4>1
      <4>2. CASE p[1] = locus
        <5>1. p[2] # n /\ p[2] \in DOMAIN g.sessions BY <2>2, <2>3, <2>5, <3>1, <4>2
        <5>2. h.sessions[p[2]] = g.sessions[p[2]] BY <2>4, <5>1
        <5> QED BY <1>3, <4>2, <5>2
      <4> QED BY <4>1, <4>2
    <3> QED BY <3>2 DEF At
  <2>6. At(m)' = [At(m) EXCEPT !.room = r]
    <3>1. h.sessions[n] = [g.sessions[n] EXCEPT !.room = r] BY <2>1, <2>4
    <3>2. chromosome'[m[1]].sessions[m[2]] = [g.sessions[n] EXCEPT !.room = r] BY <1>3, <2>3, <3>1
    <3> QED BY <2>3, <3>2 DEF At
  <2>7. At(m) \in SessionsOf(locus) BY <2>3, AtIs DEF GenesInv
  <2>8. At(m)'.room = r /\ At(m)'.slots = At(m).slots /\ At(m)'.lecturers = At(m).lecturers
    BY <2>6, <2>7 DEF SessionsOf
  <2>9. \A p \in SessionIds : At(p)'.slots = At(p).slots /\ At(p)'.lecturers = At(p).lecturers
    BY <2>5, <2>8
  <2>10. ASSUME NEW q \in SessionIds, q # m, Range(At(m).slots) \cap Range(At(q).slots) # {}
         PROVE  At(q).room # r
    <3>1. PICK t \in Range(At(m).slots) : t \in Range(At(q).slots) BY <2>10
    <3>2. q[1] \in Loci /\ q[2] \in 1..Candidates[q[1]].count /\ q = <<q[1], q[2]>> BY SessionIdsAre
    <3>3. t \in Range(g.sessions[n].slots) BY <2>3, <3>1
    <3>4. CASE q[1] # locus
      <4>1. At(q) \in Others(locus) BY <1>2, <3>4, OthersAre DEF GenesInv
      <4>2. <<r, t>> \notin RoomTaken(locus) BY <2>1, <3>3 DEF FreeFor
      <4> QED BY <3>1, <4>1, <4>2, TakenIs
    <3>5. CASE q[1] = locus
      <4>1. q[2] \in DOMAIN g.sessions \ {n} BY <2>2, <2>3, <2>10, <3>2, <3>5
      <4>2. ~(g.sessions[q[2]].room = r /\ t \in Range(g.sessions[q[2]].slots))
        BY <2>1, <3>3, <4>1 DEF FreeFor
      <4>3. At(q) = g.sessions[q[2]] BY <3>5 DEF At
      <4> QED BY <3>1, <4>2, <4>3
    <3> QED BY <3>4, <3>5
  <2>11. ASSUME NEW p \in SessionIds, NEW q \in SessionIds, p # q,
                Range(At(p)'.slots) \cap Range(At(q)'.slots) # {}
         PROVE  At(p)'.room # At(q)'.room /\ At(p)'.lecturers \cap At(q)'.lecturers = {}
    <3>1. Range(At(p).slots) \cap Range(At(q).slots) # {} BY <2>9, <2>11
    <3>2. At(p).room # At(q).room /\ At(p).lecturers \cap At(q).lecturers = {}
      BY <2>11, <3>1 DEF Quiet, Peace
    <3>3. At(p)'.room # At(q)'.room
      <4>1. CASE p = m BY <2>5, <2>8, <2>10, <2>11, <3>1, <4>1
      <4>2. CASE q = m
        <5>1. Range(At(m).slots) \cap Range(At(p).slots) # {} BY <3>1, <4>2
        <5> QED BY <2>5, <2>8, <2>10, <2>11, <5>1, <4>2
      <4>3. CASE p # m /\ q # m BY <2>5, <3>2, <4>3
      <4> QED BY <4>1, <4>2, <4>3
    <3> QED BY <2>9, <3>2, <3>3
  <2>12. \A p \in SessionIds : Len(At(p)'.slots) = Candidates[p[1]].duration BY <2>9 DEF Quiet
  <2>13. \A p, q \in SessionIds : p # q /\ p[1] = q[1] =>
           Range(At(p)'.slots) \cap Range(At(q)'.slots) = {}
    BY <2>9 DEF Quiet
  <2>14. Peace' BY <2>11 DEF Peace, SessionIds, Loci
  <2> QED BY <2>12, <2>13, <2>14 DEF Quiet, SessionIds, Loci
<1> QED BY <1>4, <1>5

LEMMA PeaceKept ==
  ASSUME PeaceInv, [GeneticsNext]_geneVars
  PROVE  PeaceInv'
<1> SUFFICES (clean /\ stage \in {"repair", "nudge", "member"} => NothingToRepair)'
  BY GenesKept DEF PeaceInv
<1> USE DEF PeaceInv
<1>1. GenesOK' => (NothingToRepair' <=> Quiet') BY NothingIsQuiet, PTL
<1>2. GenesInv /\ GenesOK /\ GenesOK' BY GenesKept DEF GenesInv
<1>3. stage \in {"member", "cross", "mutate", "repair", "nudge"} BY <1>2 DEF GenesOK
<1>4. CASE UNCHANGED geneVars
  <2>1. chromosome' = chromosome /\ clean' = clean /\ stage' = stage BY <1>4 DEF geneVars
  <2>2. ASSUME NothingToRepair PROVE NothingToRepair'
    <3>1. Quiet BY <1>2, <2>2, NothingIsQuiet
    <3>2. \A p \in SessionIds : At(p)' = At(p) BY <2>1 DEF At
    <3> QED BY <1>1, <1>2, <3>1, <3>2, SameQuiet
  <2> QED BY <2>1, <2>2
<1>5. CASE Select BY <1>5 DEF Select
<1>6. CASE Cross
  <2>1. stage' = "cross" \/ stage' = "mutate" BY <1>6 DEF Cross, Advance
  <2> QED BY <2>1
<1>7. CASE Mutate
  <2>1. stage' = "mutate" \/ stage' = "repair" BY <1>7 DEF Mutate, Advance
  <2>2. stage' = "repair" => clean' = NothingToRepair' BY <1>7 DEF Mutate
  <2> QED BY <2>1, <2>2
<1>8. CASE Repair
  <2>1. clean' = clean /\ stage = "repair" BY <1>8 DEF Repair
  <2>2. ASSUME clean PROVE NothingToRepair'
    <3>1. NothingToRepair BY <2>1, <2>2
    <3>2. Quiet BY <1>2, <3>1, NothingIsQuiet
    <3>3. Quiet' BY <1>2, <1>8, <3>1, <3>2, RepairIsIdle, SameQuiet
    <3> QED BY <1>1, <1>2, <3>3
  <2> QED BY <2>1, <2>2
<1>9. CASE Nudge
  <2>1. clean' = clean /\ stage = "nudge" BY <1>9 DEF Nudge
  <2>2. ASSUME clean PROVE NothingToRepair'
    <3>1. Quiet BY <1>2, <2>1, <2>2, NothingIsQuiet
    <3>2. Quiet' BY <1>2, <1>9, <3>1, NudgeIsQuiet
    <3> QED BY <1>1, <1>2, <3>2
  <2> QED BY <2>1, <2>2
<1> QED BY <1>4, <1>5, <1>6, <1>7, <1>8, <1>9 DEF GeneticsNext

\* A timetable with nothing to repair comes out of repairChromosome without a
\* clash: no move to a larger room takes one that is in use.
THEOREM RepairKeepsPeaceCorrect == GeneticsSpec => []RepairKeepsPeace
<1>1. GeneticsInit => PeaceInv BY GenesInitially DEF PeaceInv, GeneticsInit
<1>2. PeaceInv => RepairKeepsPeace BY DEF PeaceInv, RepairKeepsPeace, NothingToRepair
<1> QED BY <1>1, <1>2, PeaceKept, PTL DEF GeneticsSpec

-----------------------------------------------------------------------------
(* Avoidable clashes                                                       *)

\* Harmless, by what repairSessionAsBlock asks.
LEMMA HarmlessIs ==
  ASSUME NEW k, NEW i, NEW s
  PROVE  Harmless(k, i, s) <=>
           ~RoomOrGeneClash(k, i, s.slots, s.room) /\ ~LecturerClash(k, s.slots, s.lecturers)
<1>1. ASSUME Harmless(k, i, s) PROVE ~RoomOrGeneClash(k, i, s.slots, s.room)
  <2> SUFFICES ASSUME NEW t \in Range(s.slots),
                      t \in UsedInGene(k, i) \/ <<s.room, t>> \in RoomTaken(k)
               PROVE  FALSE
    BY DEF RoomOrGeneClash
  <2>1. t \notin UsedInGene(k, i) BY <1>1 DEF Harmless
  <2>2. PICK o \in Others(k) : s.room = o.room /\ t \in Range(o.slots) BY <2>1, TakenIs
  <2> QED BY <1>1, <2>2 DEF Harmless
<1>2. ASSUME Harmless(k, i, s) PROVE ~LecturerClash(k, s.slots, s.lecturers)
  <2> SUFFICES ASSUME NEW u \in (s.lecturers \X Range(s.slots)) \cap LecturerTaken(k) PROVE FALSE
    BY DEF LecturerClash
  <2>1. PICK l \in s.lecturers, t \in Range(s.slots) : u = <<l, t>> OBVIOUS
  <2>2. PICK o \in Others(k) : l \in o.lecturers /\ t \in Range(o.slots) BY <2>1, TakenIs
  <2> QED BY <1>2, <2>1, <2>2 DEF Harmless
<1>3. ASSUME ~RoomOrGeneClash(k, i, s.slots, s.room), ~LecturerClash(k, s.slots, s.lecturers)
      PROVE  Harmless(k, i, s)
  <2>1. Range(s.slots) \cap UsedInGene(k, i) = {} BY <1>3 DEF RoomOrGeneClash
  <2>2. ASSUME NEW o \in Others(k), NEW t \in Range(o.slots) \cap Range(s.slots)
        PROVE  o.room # s.room /\ o.lecturers \cap s.lecturers = {}
    <3>1. ASSUME o.room = s.room PROVE FALSE
      <4>1. <<s.room, t>> \in RoomTaken(k) BY <2>2, <3>1, TakenIs
      <4> QED BY <1>3, <2>2, <4>1 DEF RoomOrGeneClash
    <3>2. ASSUME NEW l \in o.lecturers \cap s.lecturers PROVE FALSE
      <4>1. <<l, t>> \in LecturerTaken(k) BY <2>2, <3>2, TakenIs
      <4>2. <<l, t>> \in s.lecturers \X Range(s.slots) BY <2>2, <3>2
      <4> QED BY <1>3, <4>1, <4>2 DEF LecturerClash
    <3> QED BY <3>1, <3>2
  <2> QED BY <2>1, <2>2 DEF Harmless
<1> QED BY <1>1, <1>2, <1>3

\* What Place offers is harmless.
LEMMA PlaceIsHarmless ==
  ASSUME NEW k, NEW i, NEW b, NEW r, NEW L, NEW s \in Place(k, i, b, r, L)
  PROVE  Harmless(k, i, s)
<1>1. ~RoomOrGeneClash(k, i, b, r) BY DEF Place
<1>2. PICK T \in (IF LecturerClash(k, b, L) THEN Swaps(k, b, L) ELSE {L}) :
        s = [room |-> r, slots |-> b, lecturers |-> T]
  BY DEF Place, Sessions
<1>3. ~LecturerClash(k, b, T) BY <1>2 DEF Swaps, FreeOf
<1>4. s.room = r /\ s.slots = b /\ s.lecturers = T BY <1>2
<1> QED BY <1>1, <1>3, <1>4, HarmlessIs

\* Every shuffle shows every single lecturer: it starts where the lecturer stands.
LEMMA SinglesStand ==
  ASSUME NEW P, IsFiniteSet(P), NEW n, n = Cardinality(P), NEW f \in Bijection(1..n, P),
         NEW T \in SUBSET P, Cardinality(T) = 1
  PROVE  StandsTogether(f, T)
<1>1. n \in Nat BY FS_CardinalityType
<1>2. PICK x \in P : T = {x}
  <2>1. IsFiniteSet(T) BY FS_Subset
  <2>2. \E x : T = {x} BY <2>1, FS_Singleton
  <2> QED BY <2>2
<1>3. PICK i \in 1..n : f[i] = x BY DEF Bijection, Surjection
<1>4. {y \in 1..n : {y, y + n} \cap (i..(i + 1 - 1)) # {}} = {i}
  <2> DEFINE S == i..(i + 1 - 1)
             N == 1..n
  <2>1. \A y \in N : y + n \notin S /\ (y \in S <=> y = i) BY <1>1
  <2> HIDE DEF S, N
  <2>2. {y \in N : {y, y + n} \cap S # {}} = {i} BY <1>3, <2>1 DEF N
  <2> QED BY <2>2 DEF S, N
<1>5. Cardinality(DOMAIN f) = n
  <2>1. DOMAIN f = 1..n BY DEF Bijection, Injection
  <2> QED BY <1>1, <2>1, FS_Interval
<1>6. T = {f[j] : j \in {y \in 1..n : {y, y + n} \cap (i..(i + 1 - 1)) # {}}} BY <1>2, <1>3, <1>4
<1> QED BY <1>5, <1>6 DEF StandsTogether

\* It shows every team of all but one: it starts behind the one left out.
LEMMA AllButOneStand ==
  ASSUME NEW P, IsFiniteSet(P), NEW n, n = Cardinality(P), NEW f \in Bijection(1..n, P),
         NEW T \in SUBSET P, Cardinality(T) = n - 1
  PROVE  StandsTogether(f, T)
<1>1. n \in Nat BY FS_CardinalityType
<1>2. PICK x \in P : T = P \ {x}
  <2>1. IsFiniteSet(T) BY FS_Subset
  <2>2. T # P BY <1>1
  <2>3. PICK x \in P : x \notin T BY <2>2
  <2>4. IsFiniteSet(P \ {x}) /\ Cardinality(P \ {x}) = n - 1 BY <2>3, FS_RemoveElement
  <2>5. T \subseteq P \ {x} BY <2>3
  <2>6. T = P \ {x} BY <2>4, <2>5, FS_Subset
  <2> QED BY <2>6
<1>3. DOMAIN f = 1..n BY DEF Bijection, Injection
<1>4. PICK o \in 1..n : f[o] = x BY DEF Bijection, Surjection
<1>5. \A j \in 1..n : f[j] \in P /\ (f[j] = x <=> j = o)
  BY <1>3, <1>4 DEF Bijection, Injection, IsInjective, Surjection
<1>6. \A y \in P : \E j \in 1..n : f[j] = y BY DEF Bijection, Surjection
<1> DEFINE i == IF o < n THEN o + 1 ELSE 1
           W == {y \in 1..n : {y, y + n} \cap (i..(i + (n - 1) - 1)) # {}}
<1>7. i \in 1..n BY <1>1
<1>8. \A y \in 1..n :
        y \in i..(i + (n - 1) - 1) \/ y + n \in i..(i + (n - 1) - 1) <=> y # o
  BY <1>1
<1>9. W = 1..n \ {o} BY <1>8
<1>10. Cardinality(DOMAIN f) = n BY <1>1, <1>3, FS_Interval
<1> HIDE DEF W, i
<1>11. T = {f[j] : j \in W} BY <1>2, <1>5, <1>6, <1>9
<1> QED BY <1>7, <1>10, <1>11 DEF StandsTogether, W

\* So no shuffle lets repair pass over a block and a room where the team itself,
\* or one that always stands together, could meet.
LEMMA NotPassedOver ==
  ASSUME NEW k \in Loci, NEW i, NEW L \in CrewsOf(k), NEW o, Harmless(k, i, o),
         o.lecturers \in {L} \cup AlwaysTogether(Candidates[k], L)
  PROVE  ~MayPassOver(k, i, o.slots, o.room, L)
<1> DEFINE c == Candidates[k]
           P == Pool(c)
           n == Cardinality(P)
           T == o.lecturers
<1>1. ~RoomOrGeneClash(k, i, o.slots, o.room) /\ ~LecturerClash(k, o.slots, T)
  BY HarmlessIs
<1>2. ASSUME LecturerClash(k, o.slots, L), NEW A \in AlternativesOf[k][L]
      PROVE  FreeOf(k, o.slots, A) # {}
  <2>1. T # L BY <1>1, <1>2
  <2>2. T \in Teams(c, L) /\ Cardinality(L) \in {1, n - 1} BY <2>1 DEF AlwaysTogether
  <2>3. T \in SUBSET P /\ Cardinality(T) = Cardinality(L) BY <2>2 DEF Teams
  <2>4. PICK f \in Bijection(1..n, P) : A = {U \in Teams(c, L) \ {L} : StandsTogether(f, U)}
    BY <1>2, AlternativesAre
  <2>5. StandsTogether(f, T) BY <2>2, <2>3, <2>4, PoolFinite, SinglesStand, AllButOneStand
  <2>6. T \in A BY <2>1, <2>2, <2>4, <2>5
  <2> QED BY <1>1, <2>6 DEF FreeOf
<1> QED BY <1>1, <1>2 DEF MayPassOver, MayFindNoSwap

\* An attempt over the blocks of B is harmless if any of them would be, in the
\* session's room or in another room of the candidate.
LEMMA AttemptIsHarmless ==
  ASSUME NEW k \in Loci, NEW i, NEW s, s.lecturers \in CrewsOf(k), NEW B,
         NEW x \in Attempt(k, i, s, B), NEW o, Harmless(k, i, o),
         o.slots \in B, o.room \in {s.room} \cup OtherRooms(k, s),
         o.lecturers \in {s.lecturers} \cup AlwaysTogether(Candidates[k], s.lecturers)
  PROVE  Harmless(k, i, x)
<1> DEFINE here == UNION {Place(k, i, b, s.room, s.lecturers) : b \in B}
           elsewhere == UNION {Place(k, i, b, r, s.lecturers) : b \in B, r \in OtherRooms(k, s)}
<1>1. ~MayPassOver(k, i, o.slots, o.room, s.lecturers) BY NotPassedOver
<1>2. x \in here \/ x \in elsewhere BY <1>1 DEF Attempt
<1>3. CASE x \in here
  <2>1. PICK b \in B : x \in Place(k, i, b, s.room, s.lecturers) BY <1>3
  <2> QED BY <2>1, PlaceIsHarmless
<1>4. CASE x \in elsewhere
  <2>1. PICK b \in B, r \in OtherRooms(k, s) : x \in Place(k, i, b, r, s.lecturers) BY <1>4
  <2> QED BY <2>1, PlaceIsHarmless
<1> QED BY <1>2, <1>3, <1>4

\* repairSessionAsBlock finds a harmless session where there is one.
LEMMA RepairedIsHarmless ==
  ASSUME NEW k \in Loci, NEW i, NEW x \in Repaired(k, i), NEW s, s = chromosome[k].sessions[i],
         s.lecturers \in CrewsOf(k), NEW o, Harmless(k, i, o), o.slots \in BlocksOf[k],
         o.room \in {s.room} \cup OtherRooms(k, s),
         o.lecturers \in {s.lecturers} \cup AlwaysTogether(Candidates[k], s.lecturers)
  PROVE  Harmless(k, i, x)
<1> DEFINE full == Len(s.slots) = Candidates[k].duration
           roomClash == RoomOrGeneClash(k, i, s.slots, s.room)
           teamClash == LecturerClash(k, s.slots, s.lecturers)
<1>1. CASE full /\ ~roomClash /\ ~teamClash
  <2>1. x = s BY <1>1 DEF Repaired
  <2> QED BY <1>1, <2>1, HarmlessIs
<1>2. CASE x \in Sessions(s.room, s.slots, Swaps(k, s.slots, s.lecturers)) /\ ~roomClash
  <2>1. PICK T \in Swaps(k, s.slots, s.lecturers) :
          x = [room |-> s.room, slots |-> s.slots, lecturers |-> T]
    BY <1>2 DEF Sessions
  <2>2. x.room = s.room /\ x.slots = s.slots /\ x.lecturers = T BY <2>1
  <2>3. ~LecturerClash(k, s.slots, T) BY <2>1 DEF Swaps, FreeOf
  <2> QED BY <1>2, <2>2, <2>3, HarmlessIs
<1>3. CASE x \in Attempt(k, i, s, BlocksOf[k]) BY <1>3, AttemptIsHarmless
<1>4. BlocksOf[k] # {} OBVIOUS
<1>5. \/ full /\ ~roomClash /\ ~teamClash
      \/ x \in Sessions(s.room, s.slots, Swaps(k, s.slots, s.lecturers)) /\ ~roomClash
      \/ x \in Attempt(k, i, s, BlocksOf[k])
  BY <1>4 DEF Repaired
<1> QED BY <1>1, <1>2, <1>3, <1>5

LEMMA RepairIsHarmless ==
  ASSUME GenesInv, Repair, NEW s, s = chromosome[locus].sessions[session],
         NEW o, Harmless(locus, session, o), o.slots \in BlocksOf[locus],
         o.room \in {s.room} \cup OtherRooms(locus, s),
         o.lecturers \in {s.lecturers} \cup AlwaysTogether(Candidates[locus], s.lecturers)
  PROVE  Harmless(locus, session, chromosome'[locus].sessions[session])
<1> DEFINE g == chromosome[locus]
           y(x) == IF g.kind = "FIXED" THEN [x EXCEPT !.room = g.sessions[1].room] ELSE x
<1>1. PICK x \in Repaired(locus, session) :
        chromosome' = [chromosome EXCEPT ![locus].sessions[session] = y(x)]
  BY DEF Repair
<1>2. locus \in Loci /\ g \in GenePool(locus) /\ session \in 1..Candidates[locus].count
      /\ DOMAIN chromosome = Loci
  BY DEF GenesInv, GenesOK
<1>3. Harmless(locus, session, x)
  <2>1. s.lecturers \in CrewsOf(locus) BY <1>2, GeneIs DEF SessionsOf
  <2> QED BY <1>1, <1>2, <2>1, RepairedIsHarmless
<1>4. x \in SessionsOf(locus) /\ g.sessions[1].room \in RoomsOf(locus)
  BY <1>1, <1>2, GeneIs, RepairedFits DEF Fits
<1>5. y(x) = x
  <2>1. CASE g.kind = "FIXED"
    <3>1. RoomsOf(locus) = {Candidates[locus].room} BY <1>2, <2>1, GeneIs DEF KindOf, RoomsOf
    <3>2. g.sessions[1].room = x.room BY <1>4, <3>1 DEF SessionsOf
    <3>3. [x EXCEPT !.room = x.room] = x BY <1>4 DEF SessionsOf
    <3> QED BY <2>1, <3>2, <3>3
  <2>2. CASE g.kind # "FIXED" BY <2>2
  <2> QED BY <2>1, <2>2
<1> HIDE DEF y
<1>6. chromosome'[locus].sessions[session] = x
  <2>1. chromosome'[locus] = [g EXCEPT !.sessions[session] = x] BY <1>1, <1>2, <1>5
  <2>2. g \in [kind : {KindOf(locus)}, sessions : [1..Candidates[locus].count -> SessionsOf(locus)]]
    BY <1>2, GenePoolIs
  <2>3. chromosome'[locus].sessions = [g.sessions EXCEPT ![session] = x] BY <2>1, <2>2
  <2>4. session \in DOMAIN g.sessions BY <1>2, GeneIs
  <2> HIDE DEF g
  <2> QED BY <2>3, <2>4
<1> QED BY <1>3, <1>6

\* repairSessionAsBlock leaves a clash behind only where no block and no room of
\* the candidate would have been free for the team itself, nor for any team that
\* every shuffle of the pool shows.
THEOREM NoAvoidableClashCorrect == GeneticsSpec => NoAvoidableClash
<1> DEFINE Avoids ==
      stage = "repair" =>
        LET k == locus
            c == Candidates[k]
            s == chromosome[k].sessions[session]
            options == [room : {s.room} \cup OtherRooms(k, s), slots : BlocksOf[k],
                        lecturers : {s.lecturers} \cup AlwaysTogether(c, s.lecturers)]
        IN (\E o \in options : Harmless(k, session, o)) =>
             Harmless(k, session, chromosome'[k].sessions[session])
<1>1. ASSUME GenesInv, GeneticsNext PROVE Avoids
  <2> DEFINE s == chromosome[locus].sessions[session]
             options == [room : {s.room} \cup OtherRooms(locus, s), slots : BlocksOf[locus],
                         lecturers : {s.lecturers} \cup AlwaysTogether(Candidates[locus], s.lecturers)]
  <2> SUFFICES ASSUME stage = "repair", NEW o \in options, Harmless(locus, session, o)
               PROVE  Harmless(locus, session, chromosome'[locus].sessions[session])
    OBVIOUS
  <2>1. Repair BY <1>1 DEF GeneticsNext, Select, Cross, Mutate, Nudge
  <2>2. /\ o.slots \in BlocksOf[locus] /\ o.room \in {s.room} \cup OtherRooms(locus, s)
        /\ o.lecturers \in {s.lecturers} \cup AlwaysTogether(Candidates[locus], s.lecturers)
    OBVIOUS
  <2> QED BY <1>1, <2>1, <2>2, RepairIsHarmless
<1>2. GenesInv /\ [GeneticsNext]_geneVars => [Avoids]_geneVars BY <1>1
<1> QED BY <1>2, GenesInitially, GenesKept, PTL DEF GeneticsSpec, NoAvoidableClash

-----------------------------------------------------------------------------
(* The sum of a function over a finite set                                 *)

\* What the recursion of SumFunction says of the parts of the domain in D: the
\* member chosen first, and the sum of the others.
First(s) == CHOOSE x \in s : TRUE
Adds(f, D, g) ==
  g = [s \in D |-> IF s = {} THEN 0 ELSE f[First(s)] + g[s \ {First(s)}]]
Smaller(S, n) == {s \in SUBSET S : Cardinality(s) <= n}

LEMMA SumIsChosen == \A f : SumFunction(f) = (CHOOSE g : Adds(f, SUBSET (DOMAIN f), g))[DOMAIN f]
BY DEF SumFunction, SumFunctionOnSet, FoldFunctionOnSet, MapThenFoldSet, Adds, First

LEMMA RestIs ==
  ASSUME NEW S, IsFiniteSet(S), NEW s \in SUBSET S, s # {}
  PROVE  /\ First(s) \in s /\ s \ {First(s)} \in SUBSET S
         /\ IsFiniteSet(s) /\ Cardinality(s) \in Nat
         /\ Cardinality(s \ {First(s)}) = Cardinality(s) - 1
<1>1. First(s) \in s BY DEF First
<1>2. IsFiniteSet(s) BY FS_Subset
<1>3. Cardinality(s) \in Nat BY <1>2, FS_CardinalityType
<1>4. Cardinality(s \ {First(s)}) = Cardinality(s) - 1 BY <1>1, <1>2, FS_RemoveElement
<1> QED BY <1>1, <1>2, <1>3, <1>4

LEMMA AddingUpTo ==
  ASSUME NEW S, IsFiniteSet(S), NEW f
  PROVE  \A n \in Nat : \E g : Adds(f, Smaller(S, n), g)
<1> DEFINE B == {n \in Nat : ~\E g : Adds(f, Smaller(S, n), g)}
<1> SUFFICES ASSUME B # {} PROVE FALSE OBVIOUS
<1>1. PICK n \in B : \A m \in B : n <= m
  <2>1. B \in SUBSET Nat OBVIOUS
  <2> HIDE DEF B
  <2> QED BY <2>1, LeastNatural
<1>2. n \in Nat /\ \A g : ~Adds(f, Smaller(S, n), g) BY <1>1
<1>3. CASE n = 0
  <2> DEFINE g == [s \in Smaller(S, 0) |-> 0]
  <2>1. ASSUME NEW s \in Smaller(S, 0) PROVE s = {}
    <3>1. IsFiniteSet(s) BY FS_Subset DEF Smaller
    <3>2. Cardinality(s) \in Nat /\ Cardinality(s) <= 0 BY <3>1, FS_CardinalityType DEF Smaller
    <3> QED BY <3>1, <3>2, FS_EmptySet
  <2>2. g = [s \in Smaller(S, 0) |-> IF s = {} THEN 0 ELSE f[First(s)] + g[s \ {First(s)}]] BY <2>1
  <2> HIDE DEF g
  <2>3. Adds(f, Smaller(S, 0), g) BY <2>2 DEF Adds
  <2> QED BY <1>2, <1>3, <2>3
<1>4. CASE n # 0
  <2>1. n - 1 \in Nat /\ ~(n <= n - 1) BY <1>2, <1>4
  <2>2. n - 1 \notin B BY <1>1, <2>1
  <2>3. PICK g : Adds(f, Smaller(S, n - 1), g) BY <2>1, <2>2
  <2> HIDE DEF B
  <2> DEFINE h == [s \in Smaller(S, n) |-> IF s = {} THEN 0 ELSE f[First(s)] + g[s \ {First(s)}]]
  <2>4. \A s \in Smaller(S, n - 1) : g[s] = IF s = {} THEN 0 ELSE f[First(s)] + g[s \ {First(s)}]
    BY <2>3 DEF Adds
  <2>5. ASSUME NEW s \in Smaller(S, n), s # {} PROVE g[s \ {First(s)}] = h[s \ {First(s)}]
    <3> DEFINE r == s \ {First(s)}
    <3>1. s \in SUBSET S /\ Cardinality(s) <= n BY DEF Smaller
    <3>2. r \in SUBSET S /\ Cardinality(r) = Cardinality(s) - 1 /\ Cardinality(s) \in Nat
      BY <2>5, <3>1, RestIs
    <3>3. r \in Smaller(S, n - 1) /\ r \in Smaller(S, n) BY <1>2, <3>1, <3>2 DEF Smaller
    <3> HIDE DEF r
    <3>4. h[r] = IF r = {} THEN 0 ELSE f[First(r)] + g[r \ {First(r)}] BY <3>3
    <3>5. g[r] = h[r] BY <2>4, <3>3, <3>4
    <3> QED BY <3>5 DEF r
  <2>6. h = [s \in Smaller(S, n) |-> IF s = {} THEN 0 ELSE f[First(s)] + h[s \ {First(s)}]] BY <2>5
  <2> HIDE DEF h
  <2>7. Adds(f, Smaller(S, n), h) BY <2>6 DEF Adds
  <2> QED BY <1>2, <2>7
<1> QED BY <1>3, <1>4

\* The sums of the parts of a finite domain, the whole one included.
Partial(f, S, g) ==
  /\ SumFunction(f) = g[S] /\ g[{}] = 0
  /\ \A s \in SUBSET S : s # {} => g[s] = f[First(s)] + g[s \ {First(s)}]

LEMMA PartialSums ==
  ASSUME NEW S, IsFiniteSet(S), NEW f, DOMAIN f = S
  PROVE  \E g : Partial(f, S, g)
<1>1. Smaller(S, Cardinality(S)) = SUBSET S
  <2>1. \A s \in SUBSET S : Cardinality(s) <= Cardinality(S) BY FS_Subset
  <2> QED BY <2>1 DEF Smaller
<1>2. \E g : Adds(f, SUBSET S, g)
  <2>1. Cardinality(S) \in Nat BY FS_CardinalityType
  <2>2. \E g : Adds(f, Smaller(S, Cardinality(S)), g) BY <2>1, AddingUpTo
  <2> QED BY <1>1, <2>2
<1>3. PICK g : g = CHOOSE h : Adds(f, SUBSET S, h) OBVIOUS
<1>4. Adds(f, SUBSET S, g) BY <1>2, <1>3
<1>5. SumFunction(f) = g[S] BY <1>3, SumIsChosen
<1>6. \A s \in SUBSET S : g[s] = IF s = {} THEN 0 ELSE f[First(s)] + g[s \ {First(s)}]
  BY <1>4 DEF Adds
<1> QED BY <1>5, <1>6 DEF Partial

\* A sum is zero where every summand is.
LEMMA SumOfNone ==
  ASSUME NEW S, IsFiniteSet(S), NEW f, DOMAIN f = S, \A x \in S : f[x] \in Nat
  PROVE  /\ SumFunction(f) \in Nat
         /\ SumFunction(f) = 0 <=> \A x \in S : f[x] = 0
<1>1. PICK g : Partial(f, S, g) BY PartialSums
<1>2. /\ SumFunction(f) = g[S] /\ g[{}] = 0
      /\ \A s \in SUBSET S : s # {} => g[s] = f[First(s)] + g[s \ {First(s)}]
  BY <1>1 DEF Partial
<1> DEFINE SumFits(s) == g[s] \in Nat /\ (g[s] = 0 <=> \A x \in s : f[x] = 0)
           B == {n \in Nat : \E s \in SUBSET S : Cardinality(s) = n /\ ~SumFits(s)}
<1>3. ASSUME B # {} PROVE FALSE
  <2>1. PICK n \in B : \A m \in B : n <= m
    <3>1. B \in SUBSET Nat OBVIOUS
    <3> HIDE DEF B
    <3> QED BY <1>3, <3>1, LeastNatural
  <2>2. PICK s \in SUBSET S : Cardinality(s) = n /\ ~SumFits(s) BY <2>1
  <2>3. s # {}
    <3>1. SumFits({}) BY <1>2
    <3> QED BY <2>2, <3>1
  <2> DEFINE r == s \ {First(s)}
  <2>4. /\ First(s) \in s /\ r \in SUBSET S /\ Cardinality(r) = n - 1 /\ n \in Nat
    BY <2>2, <2>3, RestIs
  <2>5. s = r \cup {First(s)} BY <2>4
  <2>6. Cardinality(r) \in Nat /\ ~(n <= Cardinality(r))
    <3>1. IsFiniteSet(r) BY <2>4, FS_Subset
    <3>2. Cardinality(r) \in Nat BY <3>1, FS_CardinalityType
    <3> QED BY <2>4, <3>2
  <2>7. SumFits(r) BY <2>1, <2>4, <2>6
  <2>8. g[s] = f[First(s)] + g[r] /\ f[First(s)] \in Nat BY <1>2, <2>3, <2>4
  <2>9. (\A x \in s : f[x] = 0) <=> (\A x \in r : f[x] = 0) /\ f[First(s)] = 0 BY <2>4, <2>5
  <2>10. SumFits(s) BY <2>7, <2>8, <2>9
  <2> QED BY <2>2, <2>10
<1>4. SumFits(S)
  <2>1. Cardinality(S) \in Nat BY FS_CardinalityType
  <2>2. Cardinality(S) \notin B BY <1>3
  <2> QED BY <2>1, <2>2
<1> QED BY <1>2, <1>4

\* The sizes of disjoint sets add up to the size of their union.
LEMMA SumOfSizes ==
  ASSUME NEW S, IsFiniteSet(S), NEW f, DOMAIN f = S, NEW F, DOMAIN F = S,
         \A x \in S : IsFiniteSet(F[x]) /\ f[x] = Cardinality(F[x]),
         \A x, y \in S : x # y => F[x] \cap F[y] = {}
  PROVE  SumFunction(f) = Cardinality(UNION {F[x] : x \in S})
<1>1. PICK g : Partial(f, S, g) BY PartialSums
<1>2. /\ SumFunction(f) = g[S] /\ g[{}] = 0
      /\ \A s \in SUBSET S : s # {} => g[s] = f[First(s)] + g[s \ {First(s)}]
  BY <1>1 DEF Partial
<1> DEFINE U(s) == UNION {F[x] : x \in s}
           SumFits(s) == IsFiniteSet(U(s)) /\ g[s] = Cardinality(U(s))
           B == {n \in Nat : \E s \in SUBSET S : Cardinality(s) = n /\ ~SumFits(s)}
<1>3. ASSUME B # {} PROVE FALSE
  <2>1. PICK n \in B : \A m \in B : n <= m
    <3>1. B \in SUBSET Nat OBVIOUS
    <3> HIDE DEF B
    <3> QED BY <1>3, <3>1, LeastNatural
  <2>2. PICK s \in SUBSET S : Cardinality(s) = n /\ ~SumFits(s) BY <2>1
  <2>3. s # {}
    <3>1. U({}) = {} OBVIOUS
    <3>2. SumFits({}) BY <1>2, <3>1, FS_EmptySet
    <3> QED BY <2>2, <3>2
  <2> DEFINE x == First(s)
             r == s \ {x}
  <2>4. /\ x \in s /\ r \in SUBSET S /\ Cardinality(r) = n - 1 /\ n \in Nat
    BY <2>2, <2>3, RestIs
  <2>5. Cardinality(r) \in Nat /\ ~(n <= Cardinality(r))
    <3>1. IsFiniteSet(r) BY <2>4, FS_Subset
    <3>2. Cardinality(r) \in Nat BY <3>1, FS_CardinalityType
    <3> QED BY <2>4, <3>2
  <2>6. SumFits(r) BY <2>1, <2>4, <2>5
  <2>7. g[s] = f[x] + g[r] BY <1>2, <2>3
  <2>8. U(s) = F[x] \cup U(r) /\ F[x] \cap U(r) = {}
    <3>1. s = r \cup {x} BY <2>4
    <3>2. \A y \in r : y \in S /\ x # y BY <2>4
    <3>3. \A y \in r : F[x] \cap F[y] = {} BY <2>4, <3>2
    <3> QED BY <3>1, <3>3
  <2>9. IsFiniteSet(F[x]) /\ f[x] = Cardinality(F[x]) BY <2>4
  <2> HIDE DEF U, x, r
  <2>10. IsFiniteSet(U(s)) /\ Cardinality(U(s)) = Cardinality(F[x]) + Cardinality(U(r)) - 0
    BY <2>6, <2>8, <2>9, FS_Union, FS_EmptySet
  <2>11. Cardinality(F[x]) \in Nat /\ Cardinality(U(r)) \in Nat BY <2>6, <2>9, FS_CardinalityType
  <2>12. SumFits(s) BY <2>6, <2>7, <2>9, <2>10, <2>11
  <2> QED BY <2>2, <2>12
<1>4. SumFits(S)
  <2>1. Cardinality(S) \in Nat BY FS_CardinalityType
  <2>2. Cardinality(S) \notin B BY <1>3
  <2> QED BY <2>1, <2>2
<1> QED BY <1>2, <1>4

-----------------------------------------------------------------------------
(* The slots of a session                                                  *)

LEMMA MaxIs ==
  ASSUME NEW S \in SUBSET Nat, S # {}, NEW n \in Nat, \A x \in S : x <= n
  PROVE  Max(S) \in S /\ \A x \in S : x <= Max(S)
<1> DEFINE T == {m \in Nat : n - m \in S}
<1>1. PICK m \in T : \A j \in T : m <= j
  <2>1. PICK x \in S : TRUE OBVIOUS
  <2>2. n - x \in Nat /\ n - (n - x) = x BY <2>1
  <2>3. n - x \in T BY <2>2
  <2>4. T # {} /\ T \in SUBSET Nat BY <2>3
  <2> HIDE DEF T
  <2> QED BY <2>4, LeastNatural
<1>2. n - m \in S BY <1>1
<1>3. ASSUME NEW x \in S PROVE x <= n - m
  <2>1. n - x \in Nat /\ n - (n - x) = x /\ x \in Nat OBVIOUS
  <2>2. n - x \in T BY <2>1
  <2>3. m <= n - x /\ m \in Nat BY <1>1, <2>2
  <2> QED BY <2>1, <2>3
<1>4. \E x \in S : \A y \in S : x >= y BY <1>2, <1>3
<1>5. Max(S) = CHOOSE x \in S : \A y \in S : x >= y BY DEF Max
<1>6. Max(S) \in S /\ \A y \in S : Max(S) >= y BY <1>4, <1>5
<1> QED BY <1>6

LEMMA RunOfType ==
  ASSUME NEW P, IsFiniteSet(P), NEW s \in P
  PROVE  RunOf(P, s) \in Nat
<1> DEFINE S == {d \in 1..Cardinality(P) : \E b \in Blocks(P, d) : s \in Range(b)}
           b == [i \in 1..1 |-> s]
<1>1. Cardinality(P) \in Nat /\ Cardinality(P) # 0 BY FS_CardinalityType, FS_EmptySet
<1>2. b \in [1..1 -> P] /\ 1..(1 - 1) = {} OBVIOUS
<1>3. b \in Blocks(P, 1) BY <1>2 DEF Blocks
<1>4. s \in Range(b) BY DEF Range
<1>5. 1 \in S BY <1>1, <1>3, <1>4
<1>6. S \in SUBSET Nat /\ \A d \in S : d <= Cardinality(P) BY <1>1
<1>7. RunOf(P, s) = Max(S) BY DEF RunOf
<1> HIDE DEF S
<1> QED BY <1>1, <1>5, <1>6, <1>7, MaxIs

\* The slots of a day stand each in a place of its own.
LEMMA DayInRunsIs ==
  ASSUME NEW P \in SUBSET Slots, NEW day
  PROVE  /\ IsFiniteSet(OnDay(P, day)) /\ OnDay(P, day) \subseteq P
         /\ DayInRuns(P, day) \in [1..Cardinality(OnDay(P, day)) -> OnDay(P, day)]
         /\ \A i, j \in 1..Cardinality(OnDay(P, day)) :
              DayInRuns(P, day)[i] = DayInRuns(P, day)[j] => i = j
<1> DEFINE D == OnDay(P, day)
           n == Cardinality(D)
           BeforeIt(t) == {s \in D : RunsBefore(P, s, t)}
<1>1. IsFiniteSet(P) BY SlotsAssumption, FS_Subset
<1>2. D \subseteq P /\ \A s \in D : s.day = day /\ s \in Slots BY DEF OnDay
<1>3. IsFiniteSet(D) BY <1>1, <1>2, FS_Subset
<1>4. n \in Nat BY <1>3, FS_CardinalityType
<1>5. \A s \in D : RunOf(P, s) \in Nat /\ s.start \in Nat BY <1>1, <1>2, RunOfType, SlotsAssumption
<1>6. \A s, t \in D : s # t => RunsBefore(P, s, t) \/ RunsBefore(P, t, s)
  BY <1>2, <1>5, StartsAssumption DEF RunsBefore
<1>7. \A s, t, u \in D : RunsBefore(P, s, t) /\ RunsBefore(P, t, u) => RunsBefore(P, s, u)
  BY <1>5 DEF RunsBefore
<1>8. \A s \in D : ~RunsBefore(P, s, s) BY <1>5 DEF RunsBefore
<1>9. DayInRuns(P, day) = [i \in 1..n |-> CHOOSE t \in D : Cardinality(BeforeIt(t)) = i - 1]
  BY DEF DayInRuns
<1> HIDE DEF D, n
<1>10. ASSUME NEW t \in D
       PROVE  /\ IsFiniteSet(BeforeIt(t)) /\ Cardinality(BeforeIt(t)) \in Nat
              /\ Cardinality(BeforeIt(t)) + 1 \in 1..n
  <2>1. BeforeIt(t) \subseteq D \ {t} BY <1>8
  <2>2. IsFiniteSet(D \ {t}) /\ Cardinality(D \ {t}) = n - 1
    BY <1>3, FS_RemoveElement DEF n
  <2>3. IsFiniteSet(BeforeIt(t)) /\ Cardinality(BeforeIt(t)) <= n - 1 BY <2>1, <2>2, FS_Subset
  <2>4. Cardinality(BeforeIt(t)) \in Nat BY <2>3, FS_CardinalityType
  <2> QED BY <1>4, <2>3, <2>4
<1>11. ASSUME NEW s \in D, NEW t \in D, RunsBefore(P, s, t)
       PROVE  Cardinality(BeforeIt(s)) < Cardinality(BeforeIt(t))
  <2>1. BeforeIt(s) \cup {s} \subseteq BeforeIt(t) BY <1>7, <1>11
  <2>2. s \notin BeforeIt(s) BY <1>8
  <2>3. Cardinality(BeforeIt(s) \cup {s}) = Cardinality(BeforeIt(s)) + 1 BY <1>10, <2>2, FS_AddElement
  <2>4. Cardinality(BeforeIt(s) \cup {s}) <= Cardinality(BeforeIt(t)) BY <1>10, <2>1, FS_Subset
  <2> QED BY <1>10, <2>3, <2>4
<1> DEFINE f == [t \in D |-> Cardinality(BeforeIt(t)) + 1]
<1>12. ASSUME NEW s \in D, NEW t \in D, s # t PROVE Cardinality(BeforeIt(s)) # Cardinality(BeforeIt(t))
  <2>1. CASE RunsBefore(P, s, t) BY <1>10, <1>11, <2>1
  <2>2. CASE RunsBefore(P, t, s) BY <1>10, <1>11, <2>2
  <2> QED BY <1>6, <1>12, <2>1, <2>2
<1>13. f \in Injection(D, 1..n)
  <2>1. f \in [D -> 1..n] BY <1>10
  <2>2. ASSUME NEW s \in D, NEW t \in D, f[s] = f[t] PROVE s = t
    <3>1. Cardinality(BeforeIt(s)) + 1 = Cardinality(BeforeIt(t)) + 1 BY <2>2
    <3>2. Cardinality(BeforeIt(s)) = Cardinality(BeforeIt(t)) BY <1>10, <3>1
    <3> QED BY <1>12, <3>2
  <2> HIDE DEF f
  <2> QED BY <2>1, <2>2 DEF Injection, IsInjective
<1>14. ASSUME NEW i \in 1..n PROVE \E t \in D : Cardinality(BeforeIt(t)) = i - 1
  <2>1. IsFiniteSet(1..n) /\ Cardinality(1..n) = n BY <1>4, FS_Interval
  <2> HIDE DEF f
  <2>2. f \in Surjection(D, 1..n) BY <1>13, <2>1, FS_Injection DEF n
  <2>3. PICK t \in D : f[t] = i BY <2>2 DEF Surjection
  <2>4. Cardinality(BeforeIt(t)) + 1 = i /\ Cardinality(BeforeIt(t)) \in Nat BY <2>3, <1>10 DEF f
  <2> QED BY <2>4
<1> DEFINE q == DayInRuns(P, day)
<1>15. ASSUME NEW i \in 1..n PROVE q[i] \in D /\ Cardinality(BeforeIt(q[i])) = i - 1
  <2>1. q[i] = CHOOSE t \in D : Cardinality(BeforeIt(t)) = i - 1 BY <1>9
  <2> QED BY <1>14, <2>1
<1>16. q \in [1..n -> D] BY <1>9, <1>15
<1>17. ASSUME NEW i \in 1..n, NEW j \in 1..n, q[i] = q[j] PROVE i = j
  <2>1. i - 1 = j - 1 BY <1>15, <1>17
  <2> QED BY <1>4, <2>1
<1> QED BY <1>2, <1>3, <1>16, <1>17 DEF D, n

\* The slots of a session are slots of its candidate, and all different.
LEMMA SessionSlotsAre ==
  ASSUME NEW k \in Loci, NEW b \in TimesOf(k)
  PROVE  /\ Len(b) \in Nat /\ b \in [1..Len(b) -> Slots]
         /\ \A i, j \in 1..Len(b) : b[i] = b[j] => i = j
<1> DEFINE P == Candidates[k].slots
           d == Candidates[k].duration
<1>1. P \in SUBSET Slots /\ d \in Nat \ {0} BY CandidatesAssumption
<1> HIDE DEF P, d
<1>2. CASE BlocksOf[k] # {}
  <2>1. b \in Blocks(P, d) BY <1>2 DEF TimesOf, BlocksOf, P, d
  <2>2. b \in [1..d -> P] /\ \A i \in 1..(d - 1) : Adjacent(P, b[i], b[i + 1])
    BY <2>1 DEF Blocks
  <2>3. Len(b) = d BY <1>1, <2>2, LenProperties
  <2>4. \A i \in 1..d : b[i].start \in Nat BY <1>1, <2>2, SlotsAssumption
  <2>5. \A i, j \in 1..d : i < j => b[i].start < b[j].start
    <3> DEFINE B == {j \in 1..d : \E i \in 1..d : i < j /\ ~(b[i].start < b[j].start)}
    <3>1. ASSUME B # {} PROVE FALSE
      <4>1. PICK j \in B : \A m \in B : j <= m
        <5>1. B \in SUBSET Nat BY <1>1
        <5> HIDE DEF B
        <5> QED BY <3>1, <5>1, LeastNatural
      <4>2. PICK i \in 1..d : i < j /\ ~(b[i].start < b[j].start) BY <4>1
      <4>3. j \in 1..d /\ j - 1 \in 1..(d - 1) /\ j - 1 \in 1..d /\ ~(j <= j - 1) BY <1>1, <4>1, <4>2
      <4>4. Adjacent(P, b[j - 1], b[(j - 1) + 1]) BY <2>2, <4>3
      <4>5. (j - 1) + 1 = j BY <4>3
      <4>6. b[j - 1].start < b[j].start BY <4>4, <4>5 DEF Adjacent
      <4>7. i = j - 1 \/ i < j - 1 BY <4>2, <4>3
      <4>8. j - 1 \notin B BY <4>1, <4>3
      <4>9. i = j - 1 \/ b[i].start < b[j - 1].start BY <4>2, <4>3, <4>7, <4>8
      <4>10. b[i].start < b[j].start
        <5>1. CASE i = j - 1 BY <4>6, <5>1
        <5>2. CASE b[i].start < b[j - 1].start BY <2>4, <4>2, <4>3, <4>6, <5>2
        <5> QED BY <4>9, <5>1, <5>2
      <4> QED BY <4>2, <4>10
    <3> QED BY <3>1
  <2>6. ASSUME NEW i \in 1..d, NEW j \in 1..d, b[i] = b[j] PROVE i = j
    <3>1. ~(i < j) /\ ~(j < i) BY <2>4, <2>5, <2>6
    <3> QED BY <1>1, <3>1
  <2> QED BY <1>1, <2>2, <2>3, <2>6
<1>3. CASE BlocksOf[k] = {}
  <2>1. b \in SameDaySessions(P, d) BY <1>3 DEF TimesOf, DegradedOf, P, d
  <2>2. PICK day : b = Upto(DayInRuns(P, day), d) BY <2>1 DEF SameDaySessions
  <2> DEFINE q == DayInRuns(P, day)
             m == Cardinality(OnDay(P, day))
  <2>3. m \in Nat BY <1>1, DayInRunsIs, FS_CardinalityType
  <2>4. q \in [1..m -> P] /\ \A i, j \in 1..m : q[i] = q[j] => i = j
    <3>1. OnDay(P, day) \subseteq P /\ q \in [1..m -> OnDay(P, day)] BY <1>1, DayInRunsIs
    <3>2. \A i, j \in 1..m : q[i] = q[j] => i = j BY <1>1, DayInRunsIs
    <3> HIDE DEF q, m
    <3> QED BY <3>1, <3>2
  <2>5. b = [i \in (1..m) \cap (1..d) |-> q[i]] BY <2>2, <2>4 DEF Upto
  <2> HIDE DEF q, m
  <2>6. PICK n \in Nat : (1..m) \cap (1..d) = 1..n
    <3>1. CASE m <= d
      <4>1. (1..m) \cap (1..d) = 1..m BY <1>1, <2>3, <3>1
      <4> QED BY <2>3, <4>1
    <3>2. CASE ~(m <= d)
      <4>1. (1..m) \cap (1..d) = 1..d BY <1>1, <2>3, <3>2
      <4> QED BY <1>1, <4>1
    <3> QED BY <3>1, <3>2
  <2>7. b \in [1..n -> Slots] /\ \A i, j \in 1..n : b[i] = b[j] => i = j
    BY <1>1, <2>4, <2>5, <2>6
  <2>8. Len(b) = n BY <2>7, LenProperties
  <2> QED BY <2>7, <2>8
<1> QED BY <1>2, <1>3

LEMMA SlotsCounted ==
  ASSUME NEW k \in Loci, NEW b \in TimesOf(k)
  PROVE  Range(b) \subseteq Slots /\ IsFiniteSet(Range(b)) /\ Cardinality(Range(b)) = Len(b)
<1>1. /\ Len(b) \in Nat /\ b \in [1..Len(b) -> Slots]
      /\ \A i, j \in 1..Len(b) : b[i] = b[j] => i = j
  BY SessionSlotsAre
<1> DEFINE n == Len(b)
<1> HIDE DEF n
<1>2. n \in Nat /\ b \in [1..n -> Slots] /\ \A i, j \in 1..n : b[i] = b[j] => i = j BY <1>1 DEF n
<1>3. Range(b) \subseteq Slots /\ b \in Surjection(1..n, Range(b)) BY <1>2 DEF Range, Surjection
<1>4. b \in Injection(1..n, Range(b)) BY <1>2, <1>3 DEF Injection, IsInjective, Surjection
<1>5. IsFiniteSet(1..n) /\ Cardinality(1..n) = n BY <1>2, FS_Interval
<1> QED BY <1>3, <1>4, <1>5, FS_Surjection DEF n

-----------------------------------------------------------------------------
(* What the penalties mean                                                 *)

LEMMA GapIs ==
  ASSUME NEW s \in Slots, NEW t \in Slots
  PROVE  Gap(s, t) \in Nat /\ (Gap(s, t) = 0 <=> s.day = t.day /\ s.end = t.start)
<1> DEFINE B == {u \in OnDay(Slots, s.day) :
                   \/ s.start < u.start /\ u.start < t.start
                   \/ t.start < u.start /\ u.start < s.start}
           S == {1, Cardinality(B)}
<1>1. IsFiniteSet(B)
  <2>1. B \subseteq Slots BY DEF OnDay
  <2> HIDE DEF B
  <2> QED BY <2>1, SlotsAssumption, FS_Subset
<1>2. Cardinality(B) \in Nat BY <1>1, FS_CardinalityType
<1>3. Gap(s, t) = IF s.day # t.day THEN MaxDayGap ELSE IF s.end = t.start THEN 0 ELSE Max(S)
  BY DEF Gap
<1> HIDE DEF B
<1>4. Max(S) \in Nat /\ Max(S) >= 1
  <2>1. S \in SUBSET Nat /\ S # {} /\ 1 \in S BY <1>2
  <2>2. 1 + Cardinality(B) \in Nat /\ \A x \in S : x <= 1 + Cardinality(B) BY <1>2
  <2> HIDE DEF S
  <2>3. Max(S) \in S /\ \A x \in S : x <= Max(S) BY <2>1, <2>2, MaxIs
  <2> QED BY <2>1, <2>3
<1> HIDE DEF S
<1> QED BY <1>3, <1>4 DEF MaxDayGap

LEMMA FragmentationIs ==
  ASSUME NEW b, Len(b) \in Nat, b \in [1..Len(b) -> Slots]
  PROVE  /\ Fragmentation(b) \in Nat
         /\ b \in Blocks(Slots, Len(b)) => Fragmentation(b) = 0
         /\ DaysInOrder /\ Fragmentation(b) = 0 => b \in Blocks(Slots, Len(b))
<1> DEFINE n == Len(b)
           S == 1..(n - 1)
           f == [i \in S |-> Gap(b[i], b[i + 1])]
<1>1. Fragmentation(b) = SumFunction(f) BY DEF Fragmentation
<1>2. b \in Blocks(Slots, Len(b)) <=> \A i \in S : Adjacent(Slots, b[i], b[i + 1]) BY DEF Blocks
<1>3. n \in Nat /\ b \in [1..n -> Slots] OBVIOUS
<1> HIDE DEF n
<1>4. IsFiniteSet(S)
  <2>1. n - 1 \in Int BY <1>3
  <2> QED BY <2>1, FS_Interval
<1>5. \A i \in S : b[i] \in Slots /\ b[i + 1] \in Slots
  <2>1. \A i \in S : i \in 1..n /\ i + 1 \in 1..n BY <1>3
  <2> QED BY <1>3, <2>1
<1>6. DOMAIN f = S /\ \A i \in S : f[i] = Gap(b[i], b[i + 1]) OBVIOUS
<1> HIDE DEF S, f
<1>7. \A i \in S : f[i] \in Nat
                   /\ (f[i] = 0 <=> b[i].day = b[i + 1].day /\ b[i].end = b[i + 1].start)
  BY <1>5, <1>6, GapIs
<1>8. SumFunction(f) \in Nat /\ (SumFunction(f) = 0 <=> \A i \in S : f[i] = 0)
  BY <1>4, <1>6, <1>7, SumOfNone
<1>9. ASSUME NEW i \in S, Adjacent(Slots, b[i], b[i + 1]) PROVE f[i] = 0
  BY <1>7, <1>9 DEF Adjacent
<1>10. ASSUME DaysInOrder, NEW i \in S, f[i] = 0 PROVE Adjacent(Slots, b[i], b[i + 1])
  <2>1. b[i].day = b[i + 1].day /\ b[i].end = b[i + 1].start BY <1>7, <1>10
  <2>2. b[i] \in Slots /\ b[i + 1] \in Slots BY <1>5
  <2>3. b[i].start < b[i].end BY <1>10, <2>2 DEF DaysInOrder
  <2>4. \A u \in Slots : u.day = b[i].day => ~(b[i].start < u.start /\ u.start < b[i].end)
    BY <1>10, <2>2 DEF DaysInOrder
  <2> QED BY <2>1, <2>3, <2>4 DEF Adjacent
<1> QED BY <1>1, <1>2, <1>8, <1>9, <1>10

\* The load of a lecturer is what the lecturer teaches.
LEMMA LoadIs ==
  ASSUME GenesOK, NEW l
  PROVE  Load(l) = Cardinality(Taught(l)) /\ Load(l) \in Nat /\ IsFiniteSet(Taught(l))
<1> DEFINE S == {q \in SessionIds : l \in At(q).lecturers}
           f == [p \in S |-> Len(At(p).slots)]
           F == [p \in S |-> {p} \X Range(At(p).slots)]
<1>1. Load(l) = SumFunction(f) BY DEF Load
<1>2. IsFiniteSet(S)
  <2>1. S \subseteq SessionIds OBVIOUS
  <2> QED BY <2>1, SessionIdsFinite, FS_Subset
<1>3. ASSUME NEW p \in S
      PROVE  IsFiniteSet(F[p]) /\ f[p] = Cardinality(F[p]) /\ Range(At(p).slots) \subseteq Slots
  <2> DEFINE R == Range(At(p).slots)
  <2>1. R \subseteq Slots /\ IsFiniteSet(R) /\ Cardinality(R) = Len(At(p).slots)
    BY AtIs, SessionIdsAre, SlotsCounted
  <2>2. F[p] = {p} \X R /\ f[p] = Len(At(p).slots) OBVIOUS
  <2> HIDE DEF R, F, f, S
  <2>3. IsFiniteSet({p}) /\ Cardinality({p}) = 1 BY FS_Singleton
  <2>4. IsFiniteSet({p} \X R) /\ Cardinality({p} \X R) = 1 * Cardinality(R)
    BY <2>1, <2>3, FS_Product
  <2>5. Cardinality(R) \in Nat BY <2>1, FS_CardinalityType
  <2> QED BY <2>1, <2>2, <2>4, <2>5 DEF R
<1>4. \A p, q \in S : p # q => F[p] \cap F[q] = {} OBVIOUS
<1>5. UNION {F[p] : p \in S} = Taught(l)
  <2>1. ASSUME NEW u \in UNION {F[p] : p \in S} PROVE u \in Taught(l)
    <3>1. PICK p \in S : u \in F[p] BY <2>1
    <3>2. PICK t \in Range(At(p).slots) : u = <<p, t>> BY <3>1
    <3>3. t \in Slots BY <1>3, <3>1, <3>2
    <3> QED BY <3>1, <3>2, <3>3 DEF Taught
  <2>2. ASSUME NEW u \in Taught(l) PROVE u \in UNION {F[p] : p \in S}
    <3>1. PICK p \in SessionIds, t \in Slots : u = <<p, t>> BY DEF Taught
    <3>2. l \in At(p).lecturers /\ t \in Range(At(p).slots) BY <3>1 DEF Taught
    <3>3. p \in S /\ u \in F[p] BY <3>1, <3>2
    <3> HIDE DEF F, S
    <3> QED BY <3>3
  <2> HIDE DEF F, S
  <2> QED BY <2>1, <2>2
<1>6. DOMAIN f = S /\ DOMAIN F = S OBVIOUS
<1> HIDE DEF S, f, F
<1>7. SumFunction(f) = Cardinality(UNION {F[p] : p \in S})
  BY <1>2, <1>3, <1>4, <1>6, SumOfSizes
<1>8. IsFiniteSet(UNION {F[p] : p \in S}) BY <1>2, <1>3, <1>6, UnionFinite
<1>9. Cardinality(Taught(l)) \in Nat BY <1>5, <1>8, FS_CardinalityType
<1> QED BY <1>1, <1>5, <1>7, <1>8, <1>9

LEMMA OverIs ==
  ASSUME NEW n \in Nat, NEW m \in Nat
  PROVE  Over(n, m) \in Nat /\ (Over(n, m) = 0 <=> n <= m)
BY DEF Over

LEMMA StructuralMeans ==
  ASSUME GenesOK
  PROVE  /\ StructuralPenalty \in Nat
         /\ StructuralPenalty = 0 <=>
              \A l \in DOMAIN Staff : Staff[l].structural => Cardinality(Taught(l)) <= StructuralMaxSessions
<1> DEFINE S == DOMAIN Staff
           f == [l \in S |-> IF Staff[l].structural THEN Over(Load(l), StructuralMaxSessions) ELSE 0]
<1>1. StructuralPenalty = SumFunction(f) /\ DOMAIN f = S BY DEF StructuralPenalty
<1>2. IsFiniteSet(S) /\ \A l \in S : Staff[l].structural \in BOOLEAN BY StaffAssumption
<1>3. ASSUME NEW l \in S
      PROVE  /\ f[l] \in Nat
             /\ f[l] = 0 <=> (Staff[l].structural => Cardinality(Taught(l)) <= StructuralMaxSessions)
  <2>1. Load(l) = Cardinality(Taught(l)) /\ Load(l) \in Nat BY LoadIs
  <2>2. /\ Over(Load(l), StructuralMaxSessions) \in Nat
        /\ Over(Load(l), StructuralMaxSessions) = 0 <=> Load(l) <= StructuralMaxSessions
    BY <2>1, OverIs DEF StructuralMaxSessions
  <2>3. f[l] = IF Staff[l].structural THEN Over(Load(l), StructuralMaxSessions) ELSE 0 OBVIOUS
  <2> HIDE DEF f
  <2> QED BY <1>2, <2>1, <2>2, <2>3
<1> HIDE DEF f, S
<1>4. SumFunction(f) \in Nat /\ (SumFunction(f) = 0 <=> \A l \in S : f[l] = 0)
  BY <1>1, <1>2, <1>3, SumOfNone
<1> QED BY <1>1, <1>3, <1>4 DEF S

LEMMA LoadMeans ==
  ASSUME GenesOK
  PROVE  /\ LoadPenalty \in Nat
         /\ LoadPenalty = 0 <=> \A l \in DOMAIN Staff : Cardinality(Taught(l)) <= Staff[l].maxSks
<1> DEFINE S == DOMAIN Staff
           f == [l \in S |-> Over(Load(l), Staff[l].maxSks)]
<1>1. LoadPenalty = SumFunction(f) /\ DOMAIN f = S BY DEF LoadPenalty
<1>2. IsFiniteSet(S) /\ \A l \in S : Staff[l].maxSks \in Nat BY StaffAssumption
<1>3. ASSUME NEW l \in S
      PROVE  f[l] \in Nat /\ (f[l] = 0 <=> Cardinality(Taught(l)) <= Staff[l].maxSks)
  <2>1. Load(l) = Cardinality(Taught(l)) /\ Load(l) \in Nat BY LoadIs
  <2>2. /\ Over(Load(l), Staff[l].maxSks) \in Nat
        /\ Over(Load(l), Staff[l].maxSks) = 0 <=> Load(l) <= Staff[l].maxSks
    BY <1>2, <2>1, OverIs
  <2>3. f[l] = Over(Load(l), Staff[l].maxSks) OBVIOUS
  <2> HIDE DEF f
  <2> QED BY <2>1, <2>2, <2>3
<1> HIDE DEF f, S
<1>4. SumFunction(f) \in Nat /\ (SumFunction(f) = 0 <=> \A l \in S : f[l] = 0)
  BY <1>1, <1>2, <1>3, SumOfNone
<1> QED BY <1>1, <1>3, <1>4 DEF S

LEMMA PreferenceMeans ==
  ASSUME GenesOK
  PROVE  /\ PreferencePenalty \in Nat
         /\ PreferencePenalty = 0 <=>
              \A l \in DOMAIN Staff :
                Staff[l].preferred = {} \/ {u[2] : u \in Taught(l)} \subseteq Staff[l].preferred
<1> DEFINE D == DOMAIN Staff
           U == {u \in SessionIds \X D \X Slots :
                   /\ u[2] \in At(u[1]).lecturers /\ u[3] \in Range(At(u[1]).slots)
                   /\ Staff[u[2]].preferred # {} /\ u[3] \notin Staff[u[2]].preferred}
<1>1. PreferencePenalty = Cardinality(U) BY DEF PreferencePenalty
<1>2. IsFiniteSet(U)
  <2>1. IsFiniteSet(D) /\ IsFiniteSet(Slots) BY StaffAssumption, SlotsAssumption
  <2>2. IsFiniteSet(D \X Slots) BY <2>1, FS_Product
  <2> DEFINE f == [p \in SessionIds |-> {u \in U : u[1] = p}]
  <2>3. ASSUME NEW p \in SessionIds PROVE IsFiniteSet(f[p])
    <3> DEFINE h == [v \in D \X Slots |-> <<p, v[1], v[2]>>]
               H == {h[v] : v \in D \X Slots}
    <3>1. DOMAIN h = D \X Slots OBVIOUS
    <3>2. f[p] \subseteq H
      <4>1. ASSUME NEW u \in f[p] PROVE u \in H
        <5>1. u \in U /\ u[1] = p OBVIOUS
        <5>2. PICK q \in SessionIds, l \in D, t \in Slots : u = <<q, l, t>> BY <5>1
        <5>3. u = <<p, l, t>> BY <5>1, <5>2
        <5>4. <<l, t>> \in D \X Slots /\ h[<<l, t>>] = u BY <5>3
        <5> HIDE DEF h
        <5> QED BY <5>4
      <4> HIDE DEF f, H
      <4> QED BY <4>1
    <3> HIDE DEF h
    <3>3. IsFiniteSet(H) BY <2>2, <3>1, ImageFinite
    <3> HIDE DEF H, f
    <3> QED BY <3>2, <3>3, FS_Subset
  <2>4. DOMAIN f = SessionIds OBVIOUS
  <2>5. U \subseteq UNION {f[p] : p \in SessionIds}
    <3>1. ASSUME NEW u \in U PROVE u[1] \in SessionIds /\ u \in f[u[1]] OBVIOUS
    <3> HIDE DEF U, f
    <3> QED BY <3>1
  <2> HIDE DEF f, U
  <2>6. IsFiniteSet(UNION {f[p] : p \in SessionIds})
    BY <2>3, <2>4, SessionIdsFinite, UnionFinite
  <2> QED BY <2>5, <2>6, FS_Subset
<1>3. Cardinality(U) \in Nat /\ (Cardinality(U) = 0 <=> U = {})
  <2> HIDE DEF U
  <2> QED BY <1>2, FS_CardinalityType, FS_EmptySet
<1>4. ASSUME U = {}, NEW l \in D, Staff[l].preferred # {}, NEW u \in Taught(l)
      PROVE  u[2] \in Staff[l].preferred
  <2>1. PICK p \in SessionIds, t \in Slots : u = <<p, t>> BY DEF Taught
  <2>2. l \in At(p).lecturers /\ t \in Range(At(p).slots) BY <2>1 DEF Taught
  <2>3. <<p, l, t>> \notin U BY <1>4
  <2> QED BY <1>4, <2>1, <2>2, <2>3
<1>5. ASSUME NEW u \in U
      PROVE  ~\A l \in D : Staff[l].preferred = {} \/ {v[2] : v \in Taught(l)} \subseteq Staff[l].preferred
  <2>1. PICK p \in SessionIds, l \in D, t \in Slots : u = <<p, l, t>> OBVIOUS
  <2>2. /\ l \in At(p).lecturers /\ t \in Range(At(p).slots)
        /\ Staff[l].preferred # {} /\ t \notin Staff[l].preferred
    BY <2>1
  <2>3. <<p, t>> \in Taught(l) /\ <<p, t>>[2] = t BY <2>2 DEF Taught
  <2>4. t \in {v[2] : v \in Taught(l)} BY <2>3
  <2> HIDE DEF U
  <2> QED BY <2>2, <2>4
<1> HIDE DEF U
<1> QED BY <1>1, <1>3, <1>4, <1>5

LEMMA SeatsIs ==
  ASSUME NEW k \in Loci, NEW g \in GenePool(k), Candidates[k].room = None
  PROVE  Seats(g) \in Nat
<1> DEFINE c == Candidates[k]
           S == DOMAIN g.sessions
           f == [i \in S |-> Capacity[g.sessions[i].room]]
<1>1. Seats(g) = SumFunction(f) /\ DOMAIN f = S BY DEF Seats
<1>2. S = 1..c.count /\ c.count \in Nat /\ \A i \in S : g.sessions[i].room \in RoomsOf(k)
  BY GeneIs, CandidateIs
<1>3. IsFiniteSet(S) BY <1>2, FS_Interval
<1>4. \A i \in S : f[i] \in Nat
  <2>1. RoomsOf(k) \subseteq (c.rooms \cup {c.room}) \ {None} BY CandidateIs DEF RoomsOf
  <2>2. \A r \in (c.rooms \cup {c.room}) \ {None} : Capacity[r] \in Nat BY SeatsAssumption
  <2> QED BY <1>2, <2>1, <2>2
<1> HIDE DEF f, S
<1> QED BY <1>1, <1>3, <1>4, SumOfNone

LEMMA CapacityMeans ==
  ASSUME GenesOK
  PROVE  /\ CapacityShortfallPenalty \in Nat
         /\ CapacityShortfallPenalty = 0 <=>
              \A k \in Loci : Candidates[k].room = None => Seats(chromosome[k]) >= Candidates[k].students
<1> DEFINE f == [k \in Loci |-> IF Candidates[k].room = None
                                THEN Over(Candidates[k].students, Seats(chromosome[k])) ELSE 0]
<1>1. CapacityShortfallPenalty = SumFunction(f) /\ DOMAIN f = Loci BY DEF CapacityShortfallPenalty
<1>2. IsFiniteSet(Loci) BY LociAre, FS_Interval
<1>3. ASSUME NEW k \in Loci
      PROVE  /\ f[k] \in Nat
             /\ f[k] = 0 <=> (Candidates[k].room = None => Seats(chromosome[k]) >= Candidates[k].students)
  <2>1. Candidates[k].students \in Nat BY SeatsAssumption
  <2>2. ASSUME Candidates[k].room = None PROVE Seats(chromosome[k]) \in Nat
    BY <2>2, SeatsIs DEF GenesOK
  <2>3. f[k] = IF Candidates[k].room = None
               THEN Over(Candidates[k].students, Seats(chromosome[k])) ELSE 0
    OBVIOUS
  <2> HIDE DEF f
  <2>4. CASE Candidates[k].room = None
    <3> DEFINE m == Seats(chromosome[k])
               n == Candidates[k].students
    <3>1. n \in Nat /\ m \in Nat /\ f[k] = Over(n, m) BY <2>1, <2>2, <2>3, <2>4
    <3> HIDE DEF m, n
    <3>2. Over(n, m) \in Nat /\ (Over(n, m) = 0 <=> n <= m) BY <3>1, OverIs
    <3>3. n <= m <=> m >= n BY <3>1
    <3> QED BY <2>4, <3>1, <3>2, <3>3 DEF m, n
  <2>5. CASE Candidates[k].room # None BY <2>3, <2>5
  <2> QED BY <2>4, <2>5
<1> HIDE DEF f
<1>4. SumFunction(f) \in Nat /\ (SumFunction(f) = 0 <=> \A k \in Loci : f[k] = 0)
  BY <1>1, <1>2, <1>3, SumOfNone
<1> QED BY <1>1, <1>3, <1>4

\* No session has a lecturer who cannot teach its course.
LEMMA NobodyMismatched ==
  ASSUME GenesOK
  PROVE  /\ \A p \in SessionIds : At(p).lecturers \subseteq Candidates[p[1]].eligible
         /\ CompetencyMismatch = 0
<1>1. ASSUME NEW p \in SessionIds PROVE At(p).lecturers \subseteq Candidates[p[1]].eligible
  <2> DEFINE c == Candidates[p[1]]
  <2>1. p[1] \in Loci /\ At(p).lecturers \in CrewsOf(p[1]) BY AtIs, SessionIdsAre
  <2>2. At(p).lecturers \subseteq Pool(c)
    <3>1. CASE IsCohort(c) BY <2>1, <3>1 DEF CrewsOf, Teams
    <3>2. CASE ~IsCohort(c) BY <2>1, <3>2 DEF CrewsOf, Pool
    <3> QED BY <3>1, <3>2
  <2> QED BY <2>1, <2>2, EligibleAssumption DEF Pool
<1> DEFINE f == [p \in SessionIds |->
                   Len(At(p).slots) * Cardinality(At(p).lecturers \ Candidates[p[1]].eligible)]
<1>2. CompetencyMismatch = SumFunction(f) /\ DOMAIN f = SessionIds BY DEF CompetencyMismatch
<1>3. ASSUME NEW p \in SessionIds PROVE f[p] = 0
  <2>1. At(p).lecturers \ Candidates[p[1]].eligible = {} BY <1>1
  <2>2. Len(At(p).slots) \in Nat BY AtIs, SessionIdsAre, SessionSlotsAre
  <2>3. f[p] = Len(At(p).slots) * Cardinality(At(p).lecturers \ Candidates[p[1]].eligible) OBVIOUS
  <2> HIDE DEF f
  <2>4. f[p] = Len(At(p).slots) * 0 BY <2>1, <2>3, FS_EmptySet
  <2> DEFINE n == Len(At(p).slots)
  <2> HIDE DEF n
  <2>5. n \in Nat /\ f[p] = n * 0 BY <2>2, <2>4 DEF n
  <2> QED BY <2>5
<1> HIDE DEF f
<1>4. SumFunction(f) = 0 BY <1>2, <1>3, SessionIdsFinite, SumOfNone
<1> QED BY <1>1, <1>2, <1>4

LEMMA ScoreMeans == GenesOK => FitnessFindsClashes
<1> SUFFICES ASSUME GenesOK PROVE FitnessFindsClashes OBVIOUS
<1>1. Evaluated.hard = HardViolations + CompetencyMismatch BY DEF Evaluated
<1>2. Evaluated.hard = 0 <=> NoClash
  <2>1. HardViolations \in Nat /\ (HardViolations = 0 <=> Peace) BY HardViolationsAre
  <2>2. CompetencyMismatch = 0 BY NobodyMismatched
  <2>3. Evaluated.hard = 0 <=> Peace BY <1>1, <2>1, <2>2
  <2>4. NoClash <=> Peace BY NobodyMismatched DEF NoClash, Peace
  <2> QED BY <2>3, <2>4
<1>3. ASSUME NEW p \in SessionIds
      PROVE  LET b == At(p).slots IN
             /\ b \in Blocks(Slots, Len(b)) => Fragmentation(b) = 0
             /\ DaysInOrder /\ Fragmentation(b) = 0 => b \in Blocks(Slots, Len(b))
  <2>1. p[1] \in Loci /\ At(p).slots \in TimesOf(p[1]) BY AtIs, SessionIdsAre
  <2>2. Len(At(p).slots) \in Nat /\ At(p).slots \in [1..Len(At(p).slots) -> Slots]
    BY <2>1, SessionSlotsAre
  <2> QED BY <2>2, FragmentationIs
<1>4. PenaltiesMean
  BY <1>3, StructuralMeans, LoadMeans, PreferenceMeans, CapacityMeans DEF PenaltiesMean
<1> QED BY <1>2, <1>4 DEF FitnessFindsClashes

\* The score of a timetable (evaluateFitness) tells whether it has a clash, and
\* each penalty whether what it is for is met, for any staff, rooms and slots.
THEOREM FitnessFindsClashesCorrect == GeneticsSpec => []FitnessFindsClashes
<1>1. GenesOK => FitnessFindsClashes BY ScoreMeans
<1> QED BY <1>1, GenesOKCorrect, PTL

-----------------------------------------------------------------------------
(***************************************************************************)
(* The loop: what runGA reports is the fittest it has seen, and with an    *)
(* elite the last generation's best is that one.                           *)
(***************************************************************************)

(* The sort of a generation                                                *)

LEMMA CostType == \A s \in Scores : Cost(s) \in Nat
<1> SUFFICES ASSUME NEW s \in Scores PROVE Cost(s) \in Nat
  OBVIOUS
<1>1. s.hard \in Nat /\ s.soft \in Nat /\ HardWeight \in Nat /\ SoftWeight \in Nat
  BY ScoresAssumption, ConfigAssumption
<1>2. s.hard * HardWeight \in Nat /\ s.soft * SoftWeight \in Nat BY <1>1
<1> QED BY <1>2 DEF Cost

\* Where the sort puts member j.
Rank(P, j) == Cardinality(Ahead(P, j)) + 1

LEMMA RankIs ==
  ASSUME NEW n \in Nat \ {0}, NEW P \in [1..n -> Scores]
  PROVE  /\ Len(P) = n
         /\ \A j \in 1..n : IsFiniteSet(Ahead(P, j)) /\ Rank(P, j) \in 1..n
         /\ \A j, k \in 1..n : j # k => Rank(P, j) # Rank(P, k)
         /\ \A i \in 1..n : \E j \in 1..n : Rank(P, j) = i
<1>1. Len(P) = n /\ IsFiniteSet(1..n) /\ Cardinality(1..n) = n
  BY FS_Interval, LenProperties
<1>2. \A j \in 1..n : Cost(P[j]) \in Nat BY CostType
<1>3. ASSUME NEW j \in 1..n
      PROVE  IsFiniteSet(Ahead(P, j)) /\ Cardinality(Ahead(P, j)) \in Nat /\ Rank(P, j) \in 1..n
  <2>1. Ahead(P, j) \subseteq (1..n) \ {j} BY <1>1, <1>2 DEF Ahead, Before
  <2>2. IsFiniteSet((1..n) \ {j}) /\ Cardinality((1..n) \ {j}) = n - 1
    BY <1>1, FS_RemoveElement
  <2>3. IsFiniteSet(Ahead(P, j)) /\ Cardinality(Ahead(P, j)) <= n - 1
    BY <2>1, <2>2, FS_Subset
  <2>4. Cardinality(Ahead(P, j)) \in Nat BY <2>3, FS_CardinalityType
  <2> QED BY <2>3, <2>4 DEF Rank
<1>4. ASSUME NEW j \in 1..n, NEW k \in 1..n, Before(P, j, k) PROVE Rank(P, j) < Rank(P, k)
  <2>1. Ahead(P, j) \cup {j} \subseteq Ahead(P, k)
    BY <1>1, <1>2, <1>4 DEF Ahead, Before
  <2>2. j \notin Ahead(P, j) BY <1>2 DEF Ahead, Before
  <2>3. Cardinality(Ahead(P, j) \cup {j}) = Cardinality(Ahead(P, j)) + 1
    BY <1>3, <2>2, FS_AddElement
  <2>4. Cardinality(Ahead(P, j) \cup {j}) <= Cardinality(Ahead(P, k)) BY <2>1, <1>3, FS_Subset
  <2> QED BY <2>3, <2>4, <1>3 DEF Rank
<1>5. ASSUME NEW j \in 1..n, NEW k \in 1..n, j # k PROVE Rank(P, j) # Rank(P, k)
  <2>1. Before(P, j, k) \/ Before(P, k, j) BY <1>2, <1>5 DEF Before
  <2>2. Rank(P, j) \in 1..n /\ Rank(P, k) \in 1..n BY <1>3
  <2> QED BY <1>4, <2>1, <2>2
<1>6. ASSUME NEW i \in 1..n PROVE \E j \in 1..n : Rank(P, j) = i
  <2> DEFINE f == [j \in 1..n |-> Rank(P, j)]
  <2>1. f \in Injection(1..n, 1..n) BY <1>3, <1>5 DEF Injection, IsInjective
  <2> HIDE DEF f
  <2>2. f \in Surjection(1..n, 1..n) BY <2>1, <1>1, FS_Injection
  <2>3. PICK j \in 1..n : f[j] = i BY <2>2 DEF Surjection
  <2> QED BY <2>3 DEF f
<1> QED BY <1>1, <1>3, <1>5, <1>6

\* The sort loses nobody, and puts the fittest first; among equals, the one
\* that was first before.
LEMMA SortedIs ==
  ASSUME NEW n \in Nat \ {0}, NEW P \in [1..n -> Scores]
  PROVE  /\ Sorted(P) \in [1..n -> Scores]
         /\ \A i \in 1..n : Cost(Sorted(P)[1]) <= Cost(P[i])
         /\ Cost(P[1]) = Cost(Sorted(P)[1]) => Sorted(P)[1] = P[1]
<1> DEFINE q == Order(P)
<1>1. Len(P) = n BY RankIs
<1>2. ASSUME NEW i \in 1..n PROVE q[i] \in 1..n /\ Rank(P, q[i]) = i
  <2>1. PICK j \in 1..n : Rank(P, j) = i BY RankIs
  <2>2. Cardinality(Ahead(P, j)) = i - 1
    <3>1. Cardinality(Ahead(P, j)) \in Nat BY RankIs, FS_CardinalityType
    <3> QED BY <2>1, <3>1 DEF Rank
  <2>3. q[i] = CHOOSE k \in 1..n : Cardinality(Ahead(P, k)) = i - 1 BY <1>1 DEF Order
  <2>4. q[i] \in 1..n /\ Cardinality(Ahead(P, q[i])) = i - 1 BY <2>2, <2>3
  <2> QED BY <2>4 DEF Rank
<1>3. Sorted(P) = [i \in 1..n |-> P[q[i]]] BY <1>1 DEF Sorted
<1> HIDE DEF q
<1>4. Sorted(P) \in [1..n -> Scores] BY <1>2, <1>3
<1>5. q[1] \in 1..n /\ Sorted(P)[1] = P[q[1]] /\ Rank(P, q[1]) = 1 BY <1>2, <1>3
<1>6. Ahead(P, q[1]) = {}
  <2>1. IsFiniteSet(Ahead(P, q[1])) BY <1>5, RankIs
  <2>2. Cardinality(Ahead(P, q[1])) = 0 BY <1>5, <2>1, FS_CardinalityType DEF Rank
  <2> QED BY <2>1, <2>2, FS_EmptySet
<1>7. ASSUME NEW i \in 1..n PROVE ~Before(P, i, q[1]) BY <1>1, <1>6 DEF Ahead
<1>8. \A i \in 1..n : Cost(P[i]) \in Nat BY CostType
<1>9. ASSUME NEW i \in 1..n PROVE Cost(P[q[1]]) <= Cost(P[i])
  BY <1>5, <1>7, <1>8 DEF Before
<1>10. ASSUME Cost(P[1]) = Cost(P[q[1]]) PROVE q[1] = 1
  BY <1>5, <1>7, <1>10 DEF Before
<1> QED BY <1>4, <1>5, <1>9, <1>10

-----------------------------------------------------------------------------
(* The best so far                                                         *)

\* The best is the fittest of the generations that ran; with an elite it is the
\* last generation's too, because it heads the next population.
BestInv ==
  /\ overall = <<>> <=> history = <<>>
  /\ overall # <<>> =>
       /\ \E g \in 1..Len(history) : overall = <<history[g]>>
       /\ \A g \in 1..Len(history) : Cost(overall[1]) <= Cost(history[g])
EliteInv ==
  elitism > 0 /\ history # <<>> =>
    /\ LatestBest = overall[1]
    /\ loop = "top" => population[1] = overall[1]
    /\ loop = "breed" => evaluated[1] = overall[1]
LoopTypeOK ==
  /\ elitism \in ElitismCounts
  /\ population \in [1..PopulationSize -> Scores]
  /\ history \in Seq(Scores)
  /\ loop = "breed" => evaluated \in [1..PopulationSize -> Scores] /\ history # <<>>
LoopInv == LoopTypeOK /\ BestInv /\ EliteInv

LEMMA OneScore ==
  ASSUME NEW s PROVE <<s>> # <<>> /\ <<s>>[1] = s /\ (\A t : <<s>> = <<t>> => s = t)
  OBVIOUS

LEMMA GenerationKeeps == LoopInv /\ Generation => LoopInv'
<1> SUFFICES ASSUME LoopInv, Generation PROVE LoopInv'
  OBVIOUS
<1> DEFINE best == Sorted(population)[1]
           h == Len(history)
<1>1. PopulationSize \in Nat \ {0} BY ConfigAssumption
<1>2. /\ Sorted(population) \in [1..PopulationSize -> Scores]
      /\ \A i \in 1..PopulationSize : Cost(best) <= Cost(population[i])
      /\ Cost(population[1]) = Cost(best) => best = population[1]
  BY <1>1, SortedIs DEF LoopInv, LoopTypeOK
<1>3. best \in Scores /\ 1 \in 1..PopulationSize BY <1>1, <1>2
<1>4. /\ loop = "top" /\ loop' # "top" /\ elitism' = elitism /\ population' = population
      /\ evaluated' = Sorted(population) /\ history' = Append(history, best)
      /\ Keep(best)
  BY DEF Generation
<1> HIDE DEF best
<1>5. /\ history' \in Seq(Scores) /\ h \in Nat /\ Len(history') = h + 1 /\ history' # <<>>
      /\ history'[h + 1] = best /\ \A g \in 1..h : history'[g] = history[g]
  BY <1>3, <1>4, AppendProperties DEF LoopInv, LoopTypeOK
<1>6. \A g \in 1..h : history[g] \in Scores /\ Cost(history[g]) \in Nat
  BY CostType, ElementOfSeq DEF LoopInv, LoopTypeOK
<1>7. Cost(best) \in Nat BY <1>3, CostType
<1>8. history = <<>> <=> h = 0 BY EmptySeq DEF LoopInv, LoopTypeOK
<1>9. CASE overall = <<>> \/ Cost(best) < Cost(overall[1])
  <2>1. overall' = <<best>> BY <1>4, <1>9 DEF Keep
  <2>2. \A g \in 1..(h + 1) : Cost(best) <= Cost(history'[g])
    <3> SUFFICES ASSUME NEW g \in 1..(h + 1) PROVE Cost(best) <= Cost(history'[g])
      OBVIOUS
    <3>1. CASE g = h + 1 BY <3>1, <1>5, <1>7
    <3>2. CASE g # h + 1
      <4>1. g \in 1..h /\ history'[g] = history[g] BY <3>2, <1>5
      <4>2. overall # <<>> BY <4>1, <1>8 DEF LoopInv, BestInv
      <4>3. PICK e \in 1..h : overall = <<history[e]>> BY <4>2 DEF LoopInv, BestInv
      <4>4. Cost(overall[1]) \in Nat BY <4>3, <1>6, OneScore
      <4>5. Cost(overall[1]) <= Cost(history[g]) BY <4>1, <4>2 DEF LoopInv, BestInv
      <4> QED BY <4>1, <4>2, <4>4, <4>5, <1>6, <1>7, <1>9
    <3> QED BY <3>1, <3>2
  <2>3. BestInv'
    <3>1. h + 1 \in 1..Len(history') BY <1>5
    <3> QED BY <2>1, <2>2, <3>1, <1>5, OneScore DEF BestInv
  <2>4. LatestBest' = best /\ evaluated'[1] = best BY <1>4, <1>5 DEF LatestBest, best
  <2> QED BY <1>2, <1>4, <1>5, <2>1, <2>3, <2>4, OneScore
       DEF LoopInv, LoopTypeOK, EliteInv
<1>10. CASE ~(overall = <<>> \/ Cost(best) < Cost(overall[1]))
  <2>1. overall' = overall /\ overall # <<>> /\ history # <<>>
    BY <1>4, <1>10 DEF Keep, LoopInv, BestInv
  <2>2. PICK e \in 1..h : overall = <<history[e]>> BY <2>1 DEF LoopInv, BestInv
  <2>3. overall[1] = history[e] /\ Cost(overall[1]) \in Nat /\ Cost(overall[1]) <= Cost(best)
    BY <2>2, <1>6, <1>7, <1>10, OneScore
  <2>4. BestInv'
    <3>1. overall' = <<history'[e]>> /\ e \in 1..(h + 1) BY <2>1, <2>2, <1>5
    <3>2. ASSUME NEW g \in 1..(h + 1) PROVE Cost(overall[1]) <= Cost(history'[g])
      <4>1. CASE g = h + 1 BY <4>1, <1>5, <2>3
      <4>2. CASE g # h + 1
        <5>1. g \in 1..h /\ history'[g] = history[g] BY <4>2, <1>5
        <5> QED BY <5>1, <2>1 DEF LoopInv, BestInv
      <4> QED BY <4>1, <4>2
    <3> QED BY <2>1, <3>1, <3>2, <1>5 DEF BestInv
  <2>5. elitism > 0 => best = overall[1]
    <3> SUFFICES ASSUME elitism > 0 PROVE best = overall[1]
      OBVIOUS
    <3>1. population[1] = overall[1] BY <2>1, <1>4 DEF LoopInv, EliteInv
    <3>2. Cost(best) <= Cost(overall[1]) BY <3>1, <1>2, <1>3
    <3>3. Cost(best) = Cost(overall[1]) BY <3>2, <2>3, <1>7
    <3> QED BY <3>1, <3>3, <1>2
  <2>6. LatestBest' = best /\ evaluated'[1] = best BY <1>4, <1>5 DEF LatestBest, best
  <2> QED BY <1>2, <1>4, <1>5, <2>1, <2>4, <2>5, <2>6 DEF LoopInv, LoopTypeOK, EliteInv
<1> QED BY <1>9, <1>10

LEMMA BreedKeeps == LoopInv /\ Breed => LoopInv'
<1> SUFFICES ASSUME LoopInv, Breed PROVE LoopInv'
  OBVIOUS
<1> DEFINE n == PopulationSize
           e == elitism
<1>1. n \in Nat \ {0} /\ e \in 0..(n - 1) /\ e \in Nat
  BY ConfigAssumption DEF LoopInv, LoopTypeOK
<1>2. PICK children \in [1..(n - e) -> Scores] : population' = NextPopulation(children)
  BY DEF Breed
<1>3. /\ loop = "breed" /\ loop' = "top" /\ history # <<>>
      /\ evaluated \in [1..n -> Scores]
      /\ elitism' = elitism /\ history' = history /\ overall' = overall
  BY DEF Breed, LoopInv, LoopTypeOK
<1>4. evaluated \in Seq(Scores) /\ Len(evaluated) = n BY <1>1, <1>3, IsASeq, LenProperties
<1>5. children \in Seq(Scores) /\ Len(children) = n - e
  BY <1>1, <1>2, IsASeq, LenProperties
<1> DEFINE elite == SubSeq(evaluated, 1, e)
<1>6. /\ elite \in Seq(Scores) /\ Len(elite) = e
      /\ \A i \in 1..e : elite[i] = evaluated[i]
  <2>1. \A i \in 1..e : evaluated[i] \in Scores BY <1>1, <1>3
  <2> QED BY <2>1, <1>1, SubSeqProperties
<1>7. population' = elite \o children BY <1>2 DEF NextPopulation
<1> HIDE DEF elite
<1>8. /\ population' \in Seq(Scores) /\ Len(population') = n
      /\ \A i \in 1..e : population'[i] = evaluated[i]
  <2>1. /\ elite \o children \in Seq(Scores)
        /\ Len(elite \o children) = e + (n - e)
        /\ \A i \in 1..(e + (n - e)) : (elite \o children)[i] =
              IF i <= e THEN elite[i] ELSE children[i - e]
    <3>1. elite \in Seq(Scores) /\ children \in Seq(Scores) BY <1>5, <1>6
    <3>2. /\ elite \o children \in Seq(Scores)
          /\ Len(elite \o children) = Len(elite) + Len(children)
          /\ \A i \in 1..(Len(elite) + Len(children)) : (elite \o children)[i] =
                IF i <= Len(elite) THEN elite[i] ELSE children[i - Len(elite)]
      BY <3>1, ConcatProperties
    <3> QED BY <3>2, <1>5, <1>6
  <2>2. e + (n - e) = n BY <1>1
  <2> QED BY <1>1, <1>6, <1>7, <2>1, <2>2
<1>9. population' \in [1..n -> Scores] BY <1>8, LenProperties
<1>10. e > 0 => population'[1] = evaluated[1] BY <1>1, <1>8
<1>11. EliteInv' BY <1>3, <1>10 DEF LoopInv, EliteInv, LatestBest
<1>12. BestInv' BY <1>3 DEF LoopInv, BestInv
<1> QED BY <1>3, <1>9, <1>11, <1>12 DEF LoopInv, LoopTypeOK

LEMMA LoopAlways == LoopSpec => []LoopInv
<1>1. LoopInit => LoopInv
  BY EmptySeq DEF LoopInit, LoopInv, LoopTypeOK, BestInv, EliteInv
<1>2. LoopInv /\ [LoopNext]_loopVars => LoopInv'
  <2> SUFFICES ASSUME LoopInv, [LoopNext]_loopVars PROVE LoopInv'
    OBVIOUS
  <2>1. CASE UNCHANGED loopVars
    BY <2>1 DEF loopVars, LoopInv, LoopTypeOK, BestInv, EliteInv, LatestBest
  <2>2. CASE Cancel
    BY <2>2 DEF Cancel, LoopInv, LoopTypeOK, BestInv, EliteInv, LatestBest
  <2>3. CASE Exhaust
    BY <2>3 DEF Exhaust, LoopInv, LoopTypeOK, BestInv, EliteInv, LatestBest
  <2> QED BY <2>1, <2>2, <2>3, GenerationKeeps, BreedKeeps DEF LoopNext
<1> QED BY <1>1, <1>2, PTL DEF LoopSpec

\* runGA returns the fittest timetable of all the generations that ran, however
\* the loop ended, for any population, weights and number of generations.
THEOREM ReportedIsFittestCorrect == LoopSpec => []ReportedIsFittest
<1>1. LoopInv => ReportedIsFittest
  <2> SUFFICES ASSUME LoopInv, history # <<>>
               PROVE  /\ overall[1] \in {history[g] : g \in DOMAIN history}
                      /\ \A g \in DOMAIN history : Cost(overall[1]) <= Cost(history[g])
    BY DEF ReportedIsFittest
  <2>1. DOMAIN history = 1..Len(history) BY LenProperties DEF LoopInv, LoopTypeOK
  <2>2. PICK g \in 1..Len(history) : overall = <<history[g]>> BY DEF LoopInv, BestInv
  <2>3. overall[1] = history[g] /\ overall # <<>> BY <2>2, OneScore
  <2> QED BY <2>1, <2>3 DEF LoopInv, BestInv
<1> QED BY <1>1, LoopAlways, PTL

\* With an elite, the last generation's best is the best of all: the fitness of
\* the one and the parts of the penalty of the other, which the worker stores
\* side by side, are of one timetable, equal costs included (the sort is stable).
THEOREM PartsMatchTotalCorrect == LoopSpec => []PartsMatchTotal
<1>1. LoopInv => PartsMatchTotal BY DEF LoopInv, EliteInv, PartsMatchTotal
<1> QED BY <1>1, LoopAlways, PTL
=============================================================================
