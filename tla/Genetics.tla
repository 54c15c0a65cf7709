------------------------------ MODULE Genetics ------------------------------
(***************************************************************************)
(* The genetic operators on one member of the population: seeding          *)
(* (src/ga/chromosome.ts), crossover, mutation and repair, in the order in *)
(* which runGA applies them, and the score that fitness.ts gives them.     *)
(* Every random draw is a nondeterministic choice; the steps of a          *)
(* generation are taken locus by locus, as the loops of the code do.       *)
(***************************************************************************)
EXTENDS Timetable

CONSTANTS
  Candidates,  \* sequence of PreGACandidate: [room, rooms, fixed, count, duration,
               \* slots, groups, students], with the lecturers eligible for its course
  Capacity,    \* room -> seats
  Staff,       \* lecturer -> [structural, preferred, maxSks]
  None

Loci == 1..Len(Candidates)

\* The lecturers of the offerings of a course, however many.
ASSUME PoolsAssumption == \A k \in Loci : IsFiniteSet(UNION Range(Candidates[k].groups))
\* Without a candidate there is no locus, and the loops over them do nothing.
ASSUME CandidatesAssumption ==
  /\ Len(Candidates) \in Nat \ {0}
  /\ \A k \in Loci : LET c == Candidates[k] IN
       /\ c.slots \subseteq Slots /\ c.slots # {}
       /\ c.count \in Nat \ {0} /\ c.duration \in Nat \ {0}
       /\ Len(c.groups) \in Nat \ {0} /\ DOMAIN c.groups = 1..Len(c.groups)
       /\ c.room # None \/ c.rooms # {}
       /\ None \notin c.rooms /\ c.fixed \in BOOLEAN
       /\ c.fixed => c.room # None
\* checkCompetencies, before the candidates are built.
ASSUME EligibleAssumption ==
  \A k \in Loci : UNION Range(Candidates[k].groups) \subseteq Candidates[k].eligible

\* The schemas of rooms and lecturers; a candidate counts its offerings' students.
ASSUME SeatsAssumption ==
  \A k \in Loci : LET c == Candidates[k] IN
    /\ c.students \in Nat
    /\ \A r \in (c.rooms \cup {c.room}) \ {None} : Capacity[r] \in Nat
ASSUME StaffAssumption ==
  /\ IsFiniteSet(DOMAIN Staff)
  /\ \A l \in DOMAIN Staff : Staff[l].structural \in BOOLEAN /\ Staff[l].maxSks \in Nat

VARIABLES
  chromosome,  \* per locus: [kind, sessions], a session is [room, slots, lecturers]
  stage,       \* "member" of the population, or "cross", "mutate", "repair", "nudge"
  locus,       \* where the pass over the genes stands
  session,     \* the session under repair, or the round of the nudge
  clean        \* history: the repair began with nothing to repair

geneVars == <<chromosome, stage, locus, session, clean>>

-----------------------------------------------------------------------------
(* Seeding                                                                 *)

Pool(c) == UNION Range(c.groups)
IsCohort(c) == Len(c.groups) > 1
AcrossRooms(c) == c.room = None /\ c.count > 1

\* A split cohort draws a room per session, everyone else one for all.
RoomDraws(c, R) ==
  IF AcrossRooms(c) THEN [1..c.count -> R] ELSE {[i \in 1..c.count |-> r] : r \in R}

\* The blocks of a locus, and what it falls back on when it has none.
BlocksOf == [k \in Loci |-> Blocks(Candidates[k].slots, Candidates[k].duration)]
DegradedOf == [k \in Loci |-> SameDaySessions(Candidates[k].slots, Candidates[k].duration)]

\* pickBlocks: distinct ones while there are any, round and round after that.
PickBlocks(B, N) ==
  {f \in [N -> B] : \A i, j \in N : f[i] = f[j] <=> i % Cardinality(B) = j % Cardinality(B)}

\* Without a block, a session of one day each.
SlotDraws(k) ==
  LET N == 1..Candidates[k].count
  IN IF BlocksOf[k] = {} THEN [N -> DegradedOf[k]] ELSE PickBlocks(BlocksOf[k], N)

Group(c, i) == c.groups[((i - 1) % Len(c.groups)) + 1]

Seed(c, r, b) ==
  [kind |-> IF c.fixed THEN "FIXED" ELSE "FLEXIBLE",
   sessions |-> [i \in 1..c.count |-> [room |-> r[i], slots |-> b[i], lecturers |-> Group(c, i)]]]
RoomsToDraw(c) == IF c.room # None THEN {c.room} ELSE c.rooms

Seeds(k) ==
  {Seed(Candidates[k], r, b) : r \in RoomDraws(Candidates[k], RoomsToDraw(Candidates[k])), b \in SlotDraws(k)}

\* generateChromosome: a gene for every candidate, in their order.
Longer(F, k) == {Append(f, g) : f \in F, g \in Seeds(k)}
Chromosomes[n \in 0..Len(Candidates)] ==
  IF n = 0 THEN {<<>>} ELSE Longer(Chromosomes[n - 1], n)

-----------------------------------------------------------------------------
(* Mutation                                                                *)

Teams(c, L) == {T \in SUBSET Pool(c) : Cardinality(T) = Cardinality(L)}

\* mutateLecturer: one session of a cohort gets another team.
WithTeam(c, sessions) ==
  IF ~IsCohort(c) THEN {sessions}
  ELSE UNION {{[sessions EXCEPT ![i].lecturers = T] : T \in Teams(c, sessions[i].lecturers)} :
                i \in DOMAIN sessions}

\* Mutant: the rooms of a FIXED gene mutate like those of any other.
UnmaskedRooms(c, g) == RoomDraws(c, IF c.rooms # {} THEN c.rooms ELSE {g.sessions[1].room})
\* The rooms a mutated gene may have; those of a FIXED gene are masked.
MutantRooms(c, g) ==
  IF g.kind = "FIXED" THEN {[i \in DOMAIN g.sessions |-> g.sessions[i].room]}
  ELSE RoomDraws(c, IF c.rooms # {} THEN c.rooms ELSE {g.sessions[1].room})

\* Its rooms and slots drawn again; the lecturers of a session stay with it.
Rebuilt(k, g) ==
  {[i \in DOMAIN g.sessions |-> [room |-> r[i], slots |-> b[i], lecturers |-> g.sessions[i].lecturers]] :
     r \in MutantRooms(Candidates[k], g), b \in SlotDraws(k)}

MutateGene(k, g) ==
  {[g EXCEPT !.sessions = S] : S \in UNION {WithTeam(Candidates[k], T) : T \in Rebuilt(k, g)}}

-----------------------------------------------------------------------------
(* Repair                                                                  *)

\* buildConflictIndex: what the genes of the other loci occupy.
Others(k) == UNION {Range(chromosome[j].sessions) : j \in Loci \ {k}}
RoomTaken(k) == UNION {{s.room} \X Range(s.slots) : s \in Others(k)}
LecturerTaken(k) == UNION {s.lecturers \X Range(s.slots) : s \in Others(k)}
UsedInGene(k, i) == UNION {Range(chromosome[k].sessions[j].slots) : j \in 1..(i - 1)}

RoomOrGeneClash(k, i, b, r) ==
  \E t \in Range(b) : t \in UsedInGene(k, i) \/ <<r, t>> \in RoomTaken(k)
LecturerClash(k, b, L) == (L \X Range(b)) \cap LecturerTaken(k) # {}

\* lecturerAlternatives to a team: of a shuffled pool, the teams of its size that
\* stand together when the shuffle is bent to a circle.
StandsTogether(f, T) ==
  LET n == Cardinality(DOMAIN f)
      m == Cardinality(T)
  IN \E i \in 1..n : T = {f[j] : j \in {x \in 1..n : {x, x + n} \cap (i..(i + m - 1)) # {}}}
AlternativesOf == [k \in Loci |->
  LET c == Candidates[k] IN
  [L \in SUBSET Pool(c) |->
     {{T \in Teams(c, L) \ {L} : StandsTogether(f, T)} : f \in Bijection(1..Cardinality(Pool(c)), Pool(c))}]]

\* pickLecturerSwapForBlock, which shuffles anew at every call: the teams it may
\* return, and whether it may find none, though a team was free.
FreeOf(k, b, A) == {T \in A : ~LecturerClash(k, b, T)}
Swaps(k, b, L) == UNION {FreeOf(k, b, A) : A \in AlternativesOf[k][L]}
MayFindNoSwap(k, b, L) == \E A \in AlternativesOf[k][L] : FreeOf(k, b, A) = {}

Sessions(r, b, T) == {[room |-> r, slots |-> b, lecturers |-> L] : L \in T}

\* Block b in room r, with another team if its own is busy.
Place(k, i, b, r, L) ==
  IF RoomOrGeneClash(k, i, b, r) THEN {}
  ELSE Sessions(r, b, IF LecturerClash(k, b, L) THEN Swaps(k, b, L) ELSE {L})

MayPassOver(k, i, b, r, L) ==
  \/ RoomOrGeneClash(k, i, b, r)
  \/ LecturerClash(k, b, L) /\ MayFindNoSwap(k, b, L)

OtherRooms(k, s) ==
  IF chromosome[k].kind = "FLEXIBLE" THEN Candidates[k].rooms \ {s.room} ELSE {}

\* Any of the blocks, clash or not, with another team if one is found.
Anyhow(k, s, B) ==
  UNION {Sessions(s.room, b, Swaps(k, b, s.lecturers)
                               \cup (IF MayFindNoSwap(k, b, s.lecturers) THEN {s.lecturers} ELSE {})) : b \in B}

\* Mutant: repair gives up when no block is free in the session's own room.
AttemptHere(k, i, s, B) ==
  LET here == UNION {Place(k, i, b, s.room, s.lecturers) : b \in B}
      giveUp == \A b \in B : MayPassOver(k, i, b, s.room, s.lecturers)
  IN here \cup IF giveUp THEN Anyhow(k, s, B) ELSE {}

\* Its own room first, then another one, then any of the blocks as it is.
Attempt(k, i, s, B) ==
  LET here == UNION {Place(k, i, b, s.room, s.lecturers) : b \in B}
      elsewhere == UNION {Place(k, i, b, r, s.lecturers) : b \in B, r \in OtherRooms(k, s)}
      leave == \A b \in B : MayPassOver(k, i, b, s.room, s.lecturers)
      giveUp == leave /\ \A b \in B, r \in OtherRooms(k, s) : MayPassOver(k, i, b, r, s.lecturers)
  IN here \cup (IF leave THEN elsewhere ELSE {}) \cup (IF giveUp THEN Anyhow(k, s, B) ELSE {})

\* repairSessionAsBlock: the sessions it may return.
Repaired(k, i) ==
  LET c == Candidates[k]
      s == chromosome[k].sessions[i]
      full == Len(s.slots) = c.duration
      roomClash == RoomOrGeneClash(k, i, s.slots, s.room)
      swap == full /\ ~roomClash
      B == BlocksOf[k]
      moved == IF B # {} THEN Attempt(k, i, s, B)
               ELSE UNION {Attempt(k, i, s, {b}) : b \in DegradedOf[k]}
  IN IF swap /\ ~LecturerClash(k, s.slots, s.lecturers) THEN {s}
     ELSE (IF swap THEN Sessions(s.room, s.slots, Swaps(k, s.slots, s.lecturers)) ELSE {})
            \cup (IF swap => MayFindNoSwap(k, s.slots, s.lecturers) THEN moved ELSE {})

\* Mutant: a larger room is taken whoever is in it.
FreeForAll(k, g, i, r) == TRUE

\* Room r is free, of other genes and of the gene's other sessions.
FreeFor(k, g, i, r) ==
  \A t \in Range(g.sessions[i].slots) :
    /\ <<r, t>> \notin RoomTaken(k)
    /\ \A j \in DOMAIN g.sessions \ {i} :
         ~(g.sessions[j].room = r /\ t \in Range(g.sessions[j].slots))

Seats(g) == SumFunction([i \in DOMAIN g.sessions |-> Capacity[g.sessions[i].room]])

\* One round of repairCapacityShortfall: of the sessions that can move to a
\* larger room, one of the smallest moves to the largest it can.
Upgraded(k, g) ==
  LET c == Candidates[k]
      Cap(i) == Capacity[g.sessions[i].room]
      Larger(i) == {r \in c.rooms : Capacity[r] > Cap(i) /\ FreeFor(k, g, i, r)}
      movable == {i \in DOMAIN g.sessions : Larger(i) # {}}
      first == Min({i \in movable : \A j \in movable : Cap(i) <= Cap(j)})
  IN IF g.kind = "FIXED" \/ ~AcrossRooms(c) \/ Seats(g) >= c.students \/ movable = {} THEN {g}
     ELSE {[g EXCEPT !.sessions[first].room = r] :
             r \in {q \in Larger(first) : \A p \in Larger(first) : Capacity[p] <= Capacity[q]}}

-----------------------------------------------------------------------------
(* What fitness counts                                                     *)

SessionIds == UNION {{<<k, i>> : i \in 1..Candidates[k].count} : k \in Loci}
At(p) == chromosome[p[1]].sessions[p[2]]

\* Mutant: the sessions of one gene are not counted against each other.
ClashesOfGenes ==
  LET Pairs == {u \in SessionIds \X SessionIds : u[1][1] < u[2][1]}
      Meet(s, t) == IF s.room = t.room \/ s.lecturers \cap t.lecturers # {}
                    THEN Range(s.slots) \cap Range(t.slots) ELSE {}
  IN Cardinality(UNION {{u} \X Meet(At(u[1]), At(u[2])) : u \in Pairs})
\* evaluateHardFitness: every use of a (room, slot) or a (lecturer, slot) beyond
\* the first.
HardViolations ==
  LET RoomUses == UNION {{<<p, At(p).room, t>> : t \in Range(At(p).slots)} : p \in SessionIds}
      LecturerUses == UNION {{p} \X At(p).lecturers \X Range(At(p).slots) : p \in SessionIds}
      Beyond(U) == Cardinality(U) - Cardinality({<<u[2], u[3]>> : u \in U})
  IN Beyond(RoomUses) + Beyond(LecturerUses)

\* calculateFragmentationPenalty of one session: the slots missing from a day's
\* gap, or one where the slots do not meet at all.
MaxDayGap == 100
Gap(s, t) ==
  IF s.day # t.day THEN MaxDayGap
  ELSE IF s.end = t.start THEN 0
  ELSE Max({1, Cardinality({u \in OnDay(Slots, s.day) :
                              \/ s.start < u.start /\ u.start < t.start
                              \/ t.start < u.start /\ u.start < s.start})})
Fragmentation(b) == SumFunction([i \in 1..(Len(b) - 1) |-> Gap(b[i], b[i + 1])])

Over(n, limit) == IF n > limit THEN n - limit ELSE 0

\* The slots of a lecturer's sessions, parallel ones counted each.
Load(l) == SumFunction([p \in {q \in SessionIds : l \in At(q).lecturers} |-> Len(At(p).slots)])

CompetencyMismatch ==
  SumFunction([p \in SessionIds |->
    Len(At(p).slots) * Cardinality(At(p).lecturers \ Candidates[p[1]].eligible)])

\* More than two sessions in a week; a session counts as its slots.
StructuralMaxSessions == 2
StructuralPenalty ==
  SumFunction([l \in DOMAIN Staff |->
    IF Staff[l].structural THEN Over(Load(l), StructuralMaxSessions) ELSE 0])

LoadPenalty == SumFunction([l \in DOMAIN Staff |-> Over(Load(l), Staff[l].maxSks)])

\* A lecturer with no preferred slots prefers all of them.
PreferencePenalty ==
  Cardinality({u \in SessionIds \X (DOMAIN Staff) \X Slots :
    /\ u[2] \in At(u[1]).lecturers /\ u[3] \in Range(At(u[1]).slots)
    /\ Staff[u[2]].preferred # {} /\ u[3] \notin Staff[u[2]].preferred})

\* Of the candidates without a room of their own; the others split over time.
CapacityShortfallPenalty ==
  SumFunction([k \in Loci |->
    IF Candidates[k].room = None THEN Over(Candidates[k].students, Seats(chromosome[k])) ELSE 0])

FragmentationPenalty == SumFunction([p \in SessionIds |-> Fragmentation(At(p).slots)])

\* The score of a chromosome, as GALoop weighs it.
Evaluated ==
  [hard |-> HardViolations + CompetencyMismatch,
   soft |-> StructuralPenalty + PreferencePenalty + LoadPenalty
              + CapacityShortfallPenalty + FragmentationPenalty]

-----------------------------------------------------------------------------
(* The passes of runGA over one chromosome                                 *)

\* Every gene a locus can hold; a mate's gene at the locus is one of them.
GenePool(k) ==
  LET c == Candidates[k]
      R == IF c.fixed THEN {c.room} ELSE (c.rooms \cup {c.room}) \ {None}
      B == IF BlocksOf[k] = {} THEN DegradedOf[k] ELSE BlocksOf[k]
      Crews == IF IsCohort(c) THEN UNION {Teams(c, L) : L \in Range(c.groups)} ELSE Range(c.groups)
  IN [kind : {IF c.fixed THEN "FIXED" ELSE "FLEXIBLE"},
      sessions : [1..c.count -> [room : R, slots : B, lecturers : Crews]]]

\* No clash, no short session, and no gene in two rooms at once.
NothingToRepair ==
  /\ HardViolations = 0
  /\ \A p \in SessionIds : Len(At(p).slots) = Candidates[p[1]].duration
  /\ \A p, q \in SessionIds : p # q /\ p[1] = q[1] => Range(At(p).slots) \cap Range(At(q).slots) = {}

GeneticsInit ==
  /\ chromosome \in Chromosomes[Len(Candidates)]
  /\ stage = "repair" /\ locus = 1 /\ session = 1
  /\ clean = NothingToRepair

\* The pass moves on to the next gene, or the next pass begins.
Advance(next) ==
  /\ session' = 1
  /\ IF locus < Len(Candidates) THEN locus' = locus + 1 /\ UNCHANGED stage
     ELSE locus' = 1 /\ stage' = next

Select == stage = "member" /\ stage' = "cross" /\ UNCHANGED <<chromosome, locus, session, clean>>

\* Crossover, single-point, uniform or PMX: a gene is its own or its mate's.
Cross ==
  /\ stage = "cross"
  /\ \E g \in {chromosome[locus]} \cup GenePool(locus) :
       chromosome' = [chromosome EXCEPT ![locus] = g]
  /\ Advance("mutate")
  /\ UNCHANGED clean

Mutate ==
  /\ stage = "mutate"
  /\ \E g \in {chromosome[locus]} \cup MutateGene(locus, chromosome[locus]) :
       chromosome' = [chromosome EXCEPT ![locus] = g]
  /\ Advance("repair")
  /\ clean' = IF stage' = "repair" THEN NothingToRepair' ELSE clean

\* The gene's sessions in turn; then its rooms are restored if it is FIXED.
Repair ==
  /\ stage = "repair"
  /\ \E s \in Repaired(locus, session) :
       chromosome' = [chromosome EXCEPT ![locus].sessions[session] =
         IF chromosome[locus].kind = "FIXED"
         THEN [s EXCEPT !.room = chromosome[locus].sessions[1].room] ELSE s]
  /\ IF session < Candidates[locus].count THEN session' = session + 1 /\ UNCHANGED stage
     ELSE session' = 1 /\ stage' = "nudge"
  /\ UNCHANGED <<locus, clean>>

\* repairCapacityShortfall: at most one move per session of the gene.
Nudge ==
  /\ stage = "nudge"
  /\ \E g \in Upgraded(locus, chromosome[locus]) : chromosome' = [chromosome EXCEPT ![locus] = g]
  /\ IF session < Candidates[locus].count THEN session' = session + 1 /\ UNCHANGED <<stage, locus>>
     ELSE /\ session' = 1
          /\ IF locus < Len(Candidates) THEN locus' = locus + 1 /\ stage' = "repair"
             ELSE locus' = 1 /\ stage' = "member"
  /\ UNCHANGED clean

GeneticsNext == Select \/ Cross \/ Mutate \/ Repair \/ Nudge
GeneticsSpec == GeneticsInit /\ [][GeneticsNext]_geneVars

-----------------------------------------------------------------------------
(* Properties                                                              *)

\* Masking: whatever crossover, mutation and repair do, a locked gene stays in
\* its room, a session keeps to the rooms, times and lecturers of its candidate.
GenesOK ==
  /\ stage \in {"member", "cross", "mutate", "repair", "nudge"}
  /\ locus \in Loci /\ session \in Nat \ {0} /\ clean \in BOOLEAN
  /\ DOMAIN chromosome = Loci /\ \A k \in Loci : chromosome[k] \in GenePool(k)

\* A timetable with nothing to repair comes out of the repair without a clash:
\* a move to a larger room never takes one that is in use.
RepairKeepsPeace == clean /\ stage \in {"repair", "nudge", "member"} => HardViolations = 0

\* The session would clash with no other gene, nor overlap the earlier ones of
\* its own.
Harmless(k, i, s) ==
  /\ Range(s.slots) \cap UsedInGene(k, i) = {}
  /\ \A o \in Others(k) : Range(o.slots) \cap Range(s.slots) # {} =>
       o.room # s.room /\ o.lecturers \cap s.lecturers = {}

\* The teams that stand together in every shuffle: the single lecturers, and all
\* of a pool but one.  Two out of four may stand apart.
AlwaysTogether(c, L) ==
  IF Cardinality(L) \in {1, Cardinality(Pool(c)) - 1} THEN Teams(c, L) ELSE {}

\* repairSessionAsBlock leaves a clash behind only where no block and no room of
\* the candidate would have been free for the team itself, nor for any team that
\* every shuffle of the pool shows.  Another team that is free it may overlook.
NoAvoidableClash ==
  [][stage = "repair" =>
       LET k == locus
           c == Candidates[k]
           s == chromosome[k].sessions[session]
           options == [room : {s.room} \cup OtherRooms(k, s), slots : BlocksOf[k],
                       lecturers : {s.lecturers} \cup AlwaysTogether(c, s.lecturers)]
       IN (\E o \in options : Harmless(k, session, o)) =>
            Harmless(k, session, chromosome'[k].sessions[session])]_geneVars

\* What no timetable may have: a room or a lecturer used twice at once, by two
\* genes or by two sessions of one, and a lecturer who cannot teach the course.
NoClash ==
  /\ \A p, q \in SessionIds : p # q /\ Range(At(p).slots) \cap Range(At(q).slots) # {} =>
       At(p).room # At(q).room /\ At(p).lecturers \cap At(q).lecturers = {}
  /\ \A p \in SessionIds : At(p).lecturers \subseteq Candidates[p[1]].eligible

\* No slot begins within another one; the form for the slots refuses it.
DaysInOrder ==
  \A s, t \in Slots : s.day = t.day => s.start < s.end /\ ~(s.start < t.start /\ t.start < s.end)

Taught(l) == {u \in SessionIds \X Slots : l \in At(u[1]).lecturers /\ u[2] \in Range(At(u[1]).slots)}

\* Each penalty is zero exactly where what it is for is met; what fragmentation
\* calls a gap is what the seeder and the repair avoid as one, unless slots overlap.
PenaltiesMean ==
  /\ StructuralPenalty = 0 <=>
       \A l \in DOMAIN Staff : Staff[l].structural => Cardinality(Taught(l)) <= StructuralMaxSessions
  /\ LoadPenalty = 0 <=> \A l \in DOMAIN Staff : Cardinality(Taught(l)) <= Staff[l].maxSks
  /\ PreferencePenalty = 0 <=>
       \A l \in DOMAIN Staff : Staff[l].preferred = {} \/ {u[2] : u \in Taught(l)} \subseteq Staff[l].preferred
  /\ CapacityShortfallPenalty = 0 <=>
       \A k \in Loci : Candidates[k].room = None => Seats(chromosome[k]) >= Candidates[k].students
  /\ \A p \in SessionIds :
       /\ At(p).slots \in Blocks(Slots, Len(At(p).slots)) => Fragmentation(At(p).slots) = 0
       /\ DaysInOrder /\ Fragmentation(At(p).slots) = 0 => At(p).slots \in Blocks(Slots, Len(At(p).slots))

\* Fitness counts no hard violation exactly for a timetable without a clash, and
\* no penalty of a member of the population without a cause.
FitnessFindsClashes ==
  /\ Evaluated.hard = 0 <=> NoClash
  /\ stage = "member" => PenaltiesMean
=============================================================================
