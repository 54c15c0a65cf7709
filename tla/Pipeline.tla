------------------------------ MODULE Pipeline ------------------------------
(***************************************************************************)
(* What a run computes before its first generation: runPreGA of            *)
(* src/pre-ga/validator.ts rejects offerings and merges the others into    *)
(* one candidate per course, runSSA of src/ssa excludes locked times,      *)
(* propagates constraints (AC-3) and matches sessions to block starts      *)
(* (Hopcroft-Karp), and src/orchestrator.ts turns this into a verdict.     *)
(***************************************************************************)
EXTENDS Timetable, Bipartite

CONSTANTS
  Offerings,   \* ids of the semester's offerings, ordered
  Shapes,      \* what an offering may hold
  Locks,       \* lock maps: offering -> room or None
  Rooms, Capacity,
  Equipped,    \* <<course, room>>: the room has the course's facilities
  Skills,      \* lecturer -> competencies
  Required,    \* course -> requiredCompetencies
  Sks,         \* course -> slots per session
  HardCap,     \* MAX_PARALLEL_SESSIONS_HARD_CAP
  None

ASSUME OfferingsAssumption == Offerings \subseteq Nat /\ IsFiniteSet(Offerings)
ASSUME CapacityAssumption == IsFiniteSet(Rooms) /\ Capacity \in [Rooms -> Nat \ {0}]
\* The schemas: a room that exists, times of the semester, a positive sks.
ASSUME ShapesAssumption ==
  \A o \in Shapes : o.students \in Nat /\ o.room \in Rooms \cup {None}
                  /\ o.isFixed \in BOOLEAN /\ o.fixedSlots \subseteq Slots
                  /\ Sks[o.course] \in Nat \ {0}

VARIABLES
  offering,    \* the rows of loadScheduleInputs
  lock,        \* lockedRoomMap
  phase,       \* where the pipeline is, or its verdict
  feasible,    \* offerings that passed
  candidates,  \* PreGACandidate[]
  domain,      \* adjacency: the block starts left to each session
  arcs         \* AC-3's worklist

vars == <<offering, lock, phase, feasible, candidates, domain, arcs>>

Init ==
  /\ offering \in [Offerings -> Shapes]
  /\ lock \in Locks
  /\ phase = "input"
  /\ feasible = {} /\ candidates = {} /\ domain = <<>> /\ arcs = {}

-----------------------------------------------------------------------------
(* Pre-GA: the checks of an offering                                       *)

Split(n, seats) == (n + seats - 1) \div seats

Integrity(o) == o.lecturers # {} /\ o.students > 0
Temporal(o) ==
  IF o.room = None THEN Slots # {} ELSE Split(o.students, Capacity[o.room]) <= Cardinality(Slots)
Facility(o) == o.room # None => <<o.course, o.room>> \in Equipped
\* isLecturerEligibleForCourse: one competency in common, or none required.
Eligible(l, c) == Required[c] = {} \/ Skills[l] \cap Required[c] # {}
Competencies(o) == \A l \in o.lecturers : Eligible(l, o.course)
Policy(o) == o.isFixed => o.fixedSlots # {}
Passes(o) == Integrity(o) /\ Temporal(o) /\ Facility(o) /\ Competencies(o) /\ Policy(o)

\* Mutant: an offering with fixed times is taken to have a room.
PinnedWithoutRoom(o) == o.isFixed

\* A room of its own and fixed times: no alternatives are looked for.
Pinned(o) == o.isFixed /\ o.room # None

Qualifying(o) ==
  {r \in Rooms : <<o.course, r>> \in Equipped /\ (o.room = None \/ Capacity[r] >= o.students)}
Largest(R) == Max({Capacity[r] : r \in R})

\* Without a room, the cohort splits over the rooms: at most one session each.
RoomsSuffice(o) ==
  \/ Pinned(o)
  \/ /\ Qualifying(o) # {}
     /\ o.room = None =>
          LET sessions == Split(o.students, Largest(Qualifying(o)))
          IN sessions <= HardCap /\ sessions <= Cardinality(Qualifying(o))

-----------------------------------------------------------------------------
(* Pre-GA: one candidate per course                                        *)

Cohort(F, c) == {i \in F : offering[i].course = c}

\* The lowest id speaks for its siblings: room, times, lock and rooms are its.
Candidate(F, c) ==
  LET siblings == Cohort(F, c)
      primary == Min(siblings)
      o == offering[primary]
      students == Max({offering[i].students : i \in siblings})
  IN [offering |-> primary,
      siblings |-> siblings,
      students |-> students,
      count |-> Split(students, IF o.room # None THEN Capacity[o.room] ELSE Largest(Qualifying(o))),
      duration |-> Sks[c],
      slots |-> IF o.isFixed THEN o.fixedSlots ELSE Slots,
      rooms |-> IF Pinned(o) THEN {} ELSE Qualifying(o),
      room |-> o.room,
      fixed |-> FALSE,
      lecturers |-> o.lecturers,
      pool |-> UNION {offering[i].lecturers : i \in siblings}]

\* tagEntities: a lock fixes the room, whichever the offering names.
Tagged(c) ==
  IF lock[c.offering] = None THEN c ELSE [c EXCEPT !.room = lock[c.offering], !.fixed = TRUE]

RunPreGA ==
  LET F == {i \in Offerings : Passes(offering[i]) /\ RoomsSuffice(offering[i])} IN
  /\ phase = "input"
  /\ feasible' = F
  /\ candidates' = {Tagged(Candidate(F, c)) : c \in {offering[i].course : i \in F}}
  /\ phase' = IF F = {} THEN "NO_FEASIBLE_CANDIDATES" ELSE "validated"
  /\ UNCHANGED <<offering, lock, domain, arcs>>

-----------------------------------------------------------------------------
(* SSA: static exclusion and the graph                                     *)

\* A locked candidate keeps its room for itself at every time it might use.
Pruned(c) ==
  c.slots \ (IF c.fixed THEN {}
             ELSE UNION {f.slots : f \in {g \in candidates : g.fixed /\ g.room = c.room}})

\* Where a session may start; every slot, if no block fits.
BlockStarts(c) ==
  LET B == Blocks(Pruned(c), c.duration)
  IN IF B = {} THEN Pruned(c) ELSE {b[1] : b \in B}

Sessions == UNION {{[of |-> c, index |-> i] : i \in 1..c.count} : c \in candidates}

\* A cohort of several offerings stands for all its lecturers at once.
Teachers(c) == IF Cardinality(c.siblings) > 1 THEN c.pool ELSE c.lecturers

\* Sessions AC-3 keeps apart: of one known room, or of a common lecturer.
Rivals(m, n) ==
  /\ m # n
  /\ \/ m.of.room # None /\ m.of.room = n.of.room
     \/ m.of # n.of /\ Teachers(m.of) \cap Teachers(n.of) # {}

BuildGraph ==
  /\ phase = "validated"
  /\ domain' = [m \in Sessions |-> BlockStarts(m.of)]
  /\ arcs' = {a \in Sessions \X Sessions : Rivals(a[1], a[2])}
  /\ phase' = "propagating"
  /\ UNCHANGED <<offering, lock, feasible, candidates>>

-----------------------------------------------------------------------------
(* SSA: AC-3, then the matching                                            *)

\* Mutant: every slot the rival might take is given up.
InconsistentIfWanted(m, n) == domain[m] \cap domain[n]

\* Values of m for which n, down to one slot, has no other.
Inconsistent(m, n) == IF Cardinality(domain[n]) = 1 THEN domain[m] \cap domain[n] ELSE {}

\* The arcs that remove nothing leave the worklist with the one that does.
Productive == {a \in arcs : Inconsistent(a[1], a[2]) # {}}

Revise ==
  /\ phase = "propagating"
  /\ \E a \in Productive :
       LET m == a[1]
           left == domain[m] \ Inconsistent(m, a[2])
       IN /\ domain' = [domain EXCEPT ![m] = left]
          /\ arcs' = (arcs \ {a}) \cup {b \in Sessions \X {m} : Rivals(b[1], m)}
          /\ phase' = IF left = {} THEN "AC3_DOMAIN_EMPTY" ELSE phase
  /\ UNCHANGED <<offering, lock, feasible, candidates>>

\* The matching is of what Matching finds, and promises, for the graph.
MatchSessions ==
  /\ phase = "propagating" /\ Productive = {}
  /\ \E T \in SUBSET DOMAIN domain :
       /\ Matchable(domain, T) /\ AtMost(domain, Cardinality(T))
       /\ phase' = IF T = DOMAIN domain THEN "FEASIBLE" ELSE "BIPARTITE_MATCHING_INSUFFICIENT"
  /\ UNCHANGED <<offering, lock, feasible, candidates, domain, arcs>>

Done == phase \notin {"input", "validated", "propagating"} /\ UNCHANGED vars
Next == RunPreGA \/ BuildGraph \/ Revise \/ MatchSessions \/ Done
Spec == Init /\ [][Next]_vars

-----------------------------------------------------------------------------
Infeasible == phase \in {"AC3_DOMAIN_EMPTY", "BIPARTITE_MATCHING_INSUFFICIENT"}

\* The seeder never throws: each candidate of the GA has a room or may pick
\* one, and each session of a split cohort can have a room of its own unless
\* a sibling with a room and times of its own is part of the cohort.
Seedable ==
  \A c \in candidates :
    /\ c.room # None \/ c.rooms # {}
    /\ c.pool # {} /\ c.slots # {}
    /\ c.room = None /\ (\A i \in c.siblings : ~Pinned(offering[i])) =>
         c.count <= Cardinality(c.rooms)

\* Propagation decides nothing: whatever it removes or concludes, the verdict
\* is whether all sessions fit in distinct starts, as if in a single room.
CampusIsOneRoom ==
  /\ phase = "FEASIBLE" => Matchable([m \in Sessions |-> BlockStarts(m.of)], Sessions)
  /\ Infeasible => ~Matchable([m \in Sessions |-> BlockStarts(m.of)], Sessions)

-----------------------------------------------------------------------------
(* What the GA could do: rooms, times and lecturers it may give a session  *)

Placements(c) ==
  LET B == Blocks(c.slots, c.duration)
  IN [room : IF c.fixed THEN {c.room} ELSE c.rooms \cup ({c.room} \ {None}),
      slots : {Range(b) : b \in IF B = {} THEN SameDaySessions(c.slots, c.duration) ELSE B},
      lecturers : IF Cardinality(c.siblings) > 1
                  THEN {offering[i].lecturers : i \in c.siblings} ELSE {c.lecturers}]

Clash(p, q) ==
  p.slots \cap q.slots # {} /\ (p.room = q.room \/ p.lecturers \cap q.lecturers # {})
=============================================================================
