---------------------------- MODULE MCPipeline ----------------------------
EXTENDS Pipeline, Matching

CONSTANTS r1, r2, l1, l2

VARIABLE side  \* which of the two parts of the analysis this behaviour follows

a1 == [day |-> "mon", start |-> 8, end |-> 9]
a2 == [day |-> "mon", start |-> 9, end |-> 10]
b1 == [day |-> "tue", start |-> 8, end |-> 9]
MCSlots == {a1, a2, b1}
MCCapacity == (r1 :> 20) @@ (r2 :> 40)
MCSks == [c \in {"lecture", "lab"} |-> IF c = "lab" THEN 2 ELSE 1]
MCEquipped == {<<"lecture", r1>>, <<"lecture", r2>>, <<"lab", r2>>}
MCRequired == [c \in {"lecture", "lab"} |-> IF c = "lab" THEN {"hardware", "networks"} ELSE {}]
MCSkills == (l1 :> {"hardware", "software"}) @@ (l2 :> {"software"})

Regular ==
  [course : {"lecture", "lab"}, room : {r1, r2, None}, lecturers : {{l1}, {l2}},
   students : {15, 70}, isFixed : {FALSE}, fixedSlots : {{}}]
OnMonday ==
  {[o EXCEPT !.isFixed = TRUE, !.fixedSlots = {a1}] :
     o \in {x \in Regular : x.lecturers = {l1} /\ x.room # r1}}
Plain == [course |-> "lecture", room |-> None, lecturers |-> {l1}, students |-> 15,
          isFixed |-> FALSE, fixedSlots |-> {}]
Defective == {[Plain EXCEPT !.lecturers = {}], [Plain EXCEPT !.isFixed = TRUE]}
MCShapes == Regular \cup OnMonday \cup Defective

\* At most one of the offerings is locked: the one that speaks for its course, or
\* a sibling whose lock may be ignored.
LocksOf(i, Held) == {[o \in Offerings |-> IF o = i THEN r ELSE None] : r \in Held}
MCLocks == LocksOf(1, {r2, None}) \cup LocksOf(2, {r2})

\* Only the first offering may be defective, only the first two have fixed times.
MCInit ==
  \/ /\ side = "pipeline" /\ Init
     /\ offering[2] \notin Defective /\ offering[3] \in Regular
     /\ edges = [s \in Left |-> {}] /\ MatchingInit
  \/ /\ side = "matching" /\ MatchingInit
     /\ offering = [i \in Offerings |-> Plain] /\ lock = [i \in Offerings |-> None] /\ Init
MCNext ==
  \/ side = "pipeline" /\ Next /\ UNCHANGED <<side, matchVars>>
  \/ side = "matching" /\ MatchingNext /\ UNCHANGED <<side, vars>>
MCSpec == MCInit /\ [][MCNext]_<<side, vars, matchVars>>

-----------------------------------------------------------------------------
RECURSIVE Schedulable(_, _)
Schedulable(rest, placed) ==
  \/ rest = {}
  \/ LET m == CHOOSE n \in rest : TRUE
     IN \E p \in Placements(m.of) :
          /\ \A q \in placed : ~Clash(p, q)
          /\ Schedulable(rest \ {m}, placed \cup {p})

\* ssa/hopcroftKarp.ts:5: fewer matched sessions than sessions is a proof that
\* no timetable exists.
InfeasibleIsProof == Infeasible => ~Schedulable(Sessions, {})
=============================================================================
