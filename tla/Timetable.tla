----------------------------- MODULE Timetable -----------------------------
(***************************************************************************)
(* The time slots of a semester and the blocks a session may occupy: what  *)
(* findContiguousSlots and pickSameDaySessionSlots of src/ga/chromosome.ts *)
(* return, for the analysis, the seeder, mutation and repair alike.  A     *)
(* slot is its day and its times; a block is a sequence of slots.          *)
(***************************************************************************)
EXTENDS Naturals, Sequences, FiniteSets, FiniteSetsExt, SequencesExt

CONSTANT Slots  \* records [day, start, end]

ASSUME SlotsAssumption ==
  /\ IsFiniteSet(Slots)
  /\ \A s \in Slots : s.start \in Nat /\ s.end \in Nat
\* A day has no two slots that start together: their order would be the rows'.
ASSUME StartsAssumption ==
  \A s, t \in Slots : s.day = t.day /\ s.start = t.start => s = t

\* t follows s in the day's slots of P sorted by start, without a break.
Adjacent(P, s, t) ==
  /\ s.day = t.day /\ s.start < t.start
  /\ ~\E u \in P : u.day = s.day /\ s.start < u.start /\ u.start < t.start
  /\ s.end = t.start

\* The contiguous blocks of d slots within P.
Blocks(P, d) == {b \in [1..d -> P] : \A i \in 1..(d - 1) : Adjacent(P, b[i], b[i + 1])}

\* The longest run through s, and of all of P.
RunOf(P, s) == Max({d \in 1..Cardinality(P) : \E b \in Blocks(P, d) : s \in Range(b)})
LongestRun(P) == Max({0} \cup {RunOf(P, s) : s \in P})

\* A day's slots, run after run, the longest first.
OnDay(P, day) == {s \in P : s.day = day}
RunsBefore(P, s, t) ==
  \/ RunOf(P, s) > RunOf(P, t)
  \/ RunOf(P, s) = RunOf(P, t) /\ s.start < t.start
DayInRuns(P, day) ==
  LET D == OnDay(P, day)
  IN [n \in 1..Cardinality(D) |->
        CHOOSE t \in D : Cardinality({s \in D : RunsBefore(P, s, t)}) = n - 1]

Upto(q, d) == [i \in DOMAIN q \cap 1..d |-> q[i]]

\* The degraded sessions: on a day with a longest run, or, where that day is
\* too short and another has more slots, on a day with the most slots.
SameDaySessions(P, d) ==
  LET Days == {s.day : s \in P}
      Size(day) == Cardinality(OnDay(P, day))
      Primary == {s.day : s \in {t \in P : RunOf(P, t) = LongestRun(P)}}
      Most == Max({Size(day) : day \in Days})
      From(day) == IF Size(day) < d /\ Size(day) < Most
                   THEN {other \in Days : Size(other) = Most} ELSE {day}
  IN {Upto(DayInRuns(P, day), d) : day \in UNION {From(p) : p \in Primary}}
=============================================================================
