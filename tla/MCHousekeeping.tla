--------------------------- MODULE MCHousekeeping ---------------------------
(***************************************************************************)
(* The administration, the rate limiter and the editing of a schedule side *)
(* by side.  They share nothing, so a behaviour of the run moves one of    *)
(* them only.                                                              *)
(***************************************************************************)
EXTENDS Administration, RateLimit, ScheduleEditing, TLC

CONSTANT MaxHits  \* bound: hits let through in a behaviour
VARIABLE side     \* which of the three moves

HousekeepingInit ==
  /\ Init /\ LimiterInit /\ EditInit
  /\ side \in {"administration", "limiter", "editing"}
  /\ side # "administration" => concern = "slot" /\ slot = [start |-> 0, end |-> 1]

HousekeepingNext ==
  /\ UNCHANGED side
  /\ \/ side = "administration" /\ Next /\ UNCHANGED <<limiterVars, editVars>>
     \/ side = "limiter" /\ Len(hits) < MaxHits /\ LimiterNext /\ UNCHANGED <<vars, editVars>>
     \/ side = "editing" /\ EditNext /\ UNCHANGED <<vars, limiterVars>>

HousekeepingSpec == HousekeepingInit /\ [][HousekeepingNext]_<<vars, limiterVars, editVars, side>>

CONSTANTS a, b, r1, r2, t1, t2, l1, l2

\* The session of a team, from a run whose sessions had no lecturers of their
\* own, and one of a single lecturer, at another time in another room.
Teams  == [s \in {a, b} |-> IF s = a THEN {l1, l2} ELSE {l2}]
Legacy == {[s \in {a, b} |-> IF s = a THEN [room |-> r1, slots |-> {t1}, lecturers |-> {}]
                                      ELSE [room |-> r2, slots |-> {t2}, lecturers |-> {l2}]]}

\* Neither who edits nor which request carries it matters.
Alike == Permutations(Editors) \cup Permutations(Saves)
=============================================================================
