---------------------------- MODULE MCGenetics ----------------------------
EXTENDS Genetics, GALoop

CONSTANTS r1, r2, l1, l2, l3, l4

VARIABLE side  \* which of the two parts of the engine this behaviour follows

m1 == [day |-> "mon", start |-> 8, end |-> 9]
m2 == [day |-> "mon", start |-> 9, end |-> 10]
m3 == [day |-> "mon", start |-> 10, end |-> 11]
m5 == [day |-> "mon", start |-> 12, end |-> 13]
MCSlots == {m1, m2, m3, m5}
MCCapacity == (r1 :> 20) @@ (r2 :> 40)

\* A locked course of two slots, of two offerings that two teach together; a
\* cohort of two offerings split over the rooms, a course whose times hold no
\* block, and one split over the times of its room.
MCCandidates ==
  <<[room |-> r1, rooms |-> {r1, r2}, fixed |-> TRUE, count |-> 1, duration |-> 2,
     slots |-> {m1, m2, m3}, groups |-> <<{l1, l2}, {l3, l4}>>, students |-> 20,
     eligible |-> {l1, l2, l3, l4}],
    [room |-> None, rooms |-> {r1, r2}, fixed |-> FALSE, count |-> 2, duration |-> 1,
     slots |-> {m1, m3, m5}, groups |-> <<{l1}, {l2}>>, students |-> 60,
     eligible |-> {l1, l2, l3}],
    [room |-> None, rooms |-> {r1, r2}, fixed |-> FALSE, count |-> 1, duration |-> 2,
     slots |-> {m2, m5}, groups |-> <<{l2}>>, students |-> 15, eligible |-> {l2, l3}],
    [room |-> r2, rooms |-> {r2}, fixed |-> FALSE, count |-> 2, duration |-> 1,
     slots |-> {m1, m3}, groups |-> <<{l3}>>, students |-> 70, eligible |-> {l3}]>>

\* A structural lecturer with wishes, one with a small load, one content.
MCStaff ==
  (l1 :> [structural |-> TRUE, preferred |-> {m1, m2, m3}, maxSks |-> 3])
    @@ (l2 :> [structural |-> FALSE, preferred |-> {}, maxSks |-> 3])
    @@ (l3 :> [structural |-> FALSE, preferred |-> {m1, m3}, maxSks |-> 4])
    @@ (l4 :> [structural |-> TRUE, preferred |-> {m2}, maxSks |-> 3])

MCScores ==
  {[hard |-> 0, soft |-> 0], [hard |-> 0, soft |-> 1], [hard |-> 0, soft |-> 3],
   [hard |-> 1, soft |-> 1], [hard |-> 2, soft |-> 1], [hard |-> 2, soft |-> 0]}

MCInit ==
  \/ /\ side = "genes" /\ GeneticsInit
     /\ elitism = 0 /\ population = <<>> /\ evaluated = <<>> /\ history = <<>> /\ overall = <<>>
     /\ record = <<>> /\ counter = 0 /\ loop = "none"
  \/ /\ side = "loop" /\ LoopInit
     /\ chromosome = [k \in Loci |-> CHOOSE g \in Seeds(k) : TRUE]
     /\ stage = "member" /\ locus = 1 /\ session = 1 /\ clean = FALSE
MCNext ==
  \/ side = "genes" /\ GeneticsNext /\ UNCHANGED <<side, loopVars>>
  \/ side = "loop" /\ LoopNext /\ UNCHANGED <<side, geneVars>>
MCSpec == MCInit /\ [][MCNext]_<<side, geneVars, loopVars>>
=============================================================================
