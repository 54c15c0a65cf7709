------------------------------- MODULE GALoop -------------------------------
(***************************************************************************)
(* The loop of runGA (src/ga/runGA.ts) over the generations: what it keeps *)
(* as the best, when it stops, and what the worker stores of it.  A member *)
(* of the population is its score; selection, crossover, mutation and      *)
(* repair (Genetics) give the children any score.                          *)
(***************************************************************************)
EXTENDS Naturals, Sequences, FiniteSets

CONSTANTS
  Scores,          \* records [hard, soft]
  PopulationSize,
  ElitismCounts,   \* the values of config.elitismCount
  Generations,     \* config.generations
  HardWeight, SoftWeight,
  Window,          \* STAGNATION_WINDOW
  Resolution       \* 1 / STAGNATION_THRESHOLD

ASSUME ScoresAssumption == \A s \in Scores : s.hard \in Nat /\ s.soft \in Nat
ASSUME ConfigAssumption ==
  /\ PopulationSize \in Nat \ {0} /\ ElitismCounts \subseteq 0..(PopulationSize - 1)
  /\ Generations \in Nat \ {0} /\ HardWeight \in Nat /\ SoftWeight \in Nat
  /\ Window \in Nat \ {0} /\ Resolution \in Nat \ {0}

VARIABLES
  elitism,      \* config.elitismCount
  population,   \* the scores in the order of the array
  evaluated,    \* sorted by fitness
  history,      \* best of each generation that ran
  overall,      \* <<>> or <<score of overallBest>>
  record,       \* <<>> or <<score at lastRecordedBestFitness>>
  counter,      \* stagnationCounter
  loop          \* "top", "breed", or how it ended

loopVars == <<elitism, population, evaluated, history, overall, record, counter, loop>>

\* fitness = 1 / (1 + Cost): the fitter costs less.
Cost(s) == s.hard * HardWeight + s.soft * SoftWeight

\* The difference of the two fitnesses exceeds STAGNATION_THRESHOLD.
Improves(s, t) == Cost(t) > Cost(s) /\ (Cost(t) - Cost(s)) * Resolution > (1 + Cost(s)) * (1 + Cost(t))

\* Stable, by descending fitness: the n-th is the one with n - 1 before it.
Before(P, i, j) == Cost(P[i]) < Cost(P[j]) \/ (Cost(P[i]) = Cost(P[j]) /\ i < j)
Ahead(P, j) == {i \in 1..Len(P) : Before(P, i, j)}
Order(P) == [n \in 1..Len(P) |-> CHOOSE j \in 1..Len(P) : Cardinality(Ahead(P, j)) = n - 1]
Sorted(P) == LET q == Order(P) IN [n \in 1..Len(P) |-> P[q[n]]]

LoopInit ==
  /\ elitism \in ElitismCounts
  /\ population \in [1..PopulationSize -> Scores]
  /\ evaluated = <<>> /\ history = <<>>
  /\ overall = <<>> /\ record = <<>>
  /\ counter = 0
  /\ loop = "top"

\* shouldCancel at the top of a generation.
Cancel ==
  /\ loop = "top" /\ Len(history) < Generations
  /\ loop' = "cancelled"
  /\ UNCHANGED <<elitism, population, evaluated, history, overall, record, counter>>

\* The best of the generation is no improvement on the record.
Stagnant(best) == record # <<>> /\ ~Improves(best, record[1])

\* Mutant: the last generation's best is the overall best.
KeepLast(best) == overall' = <<best>>
Keep(best) ==
  overall' = IF overall = <<>> \/ Cost(best) < Cost(overall[1]) THEN <<best>> ELSE overall

Generation ==
  /\ loop = "top" /\ Len(history) < Generations
  /\ LET best == Sorted(population)[1]
         stuck == Stagnant(best)
     IN /\ evaluated' = Sorted(population)
        /\ history' = Append(history, best)
        /\ Keep(best)
        /\ record' = IF stuck THEN record ELSE <<best>>
        /\ counter' = IF stuck THEN counter + 1 ELSE 0
        /\ loop' = IF counter' >= Window /\ best.hard > 0 THEN "stagnated"
                   ELSE IF best.hard = 0 /\ best.soft = 0 THEN "perfect"
                   ELSE "breed"
  /\ UNCHANGED <<elitism, population>>

\* Mutant: the elite is put behind the children.
ElitesLast(children) ==
  children \o SubSeq(evaluated, 1, elitism)
\* The elite first, then the children.
NextPopulation(children) ==
  SubSeq(evaluated, 1, elitism) \o children

Breed ==
  /\ loop = "breed"
  /\ \E children \in [1..(PopulationSize - elitism) -> Scores] :
       population' = NextPopulation(children)
  /\ evaluated' = <<>>
  /\ loop' = "top"
  /\ UNCHANGED <<elitism, history, overall, record, counter>>

Exhaust ==
  /\ loop = "top" /\ Len(history) = Generations
  /\ loop' = "exhausted"
  /\ UNCHANGED <<elitism, population, evaluated, history, overall, record, counter>>

LoopNext == Cancel \/ Generation \/ Breed \/ Exhaust
LoopSpec == LoopInit /\ [][LoopNext]_loopVars

-----------------------------------------------------------------------------
(* Properties                                                              *)

Ended == loop \notin {"top", "breed"}
LatestBest == history[Len(history)]

\* What runGA returns is the fittest timetable of all generations, also when
\* it is cancelled, and with no elitism, where the last may be worse.
ReportedIsFittest ==
  Ended /\ history # <<>> =>
    /\ overall[1] \in {history[g] : g \in DOMAIN history}
    /\ \A g \in DOMAIN history : Cost(overall[1]) <= Cost(history[g])

\* The worker stores fitness, violations and penalty of the overall best, and
\* the parts of the penalty from the last generation's row: with an elite the
\* two are one timetable.
PartsMatchTotal == elitism > 0 /\ Ended /\ history # <<>> => LatestBest = overall[1]
=============================================================================
