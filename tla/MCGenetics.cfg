SPECIFICATION MCSpec
CONSTANTS
  None = None
  r1 = r1
  r2 = r2
  l1 = l1
  l2 = l2
  l3 = l3
  l4 = l4
  Slots <- MCSlots
  Capacity <- MCCapacity
  Staff <- MCStaff
  Candidates <- MCCandidates
  Scores <- MCScores
  PopulationSize = 2
  ElitismCounts = {0, 1}
  Generations = 4
  HardWeight = 2
  SoftWeight = 1
  Window = 2
  Resolution = 12
INVARIANTS GenesOK RepairKeepsPeace FitnessFindsClashes ReportedIsFittest PartsMatchTotal
PROPERTIES NoAvoidableClash
CHECK_DEADLOCK FALSE
