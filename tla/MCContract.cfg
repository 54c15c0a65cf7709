SPECIFICATION FairSpec
CONSTANTS
  Runs = {r1, r2}
  Keys = {k1}
  Bodies = {b1, b2}
  Calls = {c1, c2}
  Workers = {w1}
  Generations = 1
  MaxStalled = 1
  Ops = {"create", "override"}
  Faults = {"enqueue", "throw"}
  None = None
INVARIANTS NeverAbandoned ReplayFaithful
PROPERTIES ImplementsContract
ACTION_CONSTRAINT BodiesMatter
CHECK_DEADLOCK FALSE
