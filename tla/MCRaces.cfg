SPECIFICATION Spec
CONSTANTS
  Runs = {r1}
  Keys = {}
  Bodies = {b1}
  Calls = {c1, c2, c3}
  Workers = {w1}
  Generations = 2
  MaxStalled = 1
  Ops = {"create", "cancel", "delete", "override"}
  Faults = {"enqueue", "throw", "publish", "ttl"}
  None = None
SYMMETRY Symmetry
INVARIANTS AnnouncedIsStored HistoryIsExact
PROPERTIES VerdictIsFinal
CHECK_DEADLOCK FALSE
