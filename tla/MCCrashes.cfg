SPECIFICATION Spec
CONSTANTS
  Runs = {r1}
  Keys = {k1}
  Bodies = {b1}
  Calls = {c1, c2}
  Workers = {w1}
  Generations = 2
  MaxStalled = 1
  Ops = {"create", "cancel", "delete", "override"}
  Faults = {"enqueue", "enqueueLost", "markFailed", "failUpdate", "publish", "throw", "throwEarly", "cancelWrite", "apiCrash", "workerCrash", "ttl", "retention"}
  None = None
SYMMETRY Symmetry
INVARIANTS TypeOK ResultsComplete NoDebris
CHECK_DEADLOCK FALSE
