SPECIFICATION Spec
CONSTANTS
  Runs = {r1}
  Keys = {}
  Bodies = {b1}
  Calls = {c1, c2}
  Workers = {w1}
  Generations = 1
  MaxStalled = 1
  Ops = {"create", "cancel"}
  Faults = {}
  None = None
PROPERTIES CancelledIsFinal
CHECK_DEADLOCK FALSE
