SPECIFICATION StreamFairSpec
CONSTANTS
  Runs = {r1}
  Keys = {}
  Bodies = {b1, b2}
  Deletable = b1
  Calls = {c1}
  Workers = {w1}
  Generations = 1
  MaxStalled = 1
  Ops = {"create", "cancel", "delete"}
  Faults = {"publish"}
  None = None
  Pages = {p1}
  Watched <- OneRun
  MaxRetries = 1
  Fetches = {f1, f2}
  MaxLosses = 1
  StreamFaults = {"drop", "redis", "fetch"}
INVARIANTS LiveStreamsWait PageTruthful
PROPERTIES PageLearns Settles
ACTION_CONSTRAINT DeletesOrLoses
CHECK_DEADLOCK FALSE
