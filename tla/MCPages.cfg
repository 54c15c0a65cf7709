SPECIFICATION FairSpec
CONSTANTS
  Kinds <- AllKinds
  Rows <- TwoRows
  s1 = s1
  s2 = s2
  Stored <- Starts
  MaxActs = 4
  Classes = {s1, s2}
  Marked = s1
  Hidden <- FirstRow
  Self = 1
  PageSize <- Sizes
  MaxFetches = 2
  None = None
INVARIANTS ShownIsCurrent
PROPERTIES ComesToRest
CHECK_DEADLOCK FALSE
