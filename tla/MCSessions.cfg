SPECIFICATION FairSpec
CONSTANTS
  Tabs = {t1}
  Works = {q1, q2}
  Tokens = {k1, k2, k3}
  Habits = {"timer", "access", "refresh", "lose", "admin"}
  None = None
INVARIANTS OneLiveToken RefusedIsDead ExpiredIsDead
PROPERTIES RequestsEnd
CHECK_DEADLOCK FALSE
