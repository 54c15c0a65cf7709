SPECIFICATION HousekeepingSpec
CONSTANTS
  Requests = {q1, q2}
  Semesters = {s1, s2, s3}
  Planned = {s3}
  Times = {0, 1, 2}
  Users = {u1, u2}
  Admins = {u1}
  Concerns = {"semesters", "slot", "accounts"}
  None = None
  Max = 2
  Window = 5
  Second = 2
  Horizon = 12
  MaxHits = 6
  a = a
  b = b
  r1 = r1
  r2 = r2
  t1 = t1
  t2 = t2
  l1 = l1
  l2 = l2
  Sessions = {a, b}
  Rooms = {r1, r2}
  Slots = {t1, t2}
  Lecturers = {l1, l2}
  Team <- Teams
  Schedules <- Legacy
  Editors = {e1, e2}
  Saves = {k1, k2}
  MaxSaves = 2
  Nothing = Nothing
SYMMETRY Alike
INVARIANTS KeptInTurn WindowHolds RetryIsEnough NoClashUnseen TrailAccounts
PROPERTIES ActivationKeepsOne LastAdminByStale OnlyWhatChanged
CHECK_DEADLOCK FALSE
