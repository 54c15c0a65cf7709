\* Two edits of the master data at once, and a run that loads it meanwhile.
SPECIFICATION Spec
SYMMETRY Symmetry
CONSTANTS
  c3 = c3
  t2 = t2
  f2 = f2
  f3 = f3
  s1 = s1
  s2 = s2
  s3 = s3
  f1 = f1
  t1 = t1
  d1 = d1
  d2 = d2
  c1 = c1
  c2 = c2
  l1 = l1
  l2 = l2
  o1 = o1
  o2 = o2
  k1 = k1
  a1 = a1
  Semesters = {s1, s2, s3}
  Facilities = {f1, f2, f3}
  Slots = {t1, t2}
  Rooms = {d1, d2}
  Courses = {c1, c2, c3}
  Lecturers = {l1, l2}
  Offerings = {o1, o2}
  Locks = {k1}
  Schedules = {a1}
  None = None
  Requests = {q1, q2}
  Seed <- Seeded
INVARIANTS SameSemester RefusalsHaveCause OnlyEditsBreakRuns
PROPERTIES ScheduleKept
CHECK_DEADLOCK FALSE
