SPECIFICATION MCSpec
CONSTANTS
  None = None
  Nobody = Nobody
  Left = {s1, s2, s3}
  Right = {t1, t2, t3}
  r1 = r1
  r2 = r2
  l1 = l1
  l2 = l2
  Offerings = {1, 2, 3}
  Rooms = {r1, r2}
  HardCap = 5
  Slots <- MCSlots
  Capacity <- MCCapacity
  Equipped <- MCEquipped
  Skills <- MCSkills
  Required <- MCRequired
  Sks <- MCSks
  Shapes <- MCShapes
  Locks <- MCLocks
INVARIANT InfeasibleIsProof
