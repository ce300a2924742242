SPECIFICATION FairSpec
CONSTANTS
  Tasks = {t1, t2}
  Sessions = {s1, s2}
  Listeners = {l1, l2}
  Clients = {c1}
  Rings = {r1, r2}
  None = None
  Notifications = TRUE
  EagerTasks = TRUE
  UserOps = {}
  Sends <- RingTwice
  MaxQueue = 1
  MaxDrops = 0
INVARIANTS RingAnnouncedOnce
PROPERTIES
  EveryRingReported
  ReaderReturns
  DeadSessionLeavesSlot
CHECK_DEADLOCK FALSE
