SPECIFICATION Spec
CONSTANTS
  Tasks = {t1, t2, t3}
  Sessions = {s1, s2}
  Listeners = {l1, l2}
  Clients = {c1}
  Rings = {r1}
  None = None
  Notifications = TRUE
  EagerTasks = FALSE
  UserOps = {"start", "stop"}
  Sends <- RingAndEnd
  MaxQueue = 2
  MaxDrops = 0
SYMMETRY Symmetry
VIEW View
INVARIANTS
  OneListener
  NoOrphanSession
  OneNegotiation
  PublishedOnlyWhenStarted
  PlaysBlockedWithoutSession
CHECK_DEADLOCK FALSE
