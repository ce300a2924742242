SPECIFICATION Spec
CONSTANTS
  Tasks = {t1, t2, t3}
  Sessions = {s1, s2}
  Listeners = {l1, l2}
  Clients = {c1}
  Rings = {r1}
  None = None
  Notifications = TRUE
  EagerTasks = TRUE
  UserOps = {"stop"}
  Sends <- EachOnce
  MaxQueue = 1
  MaxDrops = 0
INVARIANTS
  MissedOnce
CHECK_DEADLOCK FALSE
