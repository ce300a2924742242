SPECIFICATION Spec
CONSTANTS
  Tasks = {t1, t2}
  Sessions = {s1, s2}
  Listeners = {l1, l2}
  Clients = {c1, c2}
  Rings = {r1}
  None = None
  Notifications = TRUE
  EagerTasks = FALSE
  UserOps = {"answer", "door", "remove"}
  Sends <- RingsOnce
  MaxQueue = 1
  MaxDrops = 1
SYMMETRY Symmetry
VIEW View
INVARIANTS
  StoppedByOneCall
PROPERTIES
  SlotImplemented
CHECK_DEADLOCK FALSE
