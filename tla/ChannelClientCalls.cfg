SPECIFICATION Spec
CONSTANTS
  Tasks = {t1, t2}
  Channels = {h1, h2, h3}
  Ids = {i1, i2}
  Names = {"RTPC", "UDPM"}
  Placeholders = {"RTPC_DEVICE"}
  None = None
  Push = Push
  MaxRequests = 2
  MaxPushes = 1
  MaxTimeouts = 1
SYMMETRY Symmetry
INVARIANTS
  OwnKind
  CallbackKept
  LockReleased
  OwnIdInOrder
  OwnReplyInTime
CHECK_DEADLOCK FALSE
