SPECIFICATION Spec
CONSTANTS
  Forms = {f1, f2, f3}
  Phones = {p1, p2}
  None = None
  Last = 2
  Hosts = {h1, h2}
  Mac = Mac
  MaxMoves = 1
  MaxResets = 1
SYMMETRY Symmetry
VIEW View
INVARIANTS
  OwnActivation
  TokensLive
PROPERTIES
  UsersKept
  MonitorUntouched
  HostFollows
CHECK_DEADLOCK FALSE
