SPECIFICATION Spec
CONSTANTS
  Forms = {f1, f2}
  Phones = {p1}
  None = None
  Last = 2
  Hosts = {h1, h2}
  Mac = Mac
  MaxMoves = 1
  MaxResets = 0
SYMMETRY Symmetry
INVARIANTS
  ReconfigureApplies
CHECK_DEADLOCK FALSE
