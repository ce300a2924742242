CONSTANTS
  Answers = {a1, a2}
  Doors = {d1}
  Stops = {s1}
  None = None
  Kinds = {"outbound", "inbound"}
  Top = 8
  Firsts = {7}
  MaxFrames = 1
  MaxOpens = 1
  MaxDrops = 1
SYMMETRY Symmetry
VIEW View
SPECIFICATION Spec
INVARIANTS NothingLeft AudioAnswered
PROPERTIES CountersFollow LifeImplemented
CHECK_DEADLOCK FALSE
