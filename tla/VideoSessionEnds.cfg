CONSTANTS
  Answers = {a1}
  Doors = {}
  Stops = {s1}
  None = None
  Kinds = {"outbound", "inbound"}
  Top = 8
  Firsts = {1}
  MaxFrames = 1
  MaxOpens = 1
  MaxDrops = 1
SPECIFICATION FairSpec
PROPERTIES SessionEnds PressesReturn
CHECK_DEADLOCK FALSE
