CONSTANTS
  Conns = {c1, c2}
  None = None
  TsMod = 16
  NumMod = 16
  VideoRate = 3
  AudioRate = 1
  Discontinuity = 3
  QueueSize = 1
  Starts = {14}
  Steps = {2, 15}
  MaxCalls = 2
  MaxResets = 2
  MaxEvents = 4
  MaxVideo = 2
  MaxAudio = 1
  MaxTicks = 1
SYMMETRY Symmetry
VIEW View
SPECIFICATION Spec
INVARIANTS StreamsServed
PROPERTIES VideoForward AudioForward PrimedFirst PaceKept
CHECK_DEADLOCK FALSE
