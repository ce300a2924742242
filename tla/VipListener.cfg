CONSTANTS
  Presses <- MCPresses
  None = None
  DedupWindow = 2
  RepeatFor = 2
  MaxConnections = 2
  MaxInits = 2
  MaxFrames = 3
  MaxQueue = 2
  MaxTime = 2
VIEW View
SPECIFICATION Spec
INVARIANTS AnsweredIsReported
PROPERTIES AnswersMatch OncePerReader
CHECK_DEADLOCK FALSE
