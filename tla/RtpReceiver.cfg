SPECIFICATION Spec
SYMMETRY Symmetry
CONSTANTS
  Nals = {n1, n2}
  Parts = 3
  Waiters = {w1, w2}
  Senders = {s1, s2}
  None = None
  Passthrough = TRUE
  QueueSize = 1
  MaxErrors = 2
  Frame = 2
  Cap = 4
  Keep = 2
  MicSize = 2
  Bursts = {1, 3}
  Bounds <- MCBounds
INVARIANTS HealsAtNextStart FrameIsNew QuietAfterStop MicInOrder TalkLatency
CHECK_DEADLOCK FALSE
