----------------------------- MODULE MCRtspServer -----------------------------
EXTENDS RtspServer, TLC

\* Connections are interchangeable.
Symmetry == Permutations(Conns)

\* What a client received matters until its handler ends, a sequence number only
\* relative to the server's, the device's clocks only while packets can come, the
\* last translation only until the next reset.  Once stop() has begun the clocks
\* matter no more.
Relative(last, seq) ==
  [c \in Conns |-> IF last[c] = None \/ conn[c] = "closed" THEN None
                   ELSE <<(seq - last[c].seq) % NumMod, last[c].ts>>]

\* Of a connection that was closed nothing else matters.
Clients ==
  [c \in Conns |-> IF conn[c] = "closed" THEN None ELSE <<conn[c], c \in closing, tracks[c]>>]

View ==
  IF Running
  THEN <<serverVars, rtpQueue, videoTs, IF rebase THEN None ELSE lastDevice, audioClock, Clients,
         calls, resets,
         IF videos < MaxVideo /\ WithinBound THEN device ELSE None,
         bounds, Relative(seen, videoSeq), Relative(heard, audioSeq),
         [c \in Conns |-> conn[c] = "streaming" /\ primed[c] = resets], lastCall>>
  ELSE <<serverVars, Clients>>
=============================================================================
