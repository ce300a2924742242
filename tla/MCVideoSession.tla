--------------------------- MODULE MCVideoSession ---------------------------
EXTENDS VideoSession, TLC

Symmetry == Permutations(Answers)

\* What is behind the end of its reader makes no difference any more: the frames once
\* the monitor is gone, the queue of an answer once it has left its loop, the counters
\* once nothing is to be sent; how a press has ended makes none either.
Reading == "ctpp" \in alive \/ pc["start"] \in Starting \cup {"idle"}
Draining(a) == pc[a] \in {"lock", "between", "sending", "drain", "acking"}
Sending == active \/ pc["start"] \in Starting \cup {"idle"}
Where == [t \in Tasks |-> IF t # "start" /\ pc[t] \in {"failed", "crashed"} THEN "done" ELSE pc[t]]

View ==
  <<active, set, inbound, rtpcId, handoff, lock, owns, kind, Where, resources, linked, accepted, told,
    opens, drops,
    IF Reading THEN <<frames, sent>> ELSE None,
    IF Sending THEN <<counter, heard>> ELSE counter.high,
    [a \in Answers |-> IF Draining(a) THEN <<queue[a], acked[a], waitsOn[a]>> ELSE None]>>
=============================================================================
