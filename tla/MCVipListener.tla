---------------------------- MODULE MCVipListener ----------------------------
EXTENDS VipListener

\* A visitor presses, the device announces a call, and somebody opens a door.
Alerting1 == [kind |-> "alerting", ts |-> 1]
CallInit == [kind |-> "init", ts |-> 3]
Door == [kind |-> "door", ts |-> 4]
MCPresses == {Alerting1, CallInit, Door}

\* What the step before has sent makes no difference to the next.
View ==
  <<device, link, queue, initTs, reader, replies, frame, listenerVars, now, events, byReader, cut,
    outcome>>
=============================================================================
