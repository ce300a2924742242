----------------------------- MODULE SessionSlot -----------------------------
(***************************************************************************)
(* What the coordinator promises the entities about its one video session: *)
(* a start holds the slot exclusively, only the holder publishes a session,*)
(* a published session is withdrawn before another one takes its place,    *)
(* and the ready event that stream_source() waits for is set exactly while *)
(* a session is published.                                                 *)
(***************************************************************************)
CONSTANTS Tasks, Sessions, None

VARIABLES
  lock,     \* the task that may publish, None when no start is under way
  session,  \* the published session
  ready     \* the ready event

vars == <<lock, session, ready>>

Init == lock = None /\ session = None /\ ready = FALSE

\* A start takes the lock and may withdraw the running session right away.
Acquire(t) ==
  /\ lock = None /\ lock' = t
  /\ session' \in {session, None} /\ ready' = (session' # None)

Withdraw ==
  /\ session # None /\ session' = None /\ ready' = FALSE
  /\ UNCHANGED lock

Publish(s) ==
  /\ lock # None /\ session = None
  /\ session' = s /\ ready' = TRUE
  /\ UNCHANGED lock

Release ==
  /\ lock # None /\ lock' = None
  /\ UNCHANGED <<session, ready>>

Next ==
  \/ \E t \in Tasks : Acquire(t)
  \/ Withdraw
  \/ \E s \in Sessions : Publish(s)
  \/ Release

Spec == Init /\ [][Next]_vars
=============================================================================
