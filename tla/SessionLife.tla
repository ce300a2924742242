----------------------------- MODULE SessionLife -----------------------------
(***************************************************************************)
(* The life of a video session as the coordinator sees it, the one that    *)
(* Coordinator gives its sessions: negotiated once, active or in a renewal *)
(* of its call, ended for good; a timer that is armed at most once; and    *)
(* the coordinator told of a failed renewal and of the time-out once each. *)
(***************************************************************************)
VARIABLES
  phase,  \* "none", "negotiating", "active", "renewing" or "ended"
  timer,  \* "off", "armed" or "cleaning"
  told    \* which of the callbacks on_call_end and on_timeout were made

vars == <<phase, timer, told>>

Init == phase = "none" /\ timer = "off" /\ told = {}

Goes(from, to) == phase = from /\ phase' = to /\ UNCHANGED <<timer, told>>

\* The timer is armed when the start is over, even if the call has ended by then.
Arm ==
  /\ phase \in {"active", "renewing", "ended"} /\ timer = "off" /\ "timeout" \notin told
  /\ timer' = "armed" /\ UNCHANGED <<phase, told>>

\* A renewal that fails ends the session; one that a stop has overtaken may still
\* say so.
GiveUp ==
  /\ phase \in {"renewing", "ended"} /\ "call_end" \notin told
  /\ phase' = "ended" /\ told' = told \cup {"call_end"} /\ UNCHANGED timer

Stop ==
  /\ phase \in {"active", "renewing", "ended"}
  /\ phase' = "ended" /\ timer' = IF timer = "armed" THEN "off" ELSE timer
  /\ UNCHANGED told

Fires == timer = "armed" /\ timer' = "cleaning" /\ phase' = "ended" /\ UNCHANGED told

Reports ==
  /\ timer = "cleaning" /\ timer' = "off" /\ told' = told \cup {"timeout"}
  /\ UNCHANGED phase

Next ==
  \/ Goes("none", "negotiating") \/ Goes("negotiating", "active")
  \/ Goes("negotiating", "ended")
  \/ Goes("active", "renewing") \/ Goes("renewing", "active")
  \/ Arm \/ GiveUp \/ Stop \/ Fires \/ Reports

Spec == Init /\ [][Next]_vars
=============================================================================
