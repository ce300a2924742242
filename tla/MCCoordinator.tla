---------------------------- MODULE MCCoordinator ----------------------------
(* Coordinator on small pools of interchangeable objects. *)
EXTENDS Coordinator, TLC

Symmetry ==
  Permutations(Tasks) \cup Permutations(Sessions) \cup Permutations(Listeners)
    \cup Permutations(Clients) \cup Permutations(Rings)

\* Objects nothing refers to are overwritten before they are read again, so
\* states that differ in them alone count as one.
Live(s) == ~FreeSession(s)
Linked(c) == c = client \/ ~FreeClient(c)
View ==
  <<taskVars, slotVars, listenerVars, client, connected, ringVars, deviceVars,
    history, {<<s, phase[s], timer[s], on[s], s \in owns>> : s \in {z \in Sessions : Live(z)}},
    {<<c, c \in ctppOpen, media[c], ctpp[c]>> : c \in {d \in Clients : Linked(d)}}>>

\* The device's part in an instance.
EachOnce == [f \in Frames |-> 1]
RingAndEnd == [f \in Frames |-> IF f = Idle THEN 0 ELSE 1]
RingTwice == [f \in Frames |-> IF f \in Rings THEN 2 ELSE 0]
RingsOnce == [f \in Frames |-> IF f \in Rings THEN 1 ELSE 0]
=============================================================================
