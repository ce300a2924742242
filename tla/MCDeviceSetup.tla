---------------------------- MODULE MCDeviceSetup ----------------------------
EXTENDS DeviceSetup, TLC

Symmetry == Permutations(Forms) \cup Permutations(Phones) \cup Permutations(Hosts)

\* What the coroutine of a form knows is gone with it, and nobody else reads it.
Locals(f) == <<kind[f], wants[f], host[f], token[f], target[f], code[f], subject[f]>>
View == <<device, address, entries, pc, moves, resets, contested,
          [f \in {g \in Forms : pc[g] \notin Ended \cup {"idle"}} |-> Locals(f)]>>
=============================================================================
