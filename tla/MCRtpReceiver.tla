----------------------------- MODULE MCRtpReceiver -----------------------------
EXTENDS RtpReceiver, TLC

\* Callers and senders are interchangeable.
Symmetry == Permutations(Waiters) \cup Permutations(Senders)

Nothing == [packets |-> 1, fragments |-> FALSE, media |-> FALSE, frames |-> 0, calls |-> 0,
            spoken |-> 0, ticks |-> 0, senders |-> 0]

\* Fragments in any order before start_media; frames and their callers; a talk; a
\* little of everything.
MCBounds ==
  {[Nothing EXCEPT !.packets = 6, !.fragments = TRUE],
   [Nothing EXCEPT !.packets = 3, !.media = TRUE, !.frames = 3, !.calls = 2],
   [Nothing EXCEPT !.spoken = 7, !.ticks = 4, !.senders = 2],
   [Nothing EXCEPT !.fragments = TRUE, !.media = TRUE, !.frames = 1, !.calls = 1,
                   !.spoken = 1, !.ticks = 1, !.senders = 1]}
=============================================================================
