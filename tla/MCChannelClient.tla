--------------------------- MODULE MCChannelClient ---------------------------
(* ChannelClient with interchangeable callers, channel objects and ids. *)
EXTENDS ChannelClient, TLC

Symmetry ==
  Permutations(Tasks) \cup Permutations(Channels) \cup Permutations(Ids)
=============================================================================
