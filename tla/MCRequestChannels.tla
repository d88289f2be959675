------------------------- MODULE MCRequestChannels --------------------------
(* Three requests, one of them streaming, over as many messages.           *)
EXTENDS RequestChannels, TLC

CONSTANTS r1, r2, s1, w1, w2, m1, m2, m3

Alike == Permutations(Request \ Streaming) \cup Permutations(Worker) \cup Permutations(Msg)
=============================================================================
