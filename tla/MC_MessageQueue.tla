------------------------- MODULE MC_MessageQueue -------------------------
(* Instance of MessageQueue for TLC: two queues of three slots.            *)
EXTENDS MessageQueue, TLC

CONSTANTS p1, p2, m1, m2

MCProcs == {p1, p2}
MCMessage == {m1, m2}

\* Processes and messages are only compared, so they may be permuted.
Symm == Permutations(MCProcs) \cup Permutations(MCMessage)
=============================================================================
