--------------------------- MODULE MCReplayCache ---------------------------
(* Values for the constants of ReplayCache: two agent ids with the same     *)
(* first 32 bytes, so that the keys are one per nonce whichever id a call   *)
(* passes.  The goroutines are interchangeable, and so are the nonces.      *)
EXTENDS ReplayCache, TLC

CONSTANTS p1, p2, a1, a2, n1, n2, n3, bad

MCPrefix == [a \in AgentIDs |-> "x"]

Symmetry == Permutations(Procs) \cup Permutations(GoodNonces)
=============================================================================
