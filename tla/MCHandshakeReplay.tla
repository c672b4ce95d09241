------------------------- MODULE MCHandshakeReplay -------------------------
(* Three handlers, one of them on the client side, and one sweeper.  Two     *)
(* of the agent ids differ only after their 32nd byte.                       *)
EXTENDS HandshakeReplay, TLC

CONSTANTS s1, s2, c1, w, a1, a2, a3, n1, bad

MCPrefix == (a1 :> "x") @@ (a2 :> "y") @@ (a3 :> "y")

Symmetry == Permutations(Servers)
=============================================================================
