------------------------- MODULE MCHandshakeSession -------------------------
(* HandshakeSession as it stands; the bounds are in the configurations.      *)
EXTENDS HandshakeSession
=============================================================================
