------------------------- MODULE MCCloseConnection -------------------------
(* A payload that fits, one that does not, and what is left of the latter.   *)
(* On the connection these stand for all messages, so the message itself is  *)
(* written before anything happens there, and then forgotten.                *)
EXTENDS CloseConnection, TruncateMessage

CONSTANTS a, b, fits, long, cut

MCTruncate == (fits :> fits) @@ (long :> cut) @@ (cut :> cut)

MCInit == Init /\ NoDraft

MCNext ==
    \/ Next /\ draft' = <<>>
    \/ Init /\ WriteByte /\ UNCHANGED vars

MCSpec == MCInit /\ [][MCNext]_<<vars, draft>> /\ Fairness
=============================================================================
