----------------------------- MODULE MCChannel -----------------------------
(* A small instance of Channel: two of the three users share an address,   *)
(* one is AUTOOP, one of the two channel names is non-interactive.         *)
EXTENDS Channel

CONSTANTS u1, u2, u3, room, star, ipA, ipB

MCIpOf == [u \in Users |-> IF u \in {u1, u2} THEN ipA ELSE ipB]
=============================================================================
