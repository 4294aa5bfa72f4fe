-------------------------- MODULE MCReliableDelivery --------------------------
(* ReliableDelivery for TLC; its constants are numbers and need no more. *)
EXTENDS ReliableDelivery
=============================================================================
