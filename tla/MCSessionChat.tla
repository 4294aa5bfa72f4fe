----------------------------- MODULE MCSessionChat -----------------------------
(* Values for SessionChat: who writes how much. *)
EXTENDS SessionChat, TLC

CONSTANTS a, b

MCUsers == {a, b}
MCTexts == a :> 2 @@ b :> 0
=============================================================================
