---------------------------- MODULE ReliableChannel ----------------------------
(***************************************************************************)
(* What WebSocketManager's reliable messages promise one client: they are  *)
(* received in the order they were sent, each once and none skipped, until *)
(* the grace period for reconnecting is over; then the ones not received   *)
(* are forgotten.                                                          *)
(***************************************************************************)
EXTENDS Naturals, Sequences

VARIABLES
    sent,       \* how many messages were sent
    waiting,    \* those that were neither received nor forgotten, in order
    received    \* those the client received, repetitions left out

channel == <<sent, waiting, received>>

Init == sent = 0 /\ waiting = <<>> /\ received = <<>>

Send ==
    /\ sent' = sent + 1
    /\ waiting' = Append(waiting, sent')
    /\ UNCHANGED received

Receive ==
    /\ waiting # <<>>
    /\ received' = Append(received, Head(waiting))
    /\ waiting' = Tail(waiting)
    /\ UNCHANGED sent

Forget ==
    /\ waiting # <<>> /\ waiting' = <<>>
    /\ UNCHANGED <<sent, received>>

Next == Send \/ Receive \/ Forget

Spec == Init /\ [][Next]_channel
=============================================================================
