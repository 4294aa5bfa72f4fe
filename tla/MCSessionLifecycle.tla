------------------------- MODULE MCSessionLifecycle -------------------------
(* SessionLifecycle on small instances. *)
EXTENDS SessionLifecycle, TLC

\* Users and request slots are interchangeable; sessions are too, but a slot of
\* Tasks is named after each.
MCSymmetry == Permutations(Users) \cup Permutations(Requests) \cup Permutations(Sessions)
=============================================================================
