----------------------------- MODULE SessionLife -----------------------------
(***************************************************************************)
(* What the session cache promises of each session: it is opened once,     *)
(* waits to be started, runs, and is over for good.  A waiting session     *)
(* does not wait for ever; a running one may run for as long as it likes.  *)
(***************************************************************************)
CONSTANT Sessions

VARIABLE phase

Phases == {"none", "CREATED", "RUNNING", "over"}
Open == {"CREATED", "RUNNING"}

Init == phase = [s \in Sessions |-> "none"]

OpenSession(s) == phase[s] = "none" /\ phase' = [phase EXCEPT ![s] = "CREATED"]
Start(s) == phase[s] \in Open /\ phase' = [phase EXCEPT ![s] = "RUNNING"]
End(s) == phase[s] \in Open /\ phase' = [phase EXCEPT ![s] = "over"]

\* A creation that fails half-way leaves a session that nobody can open.
Abandon(s) == phase[s] = "none" /\ phase' = [phase EXCEPT ![s] = "over"]

\* A crash ends every open session and any of those being opened.
Lose ==
    \E lost \in SUBSET {s \in Sessions : phase[s] = "none"} :
        phase' = [s \in Sessions |-> IF phase[s] \in Open \/ s \in lost THEN "over" ELSE phase[s]]

Next == Lose \/ \E s \in Sessions : OpenSession(s) \/ Abandon(s) \/ Start(s) \/ End(s)

Spec == Init /\ [][Next]_phase

FairSpec == Spec /\ \A s \in Sessions : WF_phase(phase[s] = "CREATED" /\ (Start(s) \/ End(s)))
=============================================================================
