---------------------------- MODULE MCSessionSetup ----------------------------
(* SessionSetup on small instances. *)
EXTENDS SessionSetup, TLC

CONSTANT MaxMembers     \* bound on the members of all sessions together

MCSymmetry == Permutations(Users) \cup Permutations(Requests)
              \cup Permutations(Sessions) \cup Permutations(Groups)

\* Two sessions make the groups they find; no row is left from before.
MCInit == SetupInit /\ \A g \in Groups : groupRow[g] = {}
MCSpec == MCInit /\ [][SetupNext]_setupVars

Memberships == {p \in Sessions \X Users : p[2] \in roster[p[1]]}

\* Sessions that are started or voted on are SessionLifecycle's subject: here
\* one at a time is, with nothing going on beside it.
UnderWay == \/ \E s \in Sessions : told[s] # {}
            \/ \E t \in Tasks : at[t] \in {"evaluateVotes", "writeRunning"}
Alone == /\ Cardinality({t \in Tasks : at[t] # "idle"}) <= 1
         /\ Cardinality({s \in Sessions : creator[s] # None}) <= 1

\* Nothing is explored after a termination was announced or a set-up failed, nor
\* once the process is about to end; after a restart only the reload is.
MCBound ==
    /\ Cardinality(Memberships) <= MaxMembers
    /\ UnderWay => Alone
    /\ \A s \in Sessions : /\ "SESSION_TERMINATED" \notin told[s]
                           /\ step[s] = "failed" => s \in poisoned
    /\ ~doomed
    /\ restarts > 0 => \A t \in Tasks : at[t] = "idle"
=============================================================================
