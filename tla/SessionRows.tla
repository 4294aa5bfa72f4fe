----------------------------- MODULE SessionRows -----------------------------
(* The rows of tables matching_session and matching_session_users, and the   *)
(* queries by which the matching service reads and writes them.  Each query  *)
(* runs in a transaction of its own, so each is one step of its caller.      *)
EXTENDS Integers, FiniteSets

CONSTANTS
    Sessions,      \* session identities (a row id and its uuid)
    Users,
    None           \* no session, no user

VARIABLES
    roster,        \* matching_session_users: the creator and the invited users
    creator,       \* the user whose row says is_creator
    row,           \* session_state column, or NONE
    rowConnected   \* users whose row says is_connected

rows == <<roster, creator, row, rowConnected>>

LiveStates == {"CREATED", "RUNNING"}
RowStates == LiveStates \cup {"NONE", "MATCHED", "BROKEN"}

\* The uuid a new row gets is one that no row has and no creation is using.
Unused(s) == row[s] = "NONE" /\ creator[s] = None

SessionsByState(states) == {s \in Sessions : row[s] \in states}

\* Every session the user is a member of, created or merely invited to, whose
\* row is still in progress.
ActiveSessions(u) == {s \in Sessions : u \in roster[s] /\ row[s] \in LiveStates}

UpdateStates(ss, state) ==
    /\ row' = [s \in Sessions |-> IF s \in ss THEN state ELSE row[s]]
    /\ UNCHANGED <<roster, creator, rowConnected>>

\* markSessionsAsBroken keeps the rows of the sessions' users.
MarkBroken(ss) == UpdateStates(ss, "BROKEN")

UpdateState(s, state) == UpdateStates({s}, state)

InsertSessionRow(s) == row' = [row EXCEPT ![s] = "CREATED"]

\* Of the users inserted with a session only u, its creator, is connected.
InsertSessionUsers(s, u) == rowConnected' = [rowConnected EXCEPT ![s] = {u}]

InsertNewSession(s, u) ==
    InsertSessionRow(s) /\ InsertSessionUsers(s, u) /\ UNCHANGED <<roster, creator>>

UpdateConnected(s, u, connected) ==
    /\ rowConnected' =
         [rowConnected EXCEPT ![s] = IF connected THEN @ \cup {u} ELSE @ \ {u}]
    /\ UNCHANGED <<roster, creator, row>>
=============================================================================
