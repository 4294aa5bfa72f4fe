----------------------------- MODULE SessionSetup -----------------------------
(***************************************************************************)
(* How a session's members are brought together: the controllers of        *)
(* sessionController.ts around SessionLifecycle's actions, the group found *)
(* or made for the members (groupManagementService.ts), the invitations,   *)
(* what members are told of each other, and the availability of users.     *)
(*                                                                         *)
(* A promise nobody awaits that is rejected ends the Node.js process: the  *)
(* service is doomed, and nothing happens before its restart.              *)
(***************************************************************************)
EXTENDS SessionLifecycle

CONSTANTS
    Groups,         \* group identities (a row id and its uuid)
    SetupMayFail    \* the queries of a session's set-up may throw

ASSUME SetupAssumption == None \notin Groups /\ SetupMayFail \in BOOLEAN

VARIABLES
    step,        \* how far the creating request is, once its session is cached
    groupRow,    \* group_members_relations: the users of each group, none if no row
    groupOf,     \* groupUUID of the session object
    announced,   \* <<r, a>>: r was told of a's present connection, and of nothing since
    available,   \* users the app was told it can invite, since its last creation
    doomed       \* an unhandled rejection is ending the process

setup == <<step, groupRow, groupOf, announced, available, doomed>>
setupVars == <<vars, setup>>

Steps == {"none", "findGroup", "insertGroup", "fetchCreator", "invited", "failed"}

SetupTypeOK ==
    /\ TypeOK
    /\ step \in [Sessions -> Steps]
    /\ groupRow \in [Groups -> SUBSET Users]
    /\ groupOf \in [Sessions -> Groups \cup {None}]
    /\ announced \in [Sessions -> SUBSET (Users \X Users)]
    /\ available \subseteq Users
    /\ doomed \in BOOLEAN

\* The groups may be left from sessions before; none of theirs is in progress.
SetupInit ==
    /\ Init
    /\ step = [s \in Sessions |-> "none"]
    /\ groupRow \in [Groups -> SUBSET Users]
    /\ groupOf = [s \in Sessions |-> None]
    /\ announced = [s \in Sessions |-> {}]
    /\ available = {}
    /\ doomed = FALSE

Proceeds(s, next) == step' = [step EXCEPT ![s] = next]

-----------------------------------------------------------------------------
(* Which session a user is connected to: a scan of the cached sessions     *)

\* The scan stops at the first match.  The order of the Map is not modelled.
ConnectedIn(u) == {s \in cached : u \in isConnected[s]}

\* A memberless session makes the scan throw, unless a match precedes it.
ScanMayThrow(u) == cached \cap poisoned # {}
ScanMayReturn(u) == cached \cap poisoned = {} \/ ConnectedIn(u) # {}

-----------------------------------------------------------------------------
(* createSessionController                                                 *)

\* The app invites users that it was told are available.
CreateSession(t, u, s, invited) ==
    /\ invited \subseteq available
    /\ CreateNewSession(t, u, s, invited)
    /\ available' = {}
    /\ UNCHANGED <<step, groupRow, groupOf, announced, doomed>>

SessionCached(t) ==
    /\ FcmFetched(t)
    /\ Proceeds(of[t], "findGroup")
    /\ UNCHANGED <<groupRow, groupOf, announced, available, doomed>>

\* The controller reads the members the session does not have, and throws.
PoisonedCached(t) ==
    /\ CachePoisoned(t)
    /\ Proceeds(of[t], "failed")
    /\ UNCHANGED <<groupRow, groupOf, announced, available, doomed>>

\* Mutant: a group that shares a user with the session will do.
GroupsSharing(users) == {g \in Groups : groupRow[g] \cap users # {}}

\* Groups that contain all the users, and possibly others.
GroupsOf(users) == {g \in Groups : users \subseteq groupRow[g]}

UpdateGroupUUID(s, g) == groupOf' = [groupOf EXCEPT ![s] = g]

\* The session may have ended meanwhile.
UpdateGroupMetadata(s, g) ==
    IF s \in cached
    THEN UpdateGroupUUID(s, g) /\ Proceeds(s, "fetchCreator")
    ELSE Proceeds(s, "failed") /\ UNCHANGED groupOf

FindGroup(s) ==
    /\ step[s] = "findGroup"
    /\ IF GroupsOf(roster[s]) = {}
       THEN Proceeds(s, "insertGroup") /\ UNCHANGED groupOf
       ELSE \E g \in GroupsOf(roster[s]) : UpdateGroupMetadata(s, g)
    /\ UNCHANGED <<vars, groupRow, announced, available, doomed>>

CreateNewGroup(g, users) ==
    groupRow[g] = {} /\ groupRow' = [groupRow EXCEPT ![g] = users]

InsertGroup(s) ==
    /\ step[s] = "insertGroup"
    /\ \E g \in Groups : CreateNewGroup(g, roster[s]) /\ UpdateGroupMetadata(s, g)
    /\ UNCHANGED <<vars, announced, available, doomed>>

\* The connected members other than m are told that m will not come.
TellRejected(s, ms) == announced' = [announced EXCEPT ![s] = @ \ (isConnected[s] \X ms)]

\* Members that are connected to a session already were to be left out, but
\* `uuid in array` asks for an index: everyone is invited.  The creator is told
\* that they will not come, which throws if the session has ended.
InviteMembers(s) ==
    LET busy == {m \in roster[s] \ {creator[s]} : ConnectedIn(m) # {}} IN
    /\ step[s] = "fetchCreator"
    /\ \A m \in roster[s] : ScanMayReturn(m)
    /\ Proceeds(s, "invited")
    /\ IF busy # {} /\ s \notin cached
       THEN doomed' = TRUE /\ UNCHANGED announced
       ELSE TellRejected(s, busy) /\ UNCHANGED doomed
    /\ UNCHANGED <<vars, groupRow, groupOf, available>>

\* Nobody awaits inviteMembersToNewSession.
InviteThrows(s) ==
    /\ step[s] = "fetchCreator"
    /\ \E m \in roster[s] : ScanMayThrow(m)
    /\ doomed' = TRUE
    /\ UNCHANGED <<vars, step, groupRow, groupOf, announced, available>>

\* A query for the group throws: the request is answered with an error.
GroupFails(s) ==
    /\ SetupMayFail
    /\ step[s] \in {"findGroup", "insertGroup"}
    /\ Proceeds(s, "failed")
    /\ UNCHANGED <<vars, groupRow, groupOf, announced, available, doomed>>

\* The creator's name cannot be read, where nobody awaits it.
CreatorUnknown(s) ==
    /\ SetupMayFail
    /\ step[s] = "fetchCreator"
    /\ Proceeds(s, "failed")
    /\ doomed' = TRUE
    /\ UNCHANGED <<vars, groupRow, groupOf, announced, available>>

-----------------------------------------------------------------------------
(* The other controllers.  A session's uuid is known to its creator from    *)
(* the response, to the others from the invitation.                        *)

KnowsOf(u, s) ==
    step[s] \in IF u = creator[s] THEN {"fetchCreator", "invited"} ELSE {"invited"}

ConnectMember(t, u, s) ==
    /\ KnowsOf(u, s) /\ ConnectUser(t, u, s)
    /\ UNCHANGED setup

\* Mutant: only the creator is told.
AnnounceToCreator(s, u) ==
    announced' = [announced EXCEPT ![s] = @ \cup (((isConnected[s] \cap {creator[s]}) \ {u}) \X {u})]

\* The other connected members are told that u connected.
Announce(s, u) ==
    announced' = [announced EXCEPT ![s] = @ \cup ((isConnected[s] \ {u}) \X {u})]

\* There is nobody to send to once the session has left the cache: iterating
\* over undefined throws in a promise nobody awaits.
MemberConnected(t) ==
    /\ WriteConnected(t)
    /\ IF of[t] \in cached
       THEN Announce(of[t], by[t]) /\ UNCHANGED doomed
       ELSE doomed' = TRUE /\ UNCHANGED announced
    /\ UNCHANGED <<step, groupRow, groupOf, available>>

\* Nobody is told: what members heard of u's connection, and u of theirs, is void.
DisconnectMember(t, u, s) ==
    /\ DisconnectUser(t, u, s)
    /\ announced' = [announced EXCEPT ![s] = @ \ ({u} \X Users \cup Users \X {u})]
    /\ UNCHANGED <<step, groupRow, groupOf, available, doomed>>

\* checkSessionIsEmpty throws if the session has ended meanwhile; the
\* web-socket server does not await the disconnection, a request does.
MemberDisconnected(t) ==
    /\ WriteDisconnected(t)
    /\ doomed' \in IF of[t] \in cached THEN {FALSE} ELSE BOOLEAN
    /\ UNCHANGED <<step, groupRow, groupOf, announced, available>>

\* Members decline invitations they have not accepted.
RejectSessionInvite(u, s) ==
    /\ step[s] = "invited" /\ u \in roster[s] \ {creator[s]} /\ s \in cached
    /\ u \notin isConnected[s]
    /\ TellRejected(s, {u})
    /\ UNCHANGED <<vars, step, groupRow, groupOf, available, doomed>>

StartMembers(t, u, s) ==
    KnowsOf(u, s) /\ StartSession(t, u, s) /\ UNCHANGED setup

TerminateByRequest(t, s) ==
    step[s] \in {"fetchCreator", "invited"} /\ TerminateSession(t, s) /\ UNCHANGED setup

\* A memberless session throws: in a request's handler, or in the timer's.
Terminated(t) ==
    /\ AnnounceTermination(t)
    /\ doomed' = (of[t] \in poisoned /\ t \in Sessions)
    /\ UNCHANGED <<step, groupRow, groupOf, announced, available>>

VoteOf(t, s) ==
    step[s] = "invited" /\ Vote(t, s) /\ UNCHANGED setup

-----------------------------------------------------------------------------
(* Availability, and the events of the web-socket server                   *)

IsInActiveSession(u) == ConnectedIn(u) # {}

\* The user has a token, or has none or the query throws.
HasFcmToken == BOOLEAN

\* Bound: answers matter while a session is left to be created with them.
CheckUsersAvailability(u) ==
    /\ \E s \in Sessions : Unused(s)
    /\ ScanMayReturn(u)
    /\ \E token \in HasFcmToken :
           available' = IF token /\ ~IsInActiveSession(u) THEN available \cup {u}
                                                         ELSE available \ {u}
    /\ UNCHANGED <<vars, step, groupRow, groupOf, announced, doomed>>

\* A reconnect has timed out: the user leaves the session it is connected to.
ReconnectTimeout(t, u) == \E s \in ConnectedIn(u) : DisconnectMember(t, u, s)

\* Whether a socket closes or comes back, the other members are told, in a
\* promise nobody awaits; only a scan that throws changes anything here.
OnlineStatusThrows(u) ==
    /\ ScanMayThrow(u)
    /\ doomed' = TRUE
    /\ UNCHANGED <<vars, step, groupRow, groupOf, announced, available>>

-----------------------------------------------------------------------------
\* A transaction fails: a termination nobody awaits ends the process.
TransactionFails(t) ==
    /\ DbFails(t)
    /\ doomed' \in IF at[t] \in {"writeBroken", "writeDisconnected"}
                   THEN (IF t \in Sessions THEN {TRUE} ELSE BOOLEAN) ELSE {FALSE}
    /\ UNCHANGED <<step, groupRow, groupOf, announced, available>>

\* The groups are rows, what the app was told is in the app.
RestartService ==
    /\ Restart
    /\ step' = [s \in Sessions |-> "none"]
    /\ groupOf' = [s \in Sessions |-> None]
    /\ announced' = [s \in Sessions |-> {}]
    /\ doomed' = FALSE
    /\ UNCHANGED <<groupRow, available>>

OtherHandler(t) ==
    \/ MarkOldSessions(t) \/ InsertSession(t) \/ FcmMissing(t)
    \/ WriteRunning(t) \/ AnnounceStart(t) \/ WriteBroken(t)
    \/ NoMatch(t) \/ Match(t) \/ EndSessionWithMatch(t) \/ WriteMatched(t)
    \/ VotingFails(t)

TaskStep(t) ==
    \/ OtherHandler(t) /\ UNCHANGED setup
    \/ SessionCached(t) \/ PoisonedCached(t)
    \/ MemberConnected(t) \/ MemberDisconnected(t) \/ Terminated(t)
    \/ TransactionFails(t)

RequestStep(t, u, s) ==
    \/ \E invited \in SUBSET Users : CreateSession(t, u, s, invited)
    \/ ConnectMember(t, u, s) \/ DisconnectMember(t, u, s) \/ StartMembers(t, u, s)

SessionStep(s) ==
    \/ FindGroup(s) \/ InsertGroup(s) \/ InviteMembers(s) \/ InviteThrows(s)
    \/ GroupFails(s) \/ CreatorUnknown(s)
    \/ CreationTimeout(s) /\ UNCHANGED setup
    \/ \E u \in Users : RejectSessionInvite(u, s)
    \/ \E t \in Requests : TerminateByRequest(t, s) \/ VoteOf(t, s)

UserStep(u) ==
    \/ CheckUsersAvailability(u) \/ OnlineStatusThrows(u)
    \/ \E t \in Requests : ReconnectTimeout(t, u)

SetupNext ==
    \/ /\ ~doomed
       /\ \/ \E t \in Tasks : TaskStep(t)
          \/ \E t \in Requests, u \in Users, s \in Sessions : RequestStep(t, u, s)
          \/ \E s \in Sessions : SessionStep(s)
          \/ \E u \in Users : UserStep(u)
          \/ (SelectStuck \/ MarkStuck) /\ UNCHANGED setup
    \/ RestartService

SetupSpec == SetupInit /\ [][SetupNext]_setupVars

-----------------------------------------------------------------------------
\* ensureGroupExists, "makes sure that group info object exists": the group of a
\* session holds all its members, and nobody joins a session that has none.
GroupHoldsMembers ==
    \A s \in Sessions :
        /\ groupOf[s] # None => roster[s] \subseteq groupRow[groupOf[s]]
        /\ s \in cached /\ groupOf[s] = None => isConnected[s] \subseteq {creator[s]}

Connecting(u, s) == \E t \in Tasks : at[t] = "writeConnected" /\ of[t] = s /\ by[t] = u

\* Of any two connected members of a session one was told of the other: two that
\* join at the same time do not miss each other, whatever was declined before.
ConnectionsAreAnnounced ==
    \A s \in cached : \A a, b \in isConnected[s] :
        \/ a = b \/ Connecting(a, s) \/ Connecting(b, s)
        \/ <<a, b>> \in announced[s] \/ <<b, a>> \in announced[s]
=============================================================================
