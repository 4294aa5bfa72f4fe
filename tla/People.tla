-------------------------------- MODULE People --------------------------------
(* The account service and the friendship service on their common table of   *)
(* users: a request for friends takes an access token, and the removal of an *)
(* account takes the user's requests and friendships with it.                *)
EXTENDS Accounts, Friendship

CONSTANTS
    Registered,     \* the table of users to start with
    MaxBegun        \* bound on the requests explored, of both services together

ASSUME PeopleAssumption == Registered \in UserTables /\ MaxBegun \in Nat

VARIABLE begun      \* requests begun

vars == <<accountVars, friendVars, begun>>

Init == users = Registered /\ AccountsInit /\ FriendshipInit /\ begun = 0

\* Mutant: the friendships of a removed user are kept.
DeletedKeepingFriends(u) == UNCHANGED friendVars

Deleted(u) == Cascade(u)

Begun == begun < MaxBegun /\ begun' = begun + 1

AccountRequest ==
    /\ \/ \E t \in AccountTasks : AccountBegin(t)
       \/ \E u \in Ids : ExpireAccessToken(u) \/ RegenerateAccessToken(u)
       \/ LogoutAllUsers
    /\ Begun /\ UNCHANGED friendVars

FriendRequest ==
    /\ \E t \in FriendTasks :
          \/ \E u \in authorized, v \in Ids : SetPendingFriendRequest(t, u, v)
          \/ authorized # {} /\ TryResolvePendingRequest(t)
    /\ Begun /\ UNCHANGED accountVars

AccountProgress ==
    /\ \/ \E t \in AccountTasks : AccountStep(t) /\ UNCHANGED friendVars
       \/ \E t \in AccountTasks : DeleteUserAccount(t) /\ Deleted(task[t].user)
       \/ (FailUnhandled \/ Tick) /\ UNCHANGED friendVars
    /\ UNCHANGED begun

FriendProgress ==
    /\ \/ \E t \in FriendTasks : FriendStep(t)
       \/ \E v \in Ids : SendPendingRequestNotification(v)
       \/ FailNotification
    /\ UNCHANGED <<accountVars, begun>>

Next == AccountRequest \/ AccountProgress \/ FriendRequest \/ FriendProgress

Spec == Init /\ [][Next]_vars

TypeOK == AccountsTypeOK /\ FriendshipTypeOK /\ begun \in 0..MaxBegun

\* Of a removed account no refresh token, no device, no friend request and no friendship
\* is left, whatever requests of the user or about the user were under way, in either
\* service.  Pictures, ratings, groups and the rows of sessions, which no foreign key
\* ties to the account, stay, and so do access tokens, which are in no table.
RemovedUserHasNoTies ==
    /\ \A r \in refresh : r.user \in Known
    /\ \A p \in fcm : p[1] \in Known
    /\ \A p \in pending : {p.user, p.friend} \subseteq Known
    /\ \A f \in friends : {f[1], f[2]} \subseteq Known
=============================================================================
