------------------------------ MODULE Friendship ------------------------------
(***************************************************************************)
(* Friend requests and their admission in the friendship service.  An      *)
(* action is what one request does from one database transaction to the    *)
(* next; users may be removed between any two of them.  What a transaction *)
(* refuses (a row that is missing, a unique index) it undoes.              *)
(***************************************************************************)
EXTENDS UserTable

CONSTANTS
    FriendTasks,     \* requests the service handles at a time
    Requests         \* the UUIDs of friend requests

VARIABLES
    pending,      \* pending_friend_requests: [uuid, user, friend]
    friends,      \* users_friends: pairs of users
    unused,       \* UUIDs not given yet
    asking,       \* where each request is
    notifying,    \* users whose device is being looked up for a notification
    answered      \* history: how often the admission of a request was answered by success

friendTables == <<pending, friends, unused>>
friendVars == <<friendTables, asking, notifying, answered>>

Pending == [uuid : Requests, user : Ids, friend : Ids]
Quiet == [at |-> "idle"]
FriendSteps ==
    {Quiet} \cup [at : {"insert"}, user : Ids, friend : Ids]
            \cup [at : {"readInitiator", "readFriend"}, request : Pending]

FriendshipTypeOK ==
    /\ pending \subseteq Pending /\ friends \subseteq Ids \X Ids
    /\ unused \subseteq Requests /\ \A p \in pending : p.uuid \notin unused
    /\ asking \in [FriendTasks -> FriendSteps]
    /\ notifying \subseteq Ids
    /\ answered \in [Requests -> Nat]

\* At most one request, or one friendship, to start with.
FriendshipInit ==
    /\ \/ pending = {} /\ friends = {}
       \/ /\ pending \in {{p} : p \in Pending} /\ friends = {}
          /\ \A p \in pending : p.user # p.friend /\ {p.user, p.friend} \subseteq Known
       \/ /\ pending = {} /\ friends \in {{<<u, v>>} : u \in Known, v \in Known}
          /\ \A f \in friends : f[1] # f[2]
    /\ unused = Requests \ {p.uuid : p \in pending}
    /\ asking = [t \in FriendTasks |-> Quiet] /\ notifying = {}
    /\ answered = [q \in Requests |-> 0]

-----------------------------------------------------------------------------
Between(u, v) == {<<u, v>>, <<v, u>>}
AreFriends(u, v) == friends \cap Between(u, v) # {}

\* Mutant: the index is one of the two columns as they are.
HasPendingFrom(u, v) == \E p \in pending : <<p.user, p.friend>> = <<u, v>>

\* The unique index orders the two users: a request bars the one of the other.
HasPending(u, v) == \E p \in pending : <<p.user, p.friend>> \in Between(u, v)

Continue(t, entry) == asking' = [asking EXCEPT ![t] = entry]

\* Users who are friends by now are answered by null.
SetPendingFriendRequest(t, u, v) ==
    /\ asking[t] = Quiet /\ ~AreFriends(u, v)
    /\ Continue(t, [at |-> "insert", user |-> u, friend |-> v])
    /\ UNCHANGED <<users, friendTables, notifying, answered>>

\* The row gets a UUID; the unique index and a check in the table may refuse it.
InsertPending(u, v) ==
    LET uuid == CHOOSE q \in unused : TRUE
    IN  /\ u # v /\ ~HasPending(u, v)
        /\ pending' = pending \cup {[uuid |-> uuid, user |-> u, friend |-> v]}
        /\ unused' = unused \ {uuid}

\* The users' ids are looked up by their UUIDs.
UsersFound(S) == S \subseteq Known

\* The notification of the other user is not waited for.
CreateNewPendingRequest(t) ==
    /\ asking[t].at = "insert" /\ unused # {}
    /\ UsersFound({asking[t].user, asking[t].friend})
    /\ InsertPending(asking[t].user, asking[t].friend)
    /\ notifying' = notifying \cup {asking[t].friend}
    /\ Continue(t, Quiet)
    /\ UNCHANGED <<users, friends, answered>>

\* Mutant: an admitted request is left to be collected later, friends or not.
ResolvedLater(p) ==
    /\ friends' = friends \cup {<<p.user, p.friend>>}
    /\ UNCHANGED pending

\* The request is deleted and the friendship inserted.
Resolved(p) ==
    /\ ~AreFriends(p.user, p.friend)
    /\ pending' = pending \ {p}
    /\ friends' = friends \cup {<<p.user, p.friend>>}

TryResolvePendingRequest(t) ==
    /\ asking[t] = Quiet
    /\ \E p \in pending : Resolved(p) /\ Continue(t, [at |-> "readInitiator", request |-> p])
    /\ UNCHANGED <<users, unused, notifying, answered>>

\* The answer names the friend: the users are read after the commit, and one who is
\* gone makes an error of what was done.
ReadInitiator(t) ==
    /\ asking[t].at = "readInitiator" /\ asking[t].request.user \in Known
    /\ Continue(t, [asking[t] EXCEPT !.at = "readFriend"])
    /\ UNCHANGED <<users, friendTables, notifying, answered>>

ReadFriend(t) ==
    /\ asking[t].at = "readFriend" /\ asking[t].request.friend \in Known
    /\ Continue(t, Quiet)
    /\ answered' = [answered EXCEPT ![asking[t].request.uuid] = @ + 1]
    /\ UNCHANGED <<users, friendTables, notifying>>

\* Refused, or the database fails: null, or an error.
FailRequest(t) ==
    /\ asking[t] # Quiet /\ Continue(t, Quiet)
    /\ UNCHANGED <<users, friendTables, notifying, answered>>

SendPendingRequestNotification(v) ==
    /\ v \in notifying /\ notifying' = notifying \ {v}
    /\ UNCHANGED <<users, friendTables, asking, answered>>

\* Nobody catches a failure of the look-up: the process ends, and its requests.
FailNotification ==
    /\ notifying # {} /\ notifying' = {}
    /\ asking' = [t \in FriendTasks |-> Quiet]
    /\ UNCHANGED <<users, friendTables, answered>>

FriendStep(t) ==
    \/ CreateNewPendingRequest(t) \/ ReadInitiator(t)
    \/ ReadFriend(t) \/ FailRequest(t)

\* What the tables do when a user is deleted.
Cascade(u) ==
    /\ pending' = {p \in pending : u \notin {p.user, p.friend}}
    /\ friends' = {f \in friends : u \notin {f[1], f[2]}}
    /\ UNCHANGED <<unused, asking, notifying, answered>>

-----------------------------------------------------------------------------
\* Two users who ask each other at the same time get one request between them, and
\* two admissions, or one and a late request, one friendship.
OneRelation ==
    /\ \A p, q \in pending : <<q.user, q.friend>> \in Between(p.user, p.friend) => p = q
    /\ \A f, g \in friends : g \in Between(f[1], f[2]) => f = g

\* However many devices admit a request, one of them is told that it was admitted,
\* and the request is not open any more then.
AdmittedOnce ==
    \A q \in Requests :
        answered[q] <= 1 /\ (answered[q] = 1 => \A p \in pending : p.uuid # q)
=============================================================================
