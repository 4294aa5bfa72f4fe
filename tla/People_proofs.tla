---------------------------- MODULE People_proofs ----------------------------
(* That the tables keep their types, two users have one relation, a request *)
(* is admitted once, a removed user's ties are cut, a logout is complete and *)
(* a login lasts, for any number of users, devices and concurrent requests   *)
(* of both services.                                                         *)
EXTENDS People, TLAPS, FiniteSetTheorems

\* Tokens, devices and tables only speak of users there are.
AccountInv ==
    /\ Known \subseteq Ids /\ fresh \subseteq Ids
    /\ \A r \in refresh : r = [id |-> r.id, user |-> r.user, token |-> r.token]
    /\ \A r \in refresh : r.user \in Known
    /\ \A p \in fcm : p[1] \in Known

RelationInv ==
    /\ pending \subseteq Pending /\ friends \subseteq Ids \X Ids
    /\ \A p \in pending : {p.user, p.friend} \subseteq Known
    /\ \A f \in friends : {f[1], f[2]} \subseteq Known
    /\ OneRelation

\* An admission is past its transaction, and is to be answered.
Admits(t, q) == asking[t].at \in {"readInitiator", "readFriend"} /\ asking[t].request.uuid = q

\* The UUID of a request is unused, or in the table, or in the hands of the one
\* admission that took it out, or was answered.
AdmissionInv ==
    /\ unused \subseteq Requests
    /\ asking = [t \in FriendTasks |-> asking[t]]
    /\ \A t \in FriendTasks :
          asking[t].at \in {"readInitiator", "readFriend"}
             => /\ asking[t] = [at |-> asking[t].at, request |-> asking[t].request]
                /\ asking[t].request \in Pending
    /\ answered \in [Requests -> 0..1]
    /\ \A q \in unused : answered[q] = 0
    /\ \A p \in pending : answered[p.uuid] = 0 /\ p.uuid \notin unused
    /\ \A p, q \in pending : p.uuid = q.uuid => p = q
    /\ \A t \in FriendTasks, q \in Requests :
          Admits(t, q) => /\ answered[q] = 0 /\ q \notin unused
                          /\ \A p \in pending : p.uuid # q
                          /\ \A s \in FriendTasks : Admits(s, q) => s = t

IInv == AccountInv /\ RelationInv /\ AdmissionInv

-----------------------------------------------------------------------------
(* The two sides of the step: what a service leaves alone stays as it is.   *)

LEMMA SameAccounts ==
    ASSUME AccountInv, UNCHANGED <<users, fresh, refresh, fcm>>
    PROVE  AccountInv' /\ Known' = Known
BY DEF AccountInv, Known

LEMMA SameFriends ==
    ASSUME RelationInv, AdmissionInv, UNCHANGED friendVars, Known \subseteq Known'
    PROVE  RelationInv' /\ AdmissionInv'
<1> USE DEF friendVars, friendTables
<1>1. RelationInv'
  BY DEF RelationInv, OneRelation
<1>2. AdmissionInv'
  BY DEF AdmissionInv, Admits
<1> QED BY <1>1, <1>2

LEMMA PairsEqual ==
    ASSUME NEW u, NEW v, NEW x, NEW y
    PROVE  <<u, v>> \in Between(x, y) <=> (u = x /\ v = y) \/ (u = y /\ v = x)
BY DEF Between

LEMMA InvInit == Init => IInv
<1> SUFFICES ASSUME Init PROVE IInv
  OBVIOUS
<1> USE DEF Init
<1>1. Known \subseteq Ids
  BY PeopleAssumption DEF Known, UserTables
<1>2. AccountInv
  BY <1>1 DEF AccountsInit, AccountInv
<1> USE DEF FriendshipInit
<1>3. pending \subseteq Pending /\ \A p, q \in pending : p = q
  OBVIOUS
<1>4. /\ friends \subseteq Ids \X Ids /\ \A f, g \in friends : f = g
      /\ \A f \in friends : {f[1], f[2]} \subseteq Known
  BY <1>1
<1>5. \A p \in pending : {p.user, p.friend} \subseteq Known
  OBVIOUS
<1>6. RelationInv
  BY <1>3, <1>4, <1>5 DEF RelationInv, OneRelation
<1>7. AdmissionInv
  <2>1. \A t \in FriendTasks : asking[t].at = "idle"
    BY DEF Quiet
  <2>2. asking = [t \in FriendTasks |-> asking[t]]
    OBVIOUS
  <2>3. /\ answered \in [Requests -> 0..1] /\ \A q \in Requests : answered[q] = 0
    OBVIOUS
  <2>4. unused \subseteq Requests /\ \A p \in pending : p.uuid \in Requests /\ p.uuid \notin unused
    BY <1>3 DEF Pending
  <2> HIDE DEF Init, FriendshipInit
  <2> QED BY <1>3, <2>1, <2>2, <2>3, <2>4 DEF AdmissionInv, Admits
<1> QED BY <1>2, <1>6, <1>7 DEF IInv

-----------------------------------------------------------------------------
(* The account service. *)

LEMMA InvAccountRequest ==
    ASSUME IInv, AccountRequest
    PROVE  IInv'
<1>1. UNCHANGED friendVars
  BY DEF AccountRequest
<1>2. AccountInv' /\ Known \subseteq Known'
  <2>1. ASSUME NEW t \in AccountTasks, NEW e \in Emails, CreateUser(t, e)
        PROVE  AccountInv' /\ Known \subseteq Known'
    <3>1. PICK u \in fresh :
            /\ users' = [v \in Known \cup {u} |-> IF v = u THEN e ELSE users[v]]
            /\ fresh' = fresh \ {u}
      BY <2>1 DEF CreateUser, CreateNewUserWithCredentials
    <3>2. Known' = Known \cup {u}
      BY <3>1 DEF Known
    <3> QED BY <2>1, <3>1, <3>2 DEF CreateUser, CreateNewUserWithCredentials, IInv, AccountInv
  <2>2. CASE LogoutAllUsers
    BY <2>2 DEF LogoutAllUsers, DeleteAllUsersLoginSessionInfo, DeleteAllRefreshTokens,
                DeleteAllFCMTokens, IInv, AccountInv, Known
  <2>3. ASSUME UNCHANGED <<users, accountTables>>
        PROVE  AccountInv' /\ Known \subseteq Known'
    BY <2>3, SameAccounts DEF accountTables, IInv
  <2>4. ASSUME NEW t \in AccountTasks, AccountBegin(t)
        PROVE  UNCHANGED <<users, accountTables>> \/ \E e \in Emails : CreateUser(t, e)
    BY <2>4 DEF AccountBegin, LoginUserAccount, OpenLink, LogoutUserFromSession,
                RemoveUserAccount
  <2>5. ASSUME NEW u \in Ids, ExpireAccessToken(u) \/ RegenerateAccessToken(u)
        PROVE  UNCHANGED <<users, accountTables>>
    BY <2>5 DEF ExpireAccessToken, RegenerateAccessToken
  <2> QED BY <2>1, <2>2, <2>3, <2>4, <2>5 DEF AccountRequest
<1> QED BY <1>1, <1>2, SameFriends DEF IInv

\* Of the steps of a request, those that write tokens and devices find the user.
LEMMA InvAccountStep ==
    ASSUME AccountInv, NEW t \in AccountTasks, AccountStep(t)
    PROVE  AccountInv' /\ Known' = Known
<1> USE DEF AccountInv
<1>1. CASE HandleFCMOnLogin(t)
  <2>1. fcm' = FcmAfter(task[t].user, task[t].device) /\ task[t].user \in Known
        /\ UNCHANGED <<users, fresh, refresh>>
    BY <1>1 DEF HandleFCMOnLogin
  <2> QED BY <2>1 DEF FcmAfter, Known
<1>2. CASE InsertNewRefreshToken(t)
  <2>1. PICK i : refresh' = refresh \cup {[id |-> i, user |-> task[t].user,
                                           token |-> task[t].token]}
    BY <1>2 DEF InsertNewRefreshToken
  <2>2. task[t].user \in Known /\ UNCHANGED <<users, fresh, fcm>>
    BY <1>2 DEF InsertNewRefreshToken, LoggedIn
  <2> QED BY <2>1, <2>2 DEF Known
<1>3. CASE UpdateCurrentRefreshToken(t)
  <2>1. refresh' = Updated(task[t].row, task[t].token) /\ UNCHANGED <<users, fresh, fcm>>
    BY <1>3 DEF UpdateCurrentRefreshToken, LoggedIn
  <2>2. ASSUME NEW r \in refresh, NEW token
        PROVE  [r EXCEPT !.token = token] = [id |-> r.id, user |-> r.user, token |-> token]
    OBVIOUS
  <2>3. \A r \in refresh' : /\ r = [id |-> r.id, user |-> r.user, token |-> r.token]
                            /\ r.user \in Known
    BY <2>1, <2>2 DEF Updated
  <2> QED BY <2>1, <2>3 DEF Known
<1>4. CASE DeleteRefreshTokenByUserId(t)
  BY <1>4 DEF DeleteRefreshTokenByUserId, TokensDropped, Known
<1>5. CASE DeleteFcmRecordByUserId(t)
  BY <1>5 DEF DeleteFcmRecordByUserId, Known
<1>6. CASE \/ SendVerificationEmail(t) \/ UpdateUserVerification(t)
           \/ DeleteEmailVerificationToken(t) \/ TryGetRefreshTokenRecordId(t) \/ Fail(t)
  <2>1. UNCHANGED <<users, fresh, refresh, fcm>>
    BY <1>6 DEF SendVerificationEmail, UpdateUserVerification, DeleteEmailVerificationToken,
                TryGetRefreshTokenRecordId, Fail, accountTables
  <2> QED BY <2>1, SameAccounts
<1> QED BY <1>1, <1>2, <1>3, <1>4, <1>5, <1>6 DEF AccountStep

\* A removal takes along what there is of the user in either service; later steps of
\* his requests find no user.
LEMMA InvDelete ==
    ASSUME IInv, NEW t \in AccountTasks, DeleteUserAccount(t), Deleted(task[t].user)
    PROVE  IInv'
<1> DEFINE u == task[t].user
<1>1. /\ Known' = Known \ {u} /\ fresh' = fresh
      /\ refresh' = refresh \ RowsOf(u) /\ fcm' = {p \in fcm : p[1] # u}
  BY DEF DeleteUserAccount, Known
<1>2. /\ pending' = {p \in pending : u \notin {p.user, p.friend}}
      /\ friends' = {f \in friends : u \notin {f[1], f[2]}}
      /\ UNCHANGED <<unused, asking, answered>>
  BY DEF Deleted, Cascade
<1> HIDE DEF u
<1>3. AccountInv'
  BY <1>1 DEF IInv, AccountInv, RowsOf
<1>4. RelationInv'
  BY <1>1, <1>2 DEF IInv, RelationInv, OneRelation
<1>5. AdmissionInv'
  BY <1>2 DEF IInv, AdmissionInv, Admits
<1> QED BY <1>3, <1>4, <1>5 DEF IInv

LEMMA InvAccountProgress ==
    ASSUME IInv, AccountProgress
    PROVE  IInv'
<1>1. ASSUME NEW t \in AccountTasks, AccountStep(t), UNCHANGED friendVars PROVE IInv'
  BY <1>1, InvAccountStep, SameFriends DEF IInv
<1>2. ASSUME NEW t \in AccountTasks, DeleteUserAccount(t), Deleted(task[t].user) PROVE IInv'
  BY <1>2, InvDelete
<1>3. CASE (FailUnhandled \/ Tick) /\ UNCHANGED friendVars
  <2>1. UNCHANGED <<users, fresh, refresh, fcm>>
    BY <1>3 DEF FailUnhandled, Tick, accountTables
  <2> QED BY <1>3, <2>1, SameAccounts, SameFriends DEF IInv
<1> QED BY <1>1, <1>2, <1>3 DEF AccountProgress

-----------------------------------------------------------------------------
(* The friendship service. *)

\* The unique index and the check in the transaction keep the relation single.
LEMMA InvCreate ==
    ASSUME RelationInv, AdmissionInv, Known \subseteq Ids,
           NEW t \in FriendTasks, CreateNewPendingRequest(t)
    PROVE  RelationInv' /\ AdmissionInv'
<1> USE DEF CreateNewPendingRequest, InsertPending, UsersFound
<1>1. PICK u, v, uuid :
        /\ uuid \in unused /\ {u, v} \subseteq Known /\ ~HasPending(u, v)
        /\ pending' = pending \cup {[uuid |-> uuid, user |-> u, friend |-> v]}
        /\ unused' = unused \ {uuid}
  <2>1. (CHOOSE q \in unused : TRUE) \in unused
    OBVIOUS
  <2>2. \E uuid \in unused :
           LET u == asking[t].user
               v == asking[t].friend
           IN  /\ {u, v} \subseteq Known /\ ~HasPending(u, v)
               /\ pending' = pending \cup {[uuid |-> uuid, user |-> u, friend |-> v]}
               /\ unused' = unused \ {uuid}
    BY <2>1
  <2> QED BY <2>2
<1>2. /\ UNCHANGED <<users, friends, answered>> /\ Known' = Known
      /\ asking' = [asking EXCEPT ![t] = Quiet]
  BY DEF Known, Continue
<1> DEFINE p == [uuid |-> uuid, user |-> u, friend |-> v]
<1>3. p \in Pending
  BY <1>1 DEF Pending, AdmissionInv
<1>4. \A q \in pending : /\ <<q.user, q.friend>> \notin Between(p.user, p.friend)
                         /\ <<p.user, p.friend>> \notin Between(q.user, q.friend)
  BY <1>1 DEF HasPending, Between
<1>5. p.uuid = uuid /\ {p.user, p.friend} \subseteq Known
  BY <1>1
<1>6. pending' = pending \cup {p}
  BY <1>1
<1> HIDE DEF p, CreateNewPendingRequest, InsertPending
<1>7. RelationInv'
  BY <1>2, <1>3, <1>4, <1>5, <1>6 DEF RelationInv, OneRelation
<1>8. \A s \in FriendTasks : asking'[s] = IF s = t THEN Quiet ELSE asking[s]
  BY <1>2 DEF AdmissionInv
<1>9. \A s \in FriendTasks : \A q : Admits(s, q)' <=> s # t /\ Admits(s, q)
  BY <1>8 DEF Admits, Quiet
<1>10. AdmissionInv'
  <2>1. /\ unused' \subseteq Requests /\ answered' = answered
        /\ asking' = [s \in FriendTasks |-> asking'[s]]
        /\ \A s \in FriendTasks :
              asking'[s].at \in {"readInitiator", "readFriend"}
                 => /\ asking'[s] = [at |-> asking'[s].at, request |-> asking'[s].request]
                    /\ asking'[s].request \in Pending
    BY <1>1, <1>2, <1>8 DEF AdmissionInv, Quiet
  <2>2. /\ \A q \in pending' : answered[q.uuid] = 0 /\ q.uuid \notin unused'
        /\ \A q, r \in pending' : q.uuid = r.uuid => q = r
    BY <1>1, <1>5, <1>6 DEF AdmissionInv
  <2>3. \A s \in FriendTasks, q \in Requests :
          Admits(s, q)' => /\ answered[q] = 0 /\ q \notin unused'
                           /\ \A r \in pending' : r.uuid # q
                           /\ \A r \in FriendTasks : Admits(r, q)' => r = s
    BY <1>1, <1>5, <1>6, <1>9 DEF AdmissionInv
  <2>4. \A q \in unused' : answered[q] = 0
    BY <1>1 DEF AdmissionInv
  <2> QED BY <1>2, <2>1, <2>2, <2>3, <2>4 DEF AdmissionInv
<1> QED BY <1>7, <1>10

\* An admission takes the request out of the table and into its hands.
LEMMA InvResolve ==
    ASSUME RelationInv, AdmissionInv, NEW t \in FriendTasks, TryResolvePendingRequest(t)
    PROVE  RelationInv' /\ AdmissionInv'
<1>1. PICK p \in pending : Resolved(p) /\ Continue(t, [at |-> "readInitiator", request |-> p])
  BY DEF TryResolvePendingRequest
<1>2. /\ UNCHANGED <<users, unused, answered>> /\ Known' = Known
      /\ pending' = pending \ {p} /\ friends' = friends \cup {<<p.user, p.friend>>}
      /\ ~AreFriends(p.user, p.friend) /\ asking[t] = Quiet
  BY <1>1 DEF TryResolvePendingRequest, Resolved, Known
<1>3. \A s \in FriendTasks :
        asking'[s] = IF s = t THEN [at |-> "readInitiator", request |-> p] ELSE asking[s]
  BY <1>1 DEF AdmissionInv, Continue
<1>4. p \in Pending /\ p.user \in Ids /\ p.friend \in Ids /\ p.uuid \in Requests
  BY DEF RelationInv, Pending
<1>5. RelationInv'
  <2>1. \A f \in friends : f = <<f[1], f[2]>>
    BY DEF RelationInv
  <2>2. \A f \in friends : <<f[1], f[2]>> \notin Between(p.user, p.friend)
    BY <1>2, <2>1 DEF AreFriends
  <2>3. \A f \in friends : /\ f \notin Between(p.user, p.friend)
                           /\ <<p.user, p.friend>> \notin Between(f[1], f[2])
    BY <2>1, <2>2, PairsEqual
  <2>4. \A f, g \in friends' : g \in Between(f[1], f[2]) => f = g
    <3> SUFFICES ASSUME NEW f \in friends', NEW g \in friends', g \in Between(f[1], f[2])
                 PROVE  f = g
      OBVIOUS
    <3> DEFINE n == <<p.user, p.friend>>
    <3>1. n[1] = p.user /\ n[2] = p.friend
      OBVIOUS
    <3>2. f \in friends \/ f = n
      BY <1>2
    <3>3. g \in friends \/ g = n
      BY <1>2
    <3> HIDE DEF n
    <3>4. CASE f \in friends /\ g \in friends
      BY <3>4 DEF RelationInv, OneRelation
    <3>5. CASE f \in friends /\ g = n
      BY <2>3, <3>5 DEF n
    <3>6. CASE f = n /\ g \in friends
      BY <2>3, <3>1, <3>6
    <3> QED BY <3>2, <3>3, <3>4, <3>5, <3>6
  <2>5. \A q, r \in pending' : <<r.user, r.friend>> \in Between(q.user, q.friend) => q = r
    BY <1>2 DEF RelationInv, OneRelation
  <2>6. /\ friends' \subseteq Ids \X Ids /\ pending' \subseteq Pending
        /\ \A q \in pending' : {q.user, q.friend} \subseteq Known
    BY <1>2, <1>4 DEF RelationInv
  <2>7. \A f \in friends' : {f[1], f[2]} \subseteq Known
    BY <1>2 DEF RelationInv
  <2> QED BY <1>2, <2>4, <2>5, <2>6, <2>7 DEF RelationInv, OneRelation
<1>6. \A s \in FriendTasks : \A q :
        Admits(s, q)' <=> (s = t /\ q = p.uuid) \/ (s # t /\ Admits(s, q))
  BY <1>3 DEF Admits
<1>7. AdmissionInv'
  <2>1. /\ asking' = [s \in FriendTasks |-> asking'[s]]
        /\ \A s \in FriendTasks :
              asking'[s].at \in {"readInitiator", "readFriend"}
                 => /\ asking'[s] = [at |-> asking'[s].at, request |-> asking'[s].request]
                    /\ asking'[s].request \in Pending
    BY <1>1, <1>3, <1>4 DEF AdmissionInv, Continue
  <2>2. \A s \in FriendTasks, q \in Requests :
          Admits(s, q)' => /\ answered[q] = 0 /\ q \notin unused
                           /\ \A r \in pending' : r.uuid # q
                           /\ \A r \in FriendTasks : Admits(r, q)' => r = s
    BY <1>2, <1>4, <1>6 DEF AdmissionInv
  <2> QED BY <1>2, <2>1, <2>2 DEF AdmissionInv
<1> QED BY <1>5, <1>7

\* The other steps answer an admission, or drop what a request was about.
LEMMA InvAnswer ==
    ASSUME RelationInv, AdmissionInv, UNCHANGED <<users, friendTables>>,
           NEW t \in FriendTasks,
           \/ ReadInitiator(t) \/ ReadFriend(t) \/ FailRequest(t) \/ FailNotification
           \/ \E u \in authorized, v \in Ids : SetPendingFriendRequest(t, u, v)
           \/ \E v \in Ids : SendPendingRequestNotification(v)
    PROVE  RelationInv' /\ AdmissionInv'
<1>1. UNCHANGED <<pending, friends, unused>> /\ Known' = Known
  BY DEF friendTables, Known
<1>2. RelationInv'
  BY <1>1 DEF RelationInv, OneRelation
<1>3. ASSUME answered' = answered,
             asking' = [s \in FriendTasks |-> asking'[s]],
             \A s \in FriendTasks :
                \/ asking'[s].at \notin {"readInitiator", "readFriend"}
                \/ asking'[s] = asking[s]
                \/ /\ asking[s].at = "readInitiator"
                   /\ asking'[s] = [at |-> "readFriend", request |-> asking[s].request]
      PROVE  AdmissionInv'
  <2>1. \A s \in FriendTasks : \A q : Admits(s, q)' => Admits(s, q)
    BY <1>3 DEF Admits
  <2>2. \A s \in FriendTasks :
          asking'[s].at \in {"readInitiator", "readFriend"}
             => /\ asking'[s] = [at |-> asking'[s].at, request |-> asking'[s].request]
                /\ asking'[s].request \in Pending
    BY <1>3 DEF AdmissionInv
  <2> QED BY <1>1, <1>3, <2>1, <2>2 DEF AdmissionInv
<1>4. CASE ReadInitiator(t)
  <2>1. /\ asking[t].at = "readInitiator" /\ answered' = answered
        /\ asking' = [asking EXCEPT ![t] = [asking[t] EXCEPT !.at = "readFriend"]]
    BY <1>4 DEF ReadInitiator, Continue
  <2>2. [asking[t] EXCEPT !.at = "readFriend"]
           = [at |-> "readFriend", request |-> asking[t].request]
    BY <2>1 DEF AdmissionInv
  <2>3. /\ asking' = [s \in FriendTasks |-> asking'[s]]
        /\ \A s \in FriendTasks :
              asking'[s] = IF s = t THEN [asking[t] EXCEPT !.at = "readFriend"] ELSE asking[s]
    BY <2>1 DEF AdmissionInv
  <2> QED BY <1>2, <1>3, <2>1, <2>2, <2>3
<1>5. CASE \/ FailRequest(t) \/ FailNotification
           \/ \E u \in authorized, v \in Ids : SetPendingFriendRequest(t, u, v)
           \/ \E v \in Ids : SendPendingRequestNotification(v)
  <2>1. /\ answered' = answered /\ asking' = [s \in FriendTasks |-> asking'[s]]
        /\ \A s \in FriendTasks : \/ asking'[s].at \notin {"readInitiator", "readFriend"}
                                  \/ asking'[s] = asking[s]
    <3>1. CASE FailRequest(t)
      BY <3>1 DEF FailRequest, Continue, Quiet, AdmissionInv
    <3>2. CASE FailNotification
      BY <3>2 DEF FailNotification, Quiet
    <3>3. CASE \E u \in authorized, v \in Ids : SetPendingFriendRequest(t, u, v)
      BY <3>3 DEF SetPendingFriendRequest, Continue, AdmissionInv
    <3>4. CASE \E v \in Ids : SendPendingRequestNotification(v)
      BY <3>4 DEF SendPendingRequestNotification, AdmissionInv
    <3> QED BY <1>5, <3>1, <3>2, <3>3, <3>4
  <2> QED BY <1>2, <1>3, <2>1
<1>6. CASE ReadFriend(t)
  <2> DEFINE q == asking[t].request.uuid
  <2>1. /\ Admits(t, q) /\ q \in Requests
        /\ answered' = [answered EXCEPT ![q] = @ + 1]
        /\ asking' = [asking EXCEPT ![t] = Quiet]
    BY <1>6 DEF ReadFriend, Continue, Admits, AdmissionInv, Pending
  <2> HIDE DEF q
  <2>2. answered[q] = 0 /\ q \notin unused /\ \A p \in pending : p.uuid # q
    BY <2>1 DEF AdmissionInv
  <2>3. /\ answered' \in [Requests -> 0..1]
        /\ \A r \in Requests : r # q => answered'[r] = answered[r]
    BY <2>1, <2>2 DEF AdmissionInv
  <2>4. /\ asking' = [s \in FriendTasks |-> asking'[s]]
        /\ \A s \in FriendTasks : asking'[s] = IF s = t THEN Quiet ELSE asking[s]
    BY <2>1 DEF AdmissionInv
  <2>5. \A s \in FriendTasks : \A r : Admits(s, r)' <=> s # t /\ Admits(s, r)
    BY <2>4 DEF Admits, Quiet
  <2>6. \A s \in FriendTasks, r \in Requests : Admits(s, r)' => r # q
    BY <2>1, <2>5 DEF AdmissionInv
  <2>7. \A p \in pending : p.uuid \in Requests
    BY DEF RelationInv, Pending
  <2>8. \A s \in FriendTasks :
          asking'[s].at \in {"readInitiator", "readFriend"}
             => /\ asking'[s] = [at |-> asking'[s].at, request |-> asking'[s].request]
                /\ asking'[s].request \in Pending
    BY <2>4 DEF AdmissionInv, Quiet
  <2>9. /\ \A r \in unused : answered'[r] = 0
        /\ \A p \in pending : answered'[p.uuid] = 0 /\ p.uuid \notin unused
    BY <2>2, <2>3, <2>7 DEF AdmissionInv
  <2>10. \A s \in FriendTasks, r \in Requests :
           Admits(s, r)' => /\ answered'[r] = 0 /\ r \notin unused
                            /\ \A p \in pending : p.uuid # r
                            /\ \A z \in FriendTasks : Admits(z, r)' => z = s
    BY <2>3, <2>5, <2>6 DEF AdmissionInv
  <2> QED BY <1>1, <1>2, <2>3, <2>4, <2>8, <2>9, <2>10 DEF AdmissionInv
<1> QED BY <1>4, <1>5, <1>6

LEMMA InvFriends ==
    ASSUME IInv, FriendRequest \/ FriendProgress
    PROVE  IInv'
<1>1. AccountInv'
  BY SameAccounts DEF FriendRequest, FriendProgress, accountVars, accountTables, IInv
<1>2. ASSUME NEW t \in FriendTasks, CreateNewPendingRequest(t)
      PROVE  RelationInv' /\ AdmissionInv'
  BY <1>2, InvCreate DEF IInv, AccountInv
<1>3. ASSUME NEW t \in FriendTasks, TryResolvePendingRequest(t)
      PROVE  RelationInv' /\ AdmissionInv'
  BY <1>3, InvResolve DEF IInv
<1>4. ASSUME NEW t \in FriendTasks,
             \/ ReadInitiator(t) \/ ReadFriend(t) \/ FailRequest(t)
             \/ \E u \in authorized, v \in Ids : SetPendingFriendRequest(t, u, v)
      PROVE  RelationInv' /\ AdmissionInv'
  <2>1. UNCHANGED <<users, friendTables>>
    BY <1>4 DEF ReadInitiator, ReadFriend, FailRequest, SetPendingFriendRequest
  <2> QED BY <1>4, <2>1, InvAnswer DEF IInv
<1>5. ASSUME FailNotification \/ \E v \in Ids : SendPendingRequestNotification(v)
      PROVE  RelationInv' /\ AdmissionInv'
  <2>1. /\ UNCHANGED <<pending, friends, unused, answered>> /\ Known' = Known
        /\ asking' \in {asking, [t \in FriendTasks |-> Quiet]}
    BY <1>5 DEF FailNotification, SendPendingRequestNotification, friendTables, Known
  <2>2. RelationInv'
    BY <2>1 DEF RelationInv, OneRelation, IInv
  <2>3. CASE asking' = asking
    <3>1. \A t, q : Admits(t, q)' <=> Admits(t, q)
      BY <2>3 DEF Admits
    <3>2. AdmissionInv
      BY DEF IInv
    <3>3. AdmissionInv'
      BY <2>1, <2>3, <3>1, <3>2 DEF AdmissionInv
    <3> QED BY <2>2, <3>3
  <2>4. CASE asking' = [t \in FriendTasks |-> Quiet]
    <3>1. \A t \in FriendTasks : asking'[t].at = "idle"
      BY <2>4 DEF Quiet
    <3>2. asking' = [t \in FriendTasks |-> asking'[t]]
      BY <2>4
    <3>3. \A t \in FriendTasks : \A q : ~Admits(t, q)'
      BY <3>1 DEF Admits
    <3>4. AdmissionInv
      BY DEF IInv
    <3>5. AdmissionInv'
      BY <2>1, <3>1, <3>2, <3>3, <3>4 DEF AdmissionInv
    <3> QED BY <2>2, <3>5
  <2> QED BY <2>1, <2>2, <2>3, <2>4
<1>6. RelationInv' /\ AdmissionInv'
  <2>1. CASE FriendRequest
    BY <1>3, <1>4, <2>1 DEF FriendRequest
  <2>2. CASE FriendProgress
    BY <1>2, <1>4, <1>5, <2>2 DEF FriendProgress, FriendStep
  <2> QED BY <2>1, <2>2
<1> QED BY <1>1, <1>6 DEF IInv

LEMMA InvNext == IInv /\ [Next]_vars => IInv'
<1> SUFFICES ASSUME IInv, [Next]_vars PROVE IInv'
  OBVIOUS
<1>1. CASE UNCHANGED vars
  <2>1. UNCHANGED <<users, fresh, refresh, fcm>> /\ UNCHANGED friendVars
    BY <1>1 DEF vars, accountVars, accountTables
  <2> QED BY <2>1, SameAccounts, SameFriends DEF IInv
<1> QED BY <1>1, InvAccountRequest, InvAccountProgress, InvFriends DEF Next

-----------------------------------------------------------------------------
(* Types.                                                                    *)

AlonePlaces == {"storeFcm", "findRow", "insertRow", "updateRow", "dropTokens", "dropFcm"}
DevicePlaces == {"storeFcm", "findRow", "insertRow", "updateRow"}
TokenPlaces == {"findRow", "insertRow", "updateRow"}
Places == AlonePlaces \cup {"idle", "remove", "sendMail", "setVerified", "dropLetter"}

\* What a request carries depends on where it is.
LEMMA TaskShape ==
    ASSUME NEW x \in Tasks
    PROVE  /\ x.at \in Places
           /\ x.at = "idle" <=> x = Idle
           /\ x.at # "idle" => x.user \in Ids
           /\ "alone" \in DOMAIN x <=> x.at \in AlonePlaces
           /\ x.at \in AlonePlaces => x.alone \in BOOLEAN
           /\ "device" \in DOMAIN x <=> x.at \in DevicePlaces
           /\ x.at \in DevicePlaces => x.device \in Devices
           /\ x.at \in TokenPlaces => x.token \in Tokens
           /\ x.at = "updateRow" => x.row \in RowIds
<1> USE DEF Places, AlonePlaces, DevicePlaces, TokenPlaces, Idle
<1>1. CASE x = Idle
  BY <1>1
<1>2. CASE x \in [at : {"storeFcm"}, user : Ids, device : Devices, alone : BOOLEAN]
  BY <1>2
<1>3. CASE x \in [at : {"findRow", "insertRow"}, user : Ids, device : Devices,
                  alone : BOOLEAN, token : Tokens]
  BY <1>3
<1>4. CASE x \in [at : {"updateRow"}, user : Ids, device : Devices, alone : BOOLEAN,
                  token : Tokens, row : RowIds]
  BY <1>4
<1>5. CASE x \in LogoutTasks
  BY <1>5 DEF LogoutTasks
<1>6. CASE x \in OtherTasks
  BY <1>6 DEF OtherTasks
<1> QED BY <1>1, <1>2, <1>3, <1>4, <1>5, <1>6 DEF Tasks, LoginTasks

\* A request that is not alone any more is still one.
LEMMA TaskDisturbed ==
    ASSUME NEW x \in Tasks, "alone" \in DOMAIN x
    PROVE  /\ [x EXCEPT !.alone = FALSE] \in Tasks
           /\ DOMAIN [x EXCEPT !.alone = FALSE] = DOMAIN x
           /\ ~[x EXCEPT !.alone = FALSE].alone
           /\ \A f \in DOMAIN x : f # "alone" => [x EXCEPT !.alone = FALSE][f] = x[f]
<1> DEFINE y == [x EXCEPT !.alone = FALSE]
<1>1. CASE x \in [at : {"storeFcm"}, user : Ids, device : Devices, alone : BOOLEAN]
  BY <1>1 DEF Tasks, LoginTasks
<1>2. CASE x \in [at : {"findRow", "insertRow"}, user : Ids, device : Devices,
                  alone : BOOLEAN, token : Tokens]
  BY <1>2 DEF Tasks, LoginTasks
<1>3. CASE x \in [at : {"updateRow"}, user : Ids, device : Devices, alone : BOOLEAN,
                  token : Tokens, row : RowIds]
  BY <1>3 DEF Tasks, LoginTasks
<1>4. CASE x \in LogoutTasks
  BY <1>4 DEF Tasks, LogoutTasks
<1>5. CASE x = Idle \/ x \in OtherTasks
  BY <1>5 DEF OtherTasks, Idle
<1> QED BY <1>1, <1>2, <1>3, <1>4, <1>5 DEF Tasks, LoginTasks

\* What a step makes of where the requests are.
LEMMA GoesTo ==
    ASSUME task \in [AccountTasks -> Tasks], NEW t \in AccountTasks, NEW entry \in Tasks,
           GoTo(t, entry)
    PROVE  /\ task' \in [AccountTasks -> Tasks]
           /\ task'[t] = entry /\ \A s \in AccountTasks : s # t => task'[s] = task[s]
BY DEF GoTo

LEMMA Begins ==
    ASSUME task \in [AccountTasks -> Tasks], NEW t \in AccountTasks, NEW u, NEW d,
           NEW entry \in Tasks, Begin(t, u, d, entry)
    PROVE  /\ task' \in [AccountTasks -> Tasks]
           /\ task'[t] = entry
           /\ \A s \in AccountTasks :
                 s # t => task'[s] = IF Touches(s, u, d) /\ "alone" \in DOMAIN task[s]
                                     THEN [task[s] EXCEPT !.alone = FALSE] ELSE task[s]
<1>1. \A s \in AccountTasks :
         Disturbed(u, d)[s] = IF Touches(s, u, d) /\ "alone" \in DOMAIN task[s]
                              THEN [task[s] EXCEPT !.alone = FALSE] ELSE task[s]
  BY DEF Disturbed
<1>2. \A s \in AccountTasks : task[s] \in Tasks
  OBVIOUS
<1>3. Disturbed(u, d) \in [AccountTasks -> Tasks]
  BY <1>1, <1>2, TaskDisturbed DEF Disturbed
<1>4. task' = [Disturbed(u, d) EXCEPT ![t] = entry]
  BY DEF Begin
<1> HIDE DEF Disturbed
<1> QED BY <1>1, <1>3, <1>4

\* Whoever has a row is in the table of users.
LEMMA UsersType ==
    ASSUME users \in UserTables
    PROVE  /\ Known \subseteq Ids /\ users \in [Known -> Emails]
           /\ \A u, v \in Known : users[u] = users[v] => u = v
BY DEF UserTables, Known

LEMMA UsersTyped ==
    ASSUME NEW S \in SUBSET Ids, NEW f \in [S -> Emails],
           \A u, v \in S : f[u] = f[v] => u = v
    PROVE  f \in UserTables
BY DEF UserTables

LEMMA TypeCreateUser ==
    ASSUME AccountsTypeOK, NEW t \in AccountTasks, NEW e \in Emails, CreateUser(t, e)
    PROVE  AccountsTypeOK'
<1>1. PICK u \in fresh : CreateNewUserWithCredentials(u, e)
                         /\ GoTo(t, [at |-> "sendMail", user |-> u])
  BY DEF CreateUser
<1>2. u \in Ids /\ u \notin Known /\ fresh \subseteq Ids
  BY DEF AccountsTypeOK
<1>3. users' \in UserTables /\ Known' = Known \cup {u}
  <2>1. users' = [v \in Known \cup {u} |-> IF v = u THEN e ELSE users[v]]
    BY <1>1 DEF CreateNewUserWithCredentials
  <2>2. users \in UserTables
    BY DEF AccountsTypeOK
  <2>3. \A v \in Known : users[v] # e
    BY DEF CreateUser, Taken
  <2>4. users' \in [Known \cup {u} -> Emails]
    BY <2>1, <2>2, UsersType
  <2>5. \A v, w \in Known \cup {u} : users'[v] = users'[w] => v = w
    BY <2>1, <2>2, <2>3, UsersType
  <2>6. Known \cup {u} \in SUBSET Ids
    BY <1>2, <2>2, UsersType
  <2> QED BY <2>1, <2>4, <2>5, <2>6, UsersTyped DEF Known
<1>4. task' \in [AccountTasks -> Tasks]
  <2>1. [at |-> "sendMail", user |-> u] \in Tasks
    BY <1>2 DEF Tasks, OtherTasks
  <2> QED BY <1>1, <2>1, GoesTo DEF AccountsTypeOK
<1>5. /\ fresh' = fresh \ {u} /\ letters' = letters \cup {u}
      /\ UNCHANGED <<verified, mailed, refresh, fcm, authorized, second, current, loggedOut>>
  BY <1>1 DEF CreateUser, CreateNewUserWithCredentials, InsertEmailVerificationToken
<1> QED BY <1>2, <1>3, <1>4, <1>5 DEF AccountsTypeOK

\* The requests begun or answered that leave the tables alone.
LEMMA TypeTask ==
    ASSUME AccountsTypeOK, UNCHANGED <<users, fresh, verified, letters, refresh, fcm>>,
           mailed' \subseteq Ids, authorized' \subseteq Ids, loggedOut' \subseteq Ids,
           second' \in 0..MaxSecond, task' \in [AccountTasks -> Tasks],
           current' \in [Ids -> Tokens \X Devices \cup {<<NoToken, NoDevice>>}]
    PROVE  AccountsTypeOK'
BY DEF AccountsTypeOK, Known

LEMMA TypeBegin ==
    ASSUME AccountsTypeOK, NEW t \in AccountTasks, NEW u \in Ids, NEW d, NEW entry \in Tasks,
           Begin(t, u, d, entry), UNCHANGED <<users, accountTables, mailed, authorized, second>>
    PROVE  AccountsTypeOK'
<1>1. task' \in [AccountTasks -> Tasks]
  BY Begins DEF AccountsTypeOK
<1>2. current' \in [Ids -> Tokens \X Devices \cup {<<NoToken, NoDevice>>}]
  BY DEF Begin, AccountsTypeOK
<1>3. loggedOut' \subseteq Ids
  BY DEF Begin, AccountsTypeOK
<1> QED BY <1>1, <1>2, <1>3, TypeTask DEF accountTables, AccountsTypeOK

LEMMA TypeAccountBegin ==
    ASSUME AccountsTypeOK, NEW t \in AccountTasks, AccountBegin(t)
    PROVE  AccountsTypeOK'
<1>1. ASSUME NEW e \in Emails, NEW d \in Devices, LoginUserAccount(t, e, d)
      PROVE  AccountsTypeOK'
  <2>1. PICK u \in SearchUserByEmail(e) \cap verified :
           Begin(t, u, d, [at |-> "storeFcm", user |-> u, device |-> d,
                           alone |-> Undisturbed(u, d)])
    BY <1>1 DEF LoginUserAccount
  <2>2. u \in Ids
    BY UsersType DEF AccountsTypeOK, SearchUserByEmail
  <2>3. Undisturbed(u, d) \in BOOLEAN
    BY DEF Undisturbed
  <2>4. [at |-> "storeFcm", user |-> u, device |-> d, alone |-> Undisturbed(u, d)] \in Tasks
    BY <2>2, <2>3 DEF Tasks, LoginTasks
  <2> QED BY <1>1, <2>1, <2>2, <2>4, TypeBegin DEF LoginUserAccount
<1>2. ASSUME NEW u \in Ids, OpenLink(t, u)
      PROVE  AccountsTypeOK'
  <2>1. PICK place \in {"setVerified", "dropLetter"} : GoTo(t, [at |-> place, user |-> u])
    BY <1>2 DEF OpenLink
  <2>2. [at |-> place, user |-> u] \in Tasks
    BY DEF Tasks, OtherTasks
  <2>3. task' \in [AccountTasks -> Tasks]
    BY <2>1, <2>2, GoesTo DEF AccountsTypeOK
  <2> QED BY <1>2, <2>3, TypeTask DEF OpenLink, accountTables, AccountsTypeOK
<1>3. ASSUME NEW u \in Ids, LogoutUserFromSession(t, u)
      PROVE  AccountsTypeOK'
  <2>1. Undisturbed(u, NoDevice) \in BOOLEAN
    BY DEF Undisturbed
  <2>2. [at |-> "dropTokens", user |-> u, alone |-> Undisturbed(u, NoDevice)] \in Tasks
    BY <2>1 DEF Tasks, LogoutTasks
  <2> QED BY <1>3, <2>2, TypeBegin DEF LogoutUserFromSession
<1>4. ASSUME NEW u \in Ids, RemoveUserAccount(t, u)
      PROVE  AccountsTypeOK'
  <2>1. [at |-> "remove", user |-> u] \in Tasks
    BY DEF Tasks, OtherTasks
  <2> QED BY <1>4, <2>1, TypeBegin DEF RemoveUserAccount
<1> QED BY <1>1, <1>2, <1>3, <1>4, TypeCreateUser DEF AccountBegin

\* Where the login goes from where it is.
LEMMA LoginEntries ==
    ASSUME NEW u \in Ids, NEW d \in Devices, NEW alone \in BOOLEAN, NEW token \in Tokens,
           NEW row \in RowIds
    PROVE  /\ \A place \in {"findRow", "insertRow"} :
                 [at |-> place, user |-> u, device |-> d, alone |-> alone,
                  token |-> token] \in Tasks
           /\ [at |-> "updateRow", user |-> u, device |-> d, alone |-> alone,
               token |-> token, row |-> row] \in Tasks
BY DEF Tasks, LoginTasks

\* A record that only goes to another place keeps the rest of what it carries.
LEMMA TaskMoves ==
    ASSUME NEW x \in Tasks
    PROVE  /\ x.at = "findRow" => [x EXCEPT !.at = "insertRow"]
                  = [at |-> "insertRow", user |-> x.user, device |-> x.device,
                     alone |-> x.alone, token |-> x.token]
           /\ x.at = "dropTokens" => [x EXCEPT !.at = "dropFcm"]
                  = [at |-> "dropFcm", user |-> x.user, alone |-> x.alone]
           /\ x.at = "setVerified" => [x EXCEPT !.at = "dropLetter"]
                  = [at |-> "dropLetter", user |-> x.user]
<1>1. CASE x \in LoginTasks
  BY <1>1 DEF LoginTasks
<1>2. CASE x \in LogoutTasks
  BY <1>2 DEF LogoutTasks
<1>3. CASE x \in OtherTasks \/ x = Idle
  BY <1>3 DEF OtherTasks, Idle
<1> QED BY <1>1, <1>2, <1>3 DEF Tasks

LEMMA IdleIsTask == Idle \in Tasks
BY DEF Tasks

\* A new row has a key that no other has.
LEMMA UnusedRowIsNew ==
    ASSUME UnusedRows # {}
    PROVE  /\ UnusedRow \in RowIds /\ \A r \in refresh : r.id # UnusedRow
           /\ \A t \in AccountTasks : task[t].at = "updateRow" => task[t].row # UnusedRow
<1>1. UnusedRow \in UnusedRows
  BY DEF UnusedRow
<1> QED BY <1>1 DEF UnusedRows, At

\* The answer to a login.
LEMMA TypeLoggedIn ==
    ASSUME AccountsTypeOK, NEW t \in AccountTasks, LoggedIn(t), task[t].at \in TokenPlaces,
           refresh' \subseteq Rows, \A r, s \in refresh' : r.id = s.id => r = s
    PROVE  AccountsTypeOK'
<1>1. /\ task[t].user \in Ids /\ task[t].token \in Tokens /\ task[t].device \in Devices
  BY TaskShape DEF AccountsTypeOK, TokenPlaces, DevicePlaces
<1>2. task' \in [AccountTasks -> Tasks]
  BY IdleIsTask, GoesTo DEF LoggedIn, Answer, AccountsTypeOK
<1>3. authorized' \subseteq Ids
  BY <1>1 DEF LoggedIn, AccountsTypeOK
<1>4. current' \in [Ids -> Tokens \X Devices \cup {<<NoToken, NoDevice>>}]
  BY <1>1 DEF LoggedIn, AccountsTypeOK
<1> QED BY <1>2, <1>3, <1>4 DEF LoggedIn, AccountsTypeOK, Known

LEMMA TypeAccountStep ==
    ASSUME AccountsTypeOK, NEW t \in AccountTasks, AccountStep(t)
    PROVE  AccountsTypeOK'
<1> DEFINE x == task[t]
<1>1. task \in [AccountTasks -> Tasks] /\ x \in Tasks
  BY DEF AccountsTypeOK
<1>2. /\ x.at # "idle" => x.user \in Ids
      /\ x.at \in AlonePlaces => x.alone \in BOOLEAN
      /\ x.at \in DevicePlaces => x.device \in Devices
      /\ x.at \in TokenPlaces => x.token \in Tokens
      /\ x.at = "updateRow" => x.row \in RowIds
  BY <1>1, TaskShape
<1>3. ASSUME Answer(t) PROVE task' \in [AccountTasks -> Tasks]
  BY <1>1, <1>3, IdleIsTask, GoesTo DEF Answer
<1> HIDE DEF x
<1>4. CASE SendVerificationEmail(t)
  <2>1. mailed' = mailed \cup {x.user} /\ x.at = "sendMail"
    BY <1>4 DEF SendVerificationEmail, At, x
  <2> QED BY <1>2, <1>3, <1>4, <2>1, TypeTask
          DEF SendVerificationEmail, accountTables, AccountsTypeOK
<1>5. CASE UpdateUserVerification(t)
  <2>1. x.at = "setVerified" /\ GoTo(t, [x EXCEPT !.at = "dropLetter"])
    BY <1>5 DEF UpdateUserVerification, At, x
  <2>2. [x EXCEPT !.at = "dropLetter"] \in Tasks
    BY <1>1, <1>2, <2>1, TaskMoves DEF Tasks, OtherTasks
  <2>3. task' \in [AccountTasks -> Tasks]
    BY <1>1, <2>1, <2>2, GoesTo
  <2>4. verified' \subseteq Known /\ Known' = Known
    BY <1>5 DEF UpdateUserVerification, SetVerified, AccountsTypeOK, Known
  <2> QED BY <1>5, <2>3, <2>4 DEF UpdateUserVerification, AccountsTypeOK
<1>6. CASE DeleteEmailVerificationToken(t)
  BY <1>3, <1>6 DEF DeleteEmailVerificationToken, AccountsTypeOK, Known
<1>7. CASE HandleFCMOnLogin(t)
  <2>1. /\ x.at = "storeFcm" /\ x.user \in Known /\ fcm' = FcmAfter(x.user, x.device)
        /\ GoTo(t, [at |-> "findRow", user |-> x.user, device |-> x.device,
                    alone |-> x.alone, token |-> <<x.user, second>>])
    BY <1>7 DEF HandleFCMOnLogin, At, x
  <2>2. x.user \in Ids /\ x.device \in Devices /\ x.alone \in BOOLEAN
    BY <1>2, <2>1 DEF AlonePlaces, DevicePlaces
  <2>3. <<x.user, second>> \in Tokens
    BY <2>2 DEF Tokens, AccountsTypeOK
  <2>4. [at |-> "findRow", user |-> x.user, device |-> x.device, alone |-> x.alone,
         token |-> <<x.user, second>>] \in Tasks
    BY <2>2, <2>3 DEF Tasks, LoginTasks
  <2>5. task' \in [AccountTasks -> Tasks]
    BY <1>1, <2>1, <2>4, GoesTo
  <2>6. fcm' \subseteq Ids \X Devices
    BY <2>1, <2>2 DEF FcmAfter, AccountsTypeOK
  <2>7. \A p, q \in fcm' : (p[1] = q[1] \/ p[2] = q[2]) => p = q
    <3>1. \A p, q \in fcm : (p[1] = q[1] \/ p[2] = q[2]) => p = q
      BY DEF AccountsTypeOK
    <3>2. \A p \in fcm' : (p \in fcm /\ p[1] # x.user /\ p[2] # x.device)
                          \/ p = <<x.user, x.device>>
      BY <2>1 DEF FcmAfter
    <3> QED BY <3>1, <3>2
  <2> QED BY <1>7, <2>5, <2>6, <2>7 DEF HandleFCMOnLogin, AccountsTypeOK, Known
<1>8. CASE TryGetRefreshTokenRecordId(t)
  <2>1. x.at = "findRow" /\ x.user \in Ids /\ x.device \in Devices /\ x.alone \in BOOLEAN
        /\ x.token \in Tokens
    BY <1>2, <1>8 DEF TryGetRefreshTokenRecordId, At, x, AlonePlaces, DevicePlaces, TokenPlaces
  <2>2. CASE GoTo(t, [x EXCEPT !.at = "insertRow"])
    <3>1. [x EXCEPT !.at = "insertRow"] \in Tasks
      <4>1. [x EXCEPT !.at = "insertRow"]
               = [at |-> "insertRow", user |-> x.user, device |-> x.device,
                  alone |-> x.alone, token |-> x.token]
        BY <1>1, <2>1, TaskMoves
      <4> QED BY <2>1, <4>1 DEF Tasks, LoginTasks
    <3>2. task' \in [AccountTasks -> Tasks]
      BY <1>1, <2>2, <3>1, GoesTo
    <3> QED BY <1>8, <3>2, TypeTask
            DEF TryGetRefreshTokenRecordId, accountTables, AccountsTypeOK
  <2>3. ASSUME NEW r \in refresh,
               GoTo(t, [at |-> "updateRow", user |-> x.user, device |-> x.device,
                        alone |-> x.alone, token |-> x.token, row |-> r.id])
        PROVE  AccountsTypeOK'
    <3>1. r.id \in RowIds
      BY DEF AccountsTypeOK, Rows
    <3>2. [at |-> "updateRow", user |-> x.user, device |-> x.device,
           alone |-> x.alone, token |-> x.token, row |-> r.id] \in Tasks
      BY <2>1, <3>1, LoginEntries
    <3>3. task' \in [AccountTasks -> Tasks]
      BY <1>1, <2>3, <3>2, GoesTo
    <3> QED BY <1>8, <3>3, TypeTask
            DEF TryGetRefreshTokenRecordId, accountTables, AccountsTypeOK
  <2> QED BY <1>8, <2>2, <2>3 DEF TryGetRefreshTokenRecordId, x
<1>9. CASE InsertNewRefreshToken(t)
  <2>1. /\ x.at = "insertRow" /\ UnusedRows # {} /\ LoggedIn(t)
        /\ refresh' = refresh \cup {[id |-> UnusedRow, user |-> x.user, token |-> x.token]}
    BY <1>9 DEF InsertNewRefreshToken, At, x
  <2>2. x.user \in Ids /\ x.token \in Tokens /\ x.at \in TokenPlaces
    BY <1>2, <2>1 DEF TokenPlaces
  <2>3. refresh' \subseteq Rows
    BY <2>1, <2>2, UnusedRowIsNew DEF Rows, AccountsTypeOK
  <2>4. \A r, s \in refresh' : r.id = s.id => r = s
    BY <2>1, UnusedRowIsNew DEF AccountsTypeOK
  <2> QED BY <2>1, <2>2, <2>3, <2>4, TypeLoggedIn DEF x
<1>10. CASE UpdateCurrentRefreshToken(t)
  <2>1. /\ x.at = "updateRow" /\ LoggedIn(t) /\ refresh' = Updated(x.row, x.token)
    BY <1>10 DEF UpdateCurrentRefreshToken, At, x
  <2>2. x.user \in Ids /\ x.token \in Tokens /\ x.at \in TokenPlaces
    BY <1>2, <2>1 DEF TokenPlaces
  <2>3. \A r \in refresh : /\ r \in Rows /\ [r EXCEPT !.token = x.token] \in Rows
                           /\ [r EXCEPT !.token = x.token].id = r.id
    BY <2>2 DEF Rows, AccountsTypeOK
  <2>4. refresh' \subseteq Rows
    BY <2>1, <2>3 DEF Updated
  <2>5. \A r, s \in refresh : r.id = s.id => r = s
    BY DEF AccountsTypeOK
  <2>6. \A r, s \in refresh' : r.id = s.id => r = s
    <3> SUFFICES ASSUME NEW q \in refresh', NEW r \in refresh', q.id = r.id PROVE q = r
      OBVIOUS
    <3>1. PICK y \in refresh : q = IF y.id = x.row THEN [y EXCEPT !.token = x.token] ELSE y
      BY <2>1 DEF Updated
    <3>2. PICK z \in refresh : r = IF z.id = x.row THEN [z EXCEPT !.token = x.token] ELSE z
      BY <2>1 DEF Updated
    <3>3. q.id = y.id /\ r.id = z.id
      BY <2>3, <3>1, <3>2
    <3> QED BY <2>5, <3>1, <3>2, <3>3
  <2> QED BY <2>1, <2>2, <2>4, <2>6, TypeLoggedIn DEF x
<1>11. CASE DeleteRefreshTokenByUserId(t)
  <2>1. x.at = "dropTokens" /\ GoTo(t, [x EXCEPT !.at = "dropFcm"])
    BY <1>11 DEF DeleteRefreshTokenByUserId, At, x
  <2>2. [x EXCEPT !.at = "dropFcm"] \in Tasks
    <3>1. x.user \in Ids /\ x.alone \in BOOLEAN
      BY <1>2, <2>1 DEF AlonePlaces
    <3>2. [x EXCEPT !.at = "dropFcm"]
             = [at |-> "dropFcm", user |-> x.user, alone |-> x.alone]
      BY <1>1, <2>1, TaskMoves
    <3> QED BY <3>1, <3>2 DEF Tasks, LogoutTasks
  <2>3. task' \in [AccountTasks -> Tasks]
    BY <1>1, <2>1, <2>2, GoesTo
  <2>4. refresh' \subseteq refresh
    BY <1>11 DEF DeleteRefreshTokenByUserId, TokensDropped
  <2> QED BY <1>11, <2>3, <2>4 DEF DeleteRefreshTokenByUserId, AccountsTypeOK, Known
<1>12. CASE DeleteFcmRecordByUserId(t)
  <2>1. x.user \in Ids
    BY <1>2, <1>12 DEF DeleteFcmRecordByUserId, At, x
  <2>2. loggedOut' \subseteq Ids
    BY <1>12, <2>1 DEF DeleteFcmRecordByUserId, AccountsTypeOK, x
  <2>3. fcm' \subseteq fcm
    BY <1>12 DEF DeleteFcmRecordByUserId
  <2> QED BY <1>3, <1>12, <2>2, <2>3 DEF DeleteFcmRecordByUserId, AccountsTypeOK, Known
<1>13. CASE Fail(t)
  BY <1>3, <1>13, TypeTask DEF Fail, accountTables, AccountsTypeOK
<1> QED BY <1>4, <1>5, <1>6, <1>7, <1>8, <1>9, <1>10, <1>11, <1>12, <1>13 DEF AccountStep

LEMMA TypeDelete ==
    ASSUME AccountsTypeOK, NEW t \in AccountTasks, DeleteUserAccount(t)
    PROVE  AccountsTypeOK'
<1> DEFINE u == task[t].user
<1>1. /\ users' = [v \in Known \ {u} |-> users[v]] /\ verified' = verified \ {u}
      /\ letters' = letters \ {u} /\ refresh' \subseteq refresh /\ fcm' \subseteq fcm
      /\ UNCHANGED <<fresh, mailed, authorized, second, current, loggedOut>>
  BY DEF DeleteUserAccount
<1>2. task' \in [AccountTasks -> Tasks]
  BY IdleIsTask, GoesTo DEF DeleteUserAccount, Answer, AccountsTypeOK
<1> HIDE DEF u
<1>3. users' \in UserTables /\ Known' = Known \ {u}
  <2>1. users \in UserTables
    BY DEF AccountsTypeOK
  <2>2. users' \in [Known \ {u} -> Emails] /\ Known \ {u} \in SUBSET Ids
    BY <1>1, <2>1, UsersType
  <2>3. \A v, w \in Known \ {u} : users'[v] = users'[w] => v = w
    BY <1>1, <2>1, UsersType
  <2> QED BY <1>1, <2>2, <2>3, UsersTyped DEF Known
<1> QED BY <1>1, <1>2, <1>3 DEF AccountsTypeOK

LEMMA TypeLogoutAll ==
    ASSUME AccountsTypeOK, LogoutAllUsers
    PROVE  AccountsTypeOK'
<1>1. task' \in [AccountTasks -> Tasks]
  <2>1. \A t \in AccountTasks : task[t] \in Tasks
    BY DEF AccountsTypeOK
  <2>2. \A t \in AccountTasks :
          "alone" \in DOMAIN task[t] => [task[t] EXCEPT !.alone = FALSE] \in Tasks
    BY <2>1, TaskDisturbed
  <2> QED BY <2>1, <2>2 DEF LogoutAllUsers
<1>2. /\ refresh' = {} /\ fcm' = {} /\ current' = [u \in Ids |-> <<NoToken, NoDevice>>]
      /\ UNCHANGED <<users, fresh, verified, letters, mailed, authorized, second, loggedOut>>
  BY DEF LogoutAllUsers, DeleteAllUsersLoginSessionInfo, DeleteAllRefreshTokens,
         DeleteAllFCMTokens
<1> QED BY <1>1, <1>2 DEF AccountsTypeOK, Known

LEMMA TypeTokens ==
    ASSUME AccountsTypeOK,
           \/ \E u \in Ids : ExpireAccessToken(u) \/ RegenerateAccessToken(u)
           \/ FailUnhandled \/ Tick
    PROVE  AccountsTypeOK'
<1>1. CASE \E u \in Ids : ExpireAccessToken(u) \/ RegenerateAccessToken(u)
  <2>1. /\ UNCHANGED <<users, accountTables, mailed, second, task, current, loggedOut>>
        /\ authorized' \subseteq Ids
    BY <1>1 DEF ExpireAccessToken, RegenerateAccessToken, AccountsTypeOK
  <2> QED BY <2>1 DEF accountTables, AccountsTypeOK, Known
<1>2. CASE FailUnhandled
  BY <1>2, IdleIsTask DEF FailUnhandled, accountTables, AccountsTypeOK, Known
<1>3. CASE Tick
  <2>1. second' \in 0..MaxSecond
    BY <1>3, AccountsAssumption DEF Tick, AccountsTypeOK
  <2> QED BY <1>3, <2>1 DEF Tick, accountTables, AccountsTypeOK, Known
<1> QED BY <1>1, <1>2, <1>3

\* The requests for friends carry users and requests for friends.
AskingType == asking \in [FriendTasks -> FriendSteps] /\ notifying \subseteq Ids

LEMMA ContinuesTo ==
    ASSUME AskingType, NEW t \in FriendTasks, NEW entry \in FriendSteps, Continue(t, entry)
    PROVE  asking' \in [FriendTasks -> FriendSteps]
BY DEF AskingType, Continue

LEMMA QuietIsStep == Quiet \in FriendSteps
BY DEF FriendSteps

LEMMA AskingTypeStep ==
    ASSUME AskingType, pending \subseteq Pending, authorized \subseteq Ids,
           FriendRequest \/ FriendProgress
    PROVE  AskingType'
<1>1. ASSUME NEW t \in FriendTasks, NEW u \in authorized, NEW v \in Ids,
             SetPendingFriendRequest(t, u, v)
      PROVE  AskingType'
  <2>1. [at |-> "insert", user |-> u, friend |-> v] \in FriendSteps
    BY DEF FriendSteps
  <2> QED BY <1>1, <2>1, ContinuesTo DEF SetPendingFriendRequest, AskingType
<1>2. ASSUME NEW t \in FriendTasks, TryResolvePendingRequest(t)
      PROVE  AskingType'
  <2>1. PICK p \in pending : Continue(t, [at |-> "readInitiator", request |-> p])
    BY <1>2 DEF TryResolvePendingRequest
  <2>2. [at |-> "readInitiator", request |-> p] \in FriendSteps
    BY DEF FriendSteps
  <2> QED BY <1>2, <2>1, <2>2, ContinuesTo DEF TryResolvePendingRequest, AskingType
<1>3. ASSUME NEW t \in FriendTasks, CreateNewPendingRequest(t)
      PROVE  AskingType'
  <2>1. asking[t] \in FriendSteps /\ asking[t].at = "insert"
    BY <1>3 DEF CreateNewPendingRequest, AskingType
  <2>2. asking[t].friend \in Ids
    BY <2>1 DEF FriendSteps, Quiet
  <2> QED BY <1>3, <2>2, QuietIsStep, ContinuesTo DEF CreateNewPendingRequest, AskingType
<1>4. ASSUME NEW t \in FriendTasks, ReadInitiator(t)
      PROVE  AskingType'
  <2>1. asking[t] \in FriendSteps /\ asking[t].at = "readInitiator"
    BY <1>4 DEF ReadInitiator, AskingType
  <2>2. [asking[t] EXCEPT !.at = "readFriend"] \in FriendSteps
    BY <2>1 DEF FriendSteps, Quiet
  <2> QED BY <1>4, <2>2, ContinuesTo DEF ReadInitiator, AskingType
<1>5. ASSUME NEW t \in FriendTasks, ReadFriend(t) \/ FailRequest(t)
      PROVE  AskingType'
  BY <1>5, QuietIsStep, ContinuesTo DEF ReadFriend, FailRequest, AskingType
<1>6. ASSUME NEW v \in Ids, SendPendingRequestNotification(v)
      PROVE  AskingType'
  BY <1>6 DEF SendPendingRequestNotification, AskingType
<1>7. CASE FailNotification
  BY <1>7, QuietIsStep DEF FailNotification, AskingType
<1> QED BY <1>1, <1>2, <1>3, <1>4, <1>5, <1>6, <1>7
        DEF FriendRequest, FriendProgress, FriendStep

Typed == AccountsTypeOK /\ AskingType /\ begun \in 0..MaxBegun

LEMMA TypedInit == Init => Typed
<1> SUFFICES ASSUME Init PROVE Typed
  OBVIOUS
<1>1. users \in UserTables
  BY PeopleAssumption DEF Init
<1>2. AccountsTypeOK
  BY <1>1, IdleIsTask, UsersType, AccountsAssumption DEF Init, AccountsInit, AccountsTypeOK
<1>3. AskingType
  BY QuietIsStep DEF Init, FriendshipInit, AskingType
<1> QED BY <1>2, <1>3, PeopleAssumption DEF Init, Typed

LEMMA TypedNext == Typed /\ IInv /\ [Next]_vars => Typed'
<1> SUFFICES ASSUME Typed, IInv, [Next]_vars PROVE Typed'
  OBVIOUS
<1> USE DEF Typed
<1>1. CASE UNCHANGED vars
  BY <1>1 DEF vars, accountVars, accountTables, friendVars, AccountsTypeOK, AskingType, Known
<1>2. CASE AccountRequest
  <2>1. AccountsTypeOK'
    BY <1>2, TypeAccountBegin, TypeTokens, TypeLogoutAll DEF AccountRequest
  <2>2. AskingType' /\ begun' \in 0..MaxBegun
    BY <1>2, PeopleAssumption DEF AccountRequest, Begun, friendVars, AskingType
  <2> QED BY <2>1, <2>2
<1>3. CASE AccountProgress
  <2>1. AccountsTypeOK'
    BY <1>3, TypeAccountStep, TypeDelete, TypeTokens DEF AccountProgress
  <2>2. UNCHANGED <<asking, notifying, begun>>
    BY <1>3 DEF AccountProgress, friendVars, Deleted, Cascade
  <2> QED BY <2>1, <2>2 DEF AskingType
<1>4. CASE FriendRequest \/ FriendProgress
  <2>1. UNCHANGED accountVars /\ begun' \in 0..MaxBegun
    BY <1>4, PeopleAssumption DEF FriendRequest, FriendProgress, Begun
  <2>2. AccountsTypeOK'
    BY <2>1 DEF accountVars, accountTables, AccountsTypeOK, Known
  <2>3. AskingType'
    BY <1>4, AskingTypeStep DEF AccountsTypeOK, IInv, RelationInv
  <2> QED BY <2>1, <2>2, <2>3
<1> QED BY <1>1, <1>2, <1>3, <1>4 DEF Next

-----------------------------------------------------------------------------
(* Logins and logouts.                                                       *)

\* A request that writes tokens or devices, and one of those no other has run into.
Writes(t) == task[t].at \in AlonePlaces \cup {"remove"}
Alone(t) == task[t].at \in AlonePlaces /\ task[t].alone
OnDevice(t, d) == task[t].at \in DevicePlaces /\ task[t].device = d
LoggedInAs(u) == current[u] # <<NoToken, NoDevice>>

\* A request that is alone shares neither user nor device with another that writes, and
\* neither does a login, or a logout, that was the last its user did.
ApartInv ==
    /\ \A t, s \in AccountTasks :
          Alone(t) /\ Writes(s) /\ s # t
             => /\ task[s].user # task[t].user
                /\ task[t].at \in DevicePlaces => ~OnDevice(s, task[t].device)
    /\ \A u \in Ids, s \in AccountTasks :
          LoggedInAs(u) /\ Writes(s) => task[s].user # u /\ ~OnDevice(s, current[u][2])
    /\ \A s \in AccountTasks : Writes(s) => task[s].user \notin loggedOut

NoRow(u) == \A r \in refresh : r.user # u
OnlyRow(u, r) == r \in refresh /\ \A s \in refresh : s.user = u <=> s = r

\* The row a login is to update is its user's.
UpdatesOwn(t) ==
    \A r \in refresh : task[t].at = "updateRow" /\ r.id = task[t].row => r.user = task[t].user

\* What a request has done so far.
Done(t) ==
    /\ task[t].at \in {"insertRow", "dropFcm"} => NoRow(task[t].user)
    /\ task[t].at \in TokenPlaces => <<task[t].user, task[t].device>> \in fcm
    /\ task[t].at = "updateRow"
          => \E r \in refresh : OnlyRow(task[t].user, r) /\ r.id = task[t].row

\* What a login, or a logout, leaves.
Stands(u, token, d) ==
    <<u, d>> \in fcm /\ \E r \in refresh : OnlyRow(u, r) /\ r.token = token
Lasts(u) == LoggedInAs(u) => Stands(u, current[u][1], current[u][2])
Gone(u) == NoRow(u) /\ \A p \in fcm : p[1] # u

\* What a request that is alone has done, and what it left when it was the last of its
\* user, stays.
LoginInv ==
    /\ ApartInv
    /\ \A t \in AccountTasks : UpdatesOwn(t) /\ (Alone(t) => Done(t))
    /\ \A u \in Ids : Lasts(u)
    /\ \A u \in loggedOut : Gone(u)

\* The steps that write no token and no device.
LEMMA LoginQuiet ==
    ASSUME LoginInv, UNCHANGED <<refresh, fcm, current, loggedOut>>,
           \A s \in AccountTasks : task'[s] = task[s] \/ ~Writes(s)'
    PROVE  LoginInv'
<1>1. \A s \in AccountTasks : Writes(s)' => task'[s] = task[s] /\ Writes(s)
  BY DEF Writes
<1>2. \A s \in AccountTasks : Alone(s)' => Writes(s)' /\ Alone(s)
  BY <1>1 DEF Alone, Writes
<1>3. ApartInv'
  BY <1>1, <1>2 DEF LoginInv, ApartInv, LoggedInAs, OnDevice
<1>4. \A t \in AccountTasks : UpdatesOwn(t)'
  BY <1>1 DEF LoginInv, UpdatesOwn, Writes, AlonePlaces
<1>5. \A t \in AccountTasks : Alone(t)' => Done(t)'
  BY <1>1, <1>2 DEF LoginInv, Done, NoRow, OnlyRow
<1>6. /\ \A u \in Ids : Lasts(u)'
      /\ \A u \in loggedOut' : Gone(u)'
  BY DEF LoginInv, Lasts, LoggedInAs, Stands, Gone, NoRow, OnlyRow
<1> QED BY <1>3, <1>4, <1>5, <1>6 DEF LoginInv

\* A request begins: those it runs into are not alone any more.
LEMMA LoginBegin ==
    ASSUME AccountsTypeOK, LoginInv, NEW t \in AccountTasks, NEW u \in Ids, NEW d,
           NEW entry \in Tasks, Begin(t, u, d, entry), entry.user = u,
           entry.at \in {"storeFcm", "dropTokens", "remove"},
           entry.at = "storeFcm" => entry.device = d,
           entry.at \in AlonePlaces => (entry.alone <=> Undisturbed(u, d)),
           UNCHANGED <<refresh, fcm>>
    PROVE  LoginInv'
<1>1. /\ task' \in [AccountTasks -> Tasks] /\ task'[t] = entry
      /\ \A s \in AccountTasks : s # t =>
            task'[s] = IF Touches(s, u, d) /\ "alone" \in DOMAIN task[s]
                       THEN [task[s] EXCEPT !.alone = FALSE] ELSE task[s]
  BY Begins DEF AccountsTypeOK
<1>2. \A s \in AccountTasks : task[s] \in Tasks
  BY DEF AccountsTypeOK
<1>3. ASSUME NEW s \in AccountTasks, s # t
      PROVE  /\ task'[s].at = task[s].at
             /\ task[s].at # "idle" => task'[s].user = task[s].user
             /\ task[s].at \in DevicePlaces => task'[s].device = task[s].device
             /\ task[s].at = "updateRow" => task'[s].row = task[s].row
             /\ Alone(s)' => Alone(s) /\ task[s].user # u /\ ~OnDevice(s, d)
  <2>1. CASE Touches(s, u, d) /\ "alone" \in DOMAIN task[s]
    <3>1. task'[s] = [task[s] EXCEPT !.alone = FALSE]
      BY <1>1, <1>3, <2>1
    <3>2. ~task'[s].alone
      BY <1>2, <2>1, <3>1, TaskDisturbed
    <3> QED BY <3>1, <3>2 DEF Alone
  <2>2. CASE ~(Touches(s, u, d) /\ "alone" \in DOMAIN task[s])
    <3>1. task'[s] = task[s]
      BY <1>1, <1>3, <2>2
    <3>2. ASSUME Alone(s) PROVE task[s].user # u /\ ~OnDevice(s, d)
      <4>1. "alone" \in DOMAIN task[s] /\ task[s].at # "idle"
        BY <1>2, <3>2, TaskShape DEF Alone, AlonePlaces
      <4>2. ~Touches(s, u, d)
        BY <2>2, <4>1
      <4>3. task[s].at \in DevicePlaces => "device" \in DOMAIN task[s]
        BY <1>2, TaskShape
      <4> QED BY <4>1, <4>2, <4>3 DEF Touches, Busy, OnDevice
    <3> QED BY <3>1, <3>2 DEF Alone
  <2> QED BY <2>1, <2>2
<1>4. /\ loggedOut' = loggedOut \ {u}
      /\ \A v \in Ids : LoggedInAs(v)' => /\ LoggedInAs(v) /\ current'[v] = current[v]
                                          /\ v # u /\ current[v][2] # d
  BY DEF Begin, LoggedInAs
<1>5. ASSUME entry.at \in AlonePlaces, entry.alone, NEW s \in AccountTasks, Writes(s)
      PROVE  task[s].user # u /\ ~OnDevice(s, d)
  <2>1. ~Touches(s, u, d)
    BY <1>5 DEF Undisturbed
  <2>2. /\ task[s].at # "idle"
        /\ task[s].at \in DevicePlaces => "device" \in DOMAIN task[s]
    BY <1>2, <1>5, TaskShape DEF Writes, AlonePlaces
  <2> QED BY <2>1, <2>2 DEF Touches, Busy, OnDevice
<1>6. \A s \in AccountTasks : s # t => /\ Writes(s)' <=> Writes(s)
                                       /\ Writes(s) => task[s].at # "idle"
                                       /\ \A e : OnDevice(s, e)' <=> OnDevice(s, e)
  BY <1>3 DEF Writes, OnDevice, AlonePlaces
<1>7. \A e : OnDevice(t, e)' => e = d
  BY <1>1 DEF OnDevice, DevicePlaces
<1>8. ApartInv'
  <2>1. ASSUME NEW r \in AccountTasks, NEW s \in AccountTasks, Alone(r)', Writes(s)', s # r
        PROVE  (/\ task[s].user # task[r].user
                /\ task[r].at \in DevicePlaces => ~OnDevice(s, task[r].device))'
    <3>1. CASE r = t
      <4>1. entry.at \in AlonePlaces /\ entry.alone /\ Writes(s) /\ task[s].at # "idle"
        BY <1>1, <1>6, <2>1, <3>1 DEF Alone
      <4>2. task[s].user # u /\ ~OnDevice(s, d) /\ task'[s].user = task[s].user
        BY <1>3, <1>5, <2>1, <3>1, <4>1
      <4>3. task'[r].at \in DevicePlaces => task'[r].device = d
        BY <1>1, <3>1 DEF DevicePlaces
      <4> QED BY <1>1, <1>6, <2>1, <3>1, <4>2, <4>3
    <3>2. CASE s = t
      <4>1. Alone(r) /\ task[r].user # u /\ ~OnDevice(r, d) /\ task[r].at # "idle"
        BY <1>3, <2>1, <3>2 DEF Alone, AlonePlaces
      <4> QED BY <1>1, <1>3, <1>7, <2>1, <3>2, <4>1 DEF OnDevice
    <3>3. CASE r # t /\ s # t
      <4>1. Alone(r) /\ Writes(s) /\ task[r].at # "idle" /\ task[s].at # "idle"
        BY <1>3, <1>6, <2>1, <3>3 DEF Alone, AlonePlaces
      <4> QED BY <1>3, <1>6, <2>1, <3>3, <4>1 DEF LoginInv, ApartInv
    <3> QED BY <3>1, <3>2, <3>3
  <2>2. ASSUME NEW v \in Ids, NEW s \in AccountTasks, LoggedInAs(v)', Writes(s)'
        PROVE  (task[s].user # v /\ ~OnDevice(s, current[v][2]))'
    <3>1. CASE s = t
      BY <1>1, <1>4, <1>7, <2>2, <3>1
    <3>2. CASE s # t
      <4>1. LoggedInAs(v) /\ Writes(s) /\ current'[v] = current[v]
        BY <1>4, <1>6, <2>2, <3>2
      <4>2. task[s].user # v /\ ~OnDevice(s, current[v][2])
        BY <4>1 DEF LoginInv, ApartInv
      <4> QED BY <1>3, <1>6, <3>2, <4>1, <4>2
    <3> QED BY <3>1, <3>2
  <2>3. ASSUME NEW s \in AccountTasks, Writes(s)' PROVE task'[s].user \notin loggedOut'
    BY <1>1, <1>3, <1>4, <1>6, <2>3 DEF LoginInv, ApartInv
  <2> QED BY <2>1, <2>2, <2>3 DEF ApartInv
<1>9. \A s \in AccountTasks : UpdatesOwn(s)'
  BY <1>1, <1>3 DEF LoginInv, UpdatesOwn
<1>10. \A s \in AccountTasks : Alone(s)' => Done(s)'
  <2>1. Done(t)'
    BY <1>1 DEF Done, TokenPlaces
  <2>2. ASSUME NEW s \in AccountTasks, s # t, Alone(s)' PROVE Done(s)'
    <3>1. Done(s) /\ task[s].at # "idle"
      BY <1>3, <2>2 DEF LoginInv, Alone, AlonePlaces
    <3> QED BY <1>3, <2>2, <3>1 DEF Done, NoRow, OnlyRow, TokenPlaces, DevicePlaces
  <2> QED BY <2>1, <2>2
<1>11. /\ \A v \in Ids : Lasts(v)'
       /\ \A v \in loggedOut' : Gone(v)'
  BY <1>4 DEF LoginInv, Lasts, Stands, Gone, NoRow, OnlyRow
<1> QED BY <1>8, <1>9, <1>10, <1>11 DEF LoginInv

\* A step of a request that writes nothing but what is its user's and its device's.
WritesOwn(t) ==
    LET u == task[t].user
    IN  /\ \A s \in AccountTasks : s # t => task'[s] = task[s]
        /\ \A r : r.user # u => (r \in refresh' <=> r \in refresh)
        /\ \A p \in fcm' : p[1] # u => p \in fcm
        /\ \A p \in fcm : p[1] # u /\ ~OnDevice(t, p[2]) => p \in fcm'
        /\ \A s \in AccountTasks, r \in refresh' :
              task[s].at = "updateRow" /\ r.id = task[s].row
                 => \E q \in refresh : q.id = r.id /\ q.user = r.user

\* It leaves alone what others have done, and what was left of others.
LEMMA LoginOthers ==
    ASSUME LoginInv, NEW t \in AccountTasks, Writes(t), WritesOwn(t)
    PROVE  /\ \A s \in AccountTasks : s # t => UpdatesOwn(s)' /\ (Alone(s)' => Done(s)')
           /\ \A u \in Ids : LoggedInAs(u) /\ current'[u] = current[u] => Lasts(u)'
           /\ \A u \in loggedOut : Gone(u)'
<1> DEFINE x == task[t]
<1>1. ASSUME NEW u, u # x.user
      PROVE  /\ NoRow(u) => NoRow(u)'
             /\ \A r : OnlyRow(u, r) => OnlyRow(u, r)'
             /\ \A d : <<u, d>> \in fcm /\ ~OnDevice(t, d) => <<u, d>> \in fcm'
  <2>1. \A r : r.user # x.user => (r \in refresh' <=> r \in refresh)
    BY DEF WritesOwn
  <2>2. NoRow(u) => NoRow(u)'
    BY <1>1, <2>1 DEF NoRow
  <2>3. \A r : OnlyRow(u, r) => OnlyRow(u, r)'
    BY <1>1, <2>1 DEF OnlyRow
  <2>4. \A d : <<u, d>>[1] = u /\ <<u, d>>[2] = d
    OBVIOUS
  <2>5. \A p \in fcm : p[1] # x.user /\ ~OnDevice(t, p[2]) => p \in fcm'
    BY DEF WritesOwn
  <2> QED BY <1>1, <2>2, <2>3, <2>4, <2>5
<1>2. ASSUME NEW s \in AccountTasks, s # t
      PROVE  UpdatesOwn(s)' /\ (Alone(s)' => Done(s)')
  <2>1. task'[s] = task[s] /\ UpdatesOwn(s) /\ (Alone(s) => Done(s))
    BY <1>2 DEF WritesOwn, LoginInv
  <2>2. UpdatesOwn(s)'
    <3>1. \A r \in refresh' : task[s].at = "updateRow" /\ r.id = task[s].row
             => \E q \in refresh : q.id = r.id /\ q.user = r.user
      BY DEF WritesOwn
    <3> QED BY <2>1, <3>1 DEF UpdatesOwn
  <2>3. ASSUME Alone(s)' PROVE Done(s)'
    <3>1. Alone(s) /\ Done(s)
      BY <2>1, <2>3 DEF Alone
    <3>2. x.user # task[s].user
      BY <1>2, <3>1 DEF LoginInv, ApartInv
    <3>3. task[s].at \in TokenPlaces => ~OnDevice(t, task[s].device)
      BY <1>2, <3>1 DEF LoginInv, ApartInv, TokenPlaces, DevicePlaces
    <3> PICK v, e : v = task[s].user /\ e = task[s].device
      OBVIOUS
    <3>4. /\ NoRow(v) => NoRow(v)'
          /\ \A r : OnlyRow(v, r) => OnlyRow(v, r)'
      BY <1>1, <3>2
    <3>5. task[s].at \in TokenPlaces => <<v, e>> \in fcm'
      BY <1>1, <3>1, <3>2, <3>3 DEF Done
    <3>6. task[s].at = "updateRow" => \E r \in refresh' : OnlyRow(v, r)' /\ r.id = task[s].row
      <4> SUFFICES ASSUME task[s].at = "updateRow"
                   PROVE  \E r \in refresh' : OnlyRow(v, r)' /\ r.id = task[s].row
        OBVIOUS
      <4>1. PICK r \in refresh : OnlyRow(v, r) /\ r.id = task[s].row
        BY <3>1 DEF Done
      <4>2. OnlyRow(v, r)'
        BY <3>4, <4>1
      <4>3. r \in refresh'
        BY <4>2 DEF OnlyRow
      <4> QED BY <4>1, <4>2, <4>3
    <3>7. task[s].at \in {"insertRow", "dropFcm"} => NoRow(v)'
      BY <3>1, <3>4 DEF Done
    <3> QED BY <2>1, <3>5, <3>6, <3>7 DEF Done, NoRow, OnlyRow
  <2> QED BY <2>2, <2>3
<1>3. ASSUME NEW u \in Ids, LoggedInAs(u), current'[u] = current[u] PROVE Lasts(u)'
  <2>1. Stands(u, current[u][1], current[u][2]) /\ x.user # u /\ ~OnDevice(t, current[u][2])
    BY <1>3 DEF LoginInv, ApartInv, Lasts
  <2>2. PICK r \in refresh : OnlyRow(u, r) /\ r.token = current[u][1]
    BY <2>1 DEF Stands
  <2>3. <<u, current[u][2]>> \in fcm' /\ OnlyRow(u, r)'
    BY <1>1, <2>1, <2>2 DEF Stands
  <2>4. r \in refresh'
    BY <2>3 DEF OnlyRow
  <2> QED BY <1>3, <2>2, <2>3, <2>4 DEF Lasts, Stands
<1>4. ASSUME NEW u \in loggedOut PROVE Gone(u)'
  <2>1. Gone(u) /\ x.user # u
    BY DEF LoginInv, ApartInv
  <2>2. NoRow(u)'
    BY <1>1, <2>1 DEF Gone
  <2>3. \A p \in fcm' : p[1] # x.user => p \in fcm
    BY DEF WritesOwn
  <2> QED BY <2>1, <2>2, <2>3 DEF Gone
<1> QED BY <1>2, <1>3, <1>4

\* A request goes on: it writes its own, and keeps user and device.
LEMMA LoginGoesOn ==
    ASSUME LoginInv, NEW t \in AccountTasks, Writes(t), WritesOwn(t),
           UNCHANGED <<current, loggedOut>>, task'[t].user = task[t].user,
           Alone(t)' => Alone(t),
           task'[t].at \in DevicePlaces
              => task[t].at \in DevicePlaces /\ task'[t].device = task[t].device,
           UpdatesOwn(t)', Alone(t)' => Done(t)'
    PROVE  LoginInv'
<1>1. ApartInv'
  <2>1. \A s \in AccountTasks : /\ task'[s].user = task[s].user
                                /\ Writes(s)' => Writes(s)
                                /\ Alone(s)' => Alone(s)
    BY DEF WritesOwn, Writes, Alone
  <2>2. \A s \in AccountTasks :
           task'[s].at \in DevicePlaces
              => task[s].at \in DevicePlaces /\ task'[s].device = task[s].device
    BY DEF WritesOwn
  <2>3. \A s \in AccountTasks : \A e : OnDevice(s, e)' => OnDevice(s, e)
    BY <2>2 DEF OnDevice
  <2>4. ASSUME NEW r \in AccountTasks, NEW s \in AccountTasks, Alone(r)', Writes(s)', s # r
        PROVE  (/\ task[s].user # task[r].user
                /\ task[r].at \in DevicePlaces => ~OnDevice(s, task[r].device))'
    <3>1. /\ task[s].user # task[r].user
          /\ task[r].at \in DevicePlaces => ~OnDevice(s, task[r].device)
      BY <2>1, <2>4 DEF LoginInv, ApartInv
    <3> QED BY <2>1, <2>2, <2>3, <3>1
  <2>5. ASSUME NEW v \in Ids, NEW s \in AccountTasks, LoggedInAs(v)', Writes(s)'
        PROVE  (task[s].user # v /\ ~OnDevice(s, current[v][2]))'
    <3>1. LoggedInAs(v) /\ current'[v] = current[v]
      BY <2>5 DEF LoggedInAs
    <3>2. task[s].user # v /\ ~OnDevice(s, current[v][2])
      BY <2>1, <2>5, <3>1 DEF LoginInv, ApartInv
    <3> QED BY <2>1, <2>3, <3>1, <3>2
  <2>6. \A s \in AccountTasks : Writes(s)' => task'[s].user \notin loggedOut'
    BY <2>1 DEF LoginInv, ApartInv
  <2> QED BY <2>4, <2>5, <2>6 DEF ApartInv
<1>2. \A s \in AccountTasks : UpdatesOwn(s)' /\ (Alone(s)' => Done(s)')
  BY LoginOthers
<1>3. \A u \in Ids : Lasts(u)'
  <2>1. \A u \in Ids : LoggedInAs(u)' => LoggedInAs(u)
    BY DEF LoggedInAs
  <2> QED BY <2>1, LoginOthers DEF Lasts
<1>4. \A u \in loggedOut' : Gone(u)'
  BY LoginOthers
<1> QED BY <1>1, <1>2, <1>3, <1>4 DEF LoginInv

\* A request ends, and leaves a login or a logout if it was alone.
LEMMA LoginEnds ==
    ASSUME LoginInv, NEW t \in AccountTasks, Writes(t), WritesOwn(t), task'[t] = Idle,
           NEW u, task[t].user = u,
           \/ loggedOut' = loggedOut
           \/ loggedOut' = loggedOut \cup {u} /\ Alone(t) /\ Gone(u)',
           \A v \in Ids : \/ current'[v] = current[v]
                          \/ /\ Alone(t) /\ v = u /\ Lasts(u)'
                             /\ task[t].at \in DevicePlaces /\ current'[u][2] = task[t].device
    PROVE  LoginInv'
<1>1. \A s \in AccountTasks : Writes(s)' => s # t /\ task'[s] = task[s] /\ Writes(s)
  BY DEF WritesOwn, Writes, Idle, AlonePlaces
<1>2. \A s \in AccountTasks : Alone(s)' => s # t /\ task'[s] = task[s] /\ Alone(s)
  BY <1>1 DEF Writes, Alone
<1>3. ApartInv'
  <2>1. ASSUME NEW r \in AccountTasks, NEW s \in AccountTasks, Alone(r)', Writes(s)', s # r
        PROVE  (/\ task[s].user # task[r].user
                /\ task[r].at \in DevicePlaces => ~OnDevice(s, task[r].device))'
    <3>1. /\ task[s].user # task[r].user
          /\ task[r].at \in DevicePlaces => ~OnDevice(s, task[r].device)
      BY <1>1, <1>2, <2>1 DEF LoginInv, ApartInv
    <3> QED BY <1>1, <1>2, <2>1, <3>1 DEF OnDevice
  <2>2. ASSUME NEW v \in Ids, NEW s \in AccountTasks, LoggedInAs(v)', Writes(s)'
        PROVE  (task[s].user # v /\ ~OnDevice(s, current[v][2]))'
    <3>1. Writes(s) /\ s # t /\ task'[s] = task[s]
      BY <1>1, <2>2
    <3>2. CASE current'[v] = current[v]
      <4>1. LoggedInAs(v)
        BY <2>2, <3>2 DEF LoggedInAs
      <4> QED BY <3>1, <3>2, <4>1 DEF LoginInv, ApartInv, OnDevice
    <3>3. CASE /\ Alone(t) /\ v = u
               /\ task[t].at \in DevicePlaces /\ current'[v][2] = task[t].device
      <4>1. task[s].user # v /\ ~OnDevice(s, task[t].device)
        BY <3>1, <3>3 DEF LoginInv, ApartInv
      <4> QED BY <3>1, <3>3, <4>1 DEF OnDevice
    <3> QED BY <3>2, <3>3
  <2>3. \A s \in AccountTasks : Writes(s)' => task'[s].user \notin loggedOut'
    BY <1>1 DEF LoginInv, ApartInv
  <2> QED BY <2>1, <2>2, <2>3 DEF ApartInv
<1>4. \A s \in AccountTasks : UpdatesOwn(s)' /\ (Alone(s)' => Done(s)')
  <2>1. UpdatesOwn(t)'
    BY DEF UpdatesOwn, Idle
  <2> QED BY <1>2, <2>1, LoginOthers
<1>5. \A v \in Ids : Lasts(v)'
  <2>1. \A v \in Ids : LoggedInAs(v)' /\ current'[v] = current[v] => LoggedInAs(v)
    BY DEF LoggedInAs
  <2> QED BY <2>1, LoginOthers DEF Lasts
<1>6. \A v \in loggedOut' : Gone(v)'
  BY LoginOthers
<1> QED BY <1>3, <1>4, <1>5, <1>6 DEF LoginInv

\* What each writing step does, and that it is its user's alone.
LEMMA LoginStep ==
    ASSUME AccountsTypeOK, LoginInv, NEW t \in AccountTasks,
           \/ HandleFCMOnLogin(t) \/ TryGetRefreshTokenRecordId(t)
           \/ InsertNewRefreshToken(t) \/ UpdateCurrentRefreshToken(t)
           \/ DeleteRefreshTokenByUserId(t) \/ DeleteFcmRecordByUserId(t) \/ DeleteUserAccount(t)
    PROVE  LoginInv'
<1> PICK x, u : x = task[t] /\ u = x.user
  OBVIOUS
<1>1. task \in [AccountTasks -> Tasks] /\ x \in Tasks
  BY DEF AccountsTypeOK
<1>2. /\ x.at # "idle" => u \in Ids
      /\ x.at \in AlonePlaces => x.alone \in BOOLEAN
      /\ x.at \in DevicePlaces => x.device \in Devices
      /\ x.at \in TokenPlaces => x.token \in Tokens
  BY <1>1, TaskShape
<1>3. ASSUME NEW entry, GoTo(t, entry)
      PROVE  task'[t] = entry /\ \A s \in AccountTasks : s # t => task'[s] = task[s]
  BY <1>1, <1>3 DEF GoTo
<1>4. \A p \in fcm : p = <<p[1], p[2]>>
  BY DEF AccountsTypeOK
<1>5. ASSUME UNCHANGED refresh
      PROVE  \A s \in AccountTasks, r \in refresh' :
                task[s].at = "updateRow" /\ r.id = task[s].row
                   => \E q \in refresh : q.id = r.id /\ q.user = r.user
  BY <1>5
<1>6. CASE HandleFCMOnLogin(t)
  <2>1. /\ x.at = "storeFcm" /\ fcm' = FcmAfter(u, x.device)
        /\ GoTo(t, [at |-> "findRow", user |-> u, device |-> x.device,
                    alone |-> x.alone, token |-> <<u, second>>])
        /\ UNCHANGED <<refresh, current, loggedOut>>
    BY <1>6 DEF HandleFCMOnLogin, At
  <2>2. Writes(t) /\ (OnDevice(t, x.device))
    BY <2>1 DEF Writes, OnDevice, AlonePlaces, DevicePlaces
  <2>3. WritesOwn(t)
    <3>1. \A p \in fcm' : p[1] # u => p \in fcm
      BY <2>1 DEF FcmAfter
    <3>2. \A p \in fcm : p[1] # u /\ ~OnDevice(t, p[2]) => p \in fcm'
      BY <2>1, <2>2 DEF FcmAfter, OnDevice
    <3> QED BY <1>3, <1>5, <2>1, <3>1, <3>2 DEF WritesOwn
  <2>4. /\ task'[t].at = "findRow" /\ task'[t].user = u /\ task'[t].device = x.device
        /\ task'[t].alone = x.alone
    BY <1>3, <2>1
  <2>5. UpdatesOwn(t)' /\ Done(t)'
    BY <2>1, <2>4 DEF UpdatesOwn, Done, FcmAfter
  <2>6. (Alone(t)' => Alone(t)) /\ x.at \in DevicePlaces
    BY <2>1, <2>4 DEF Alone, AlonePlaces, DevicePlaces
  <2> QED BY <2>1, <2>2, <2>3, <2>4, <2>5, <2>6, LoginGoesOn
<1>7. CASE TryGetRefreshTokenRecordId(t)
  <2>1. x.at = "findRow" /\ UNCHANGED <<refresh, fcm, current, loggedOut>>
    BY <1>7 DEF TryGetRefreshTokenRecordId, At, accountTables
  <2>2. Writes(t) /\ x.at \in DevicePlaces /\ x.at \in TokenPlaces
    BY <2>1 DEF Writes, AlonePlaces, DevicePlaces, TokenPlaces
  <2>3. \/ /\ RowsOf(u) = {}
           /\ GoTo(t, [at |-> "insertRow", user |-> u, device |-> x.device,
                       alone |-> x.alone, token |-> x.token])
        \/ \E r \in refresh :
              /\ RowsOf(u) = {r}
              /\ GoTo(t, [at |-> "updateRow", user |-> u, device |-> x.device,
                          alone |-> x.alone, token |-> x.token, row |-> r.id])
    <3>1. [x EXCEPT !.at = "insertRow"]
             = [at |-> "insertRow", user |-> u, device |-> x.device,
                alone |-> x.alone, token |-> x.token]
      BY <1>1, <2>1, TaskMoves
    <3> QED BY <1>3, <1>7, <3>1 DEF TryGetRefreshTokenRecordId
  <2>4. WritesOwn(t)
    BY <1>3, <1>5, <2>1, <2>3 DEF WritesOwn
  <2>5. /\ task'[t].at \in {"insertRow", "updateRow"} /\ task'[t].user = u
        /\ task'[t].device = x.device /\ task'[t].alone = x.alone
        /\ task'[t].at = "insertRow" => RowsOf(u) = {}
        /\ task'[t].at = "updateRow"
              => \E r \in refresh : RowsOf(u) = {r} /\ task'[t].row = r.id
    <3>1. CASE /\ RowsOf(u) = {}
               /\ GoTo(t, [at |-> "insertRow", user |-> u, device |-> x.device,
                           alone |-> x.alone, token |-> x.token])
      BY <1>3, <3>1
    <3>2. ASSUME NEW r \in refresh, RowsOf(u) = {r},
                 GoTo(t, [at |-> "updateRow", user |-> u, device |-> x.device,
                          alone |-> x.alone, token |-> x.token, row |-> r.id])
          PROVE  /\ task'[t].at = "updateRow" /\ task'[t].user = u
                 /\ task'[t].device = x.device /\ task'[t].alone = x.alone
                 /\ task'[t].row = r.id
      BY <1>3, <3>2
    <3> QED BY <2>3, <3>1, <3>2
  <2>6. Alone(t)' => Alone(t)
    BY <2>1, <2>5 DEF Alone, AlonePlaces
  <2>7. UpdatesOwn(t)'
    <3>1. \A r, s \in refresh : r.id = s.id => r = s
      BY DEF AccountsTypeOK
    <3> QED BY <2>1, <2>5, <3>1 DEF UpdatesOwn, RowsOf
  <2>8. Alone(t)' => Done(t)'
    <3> SUFFICES ASSUME Alone(t)' PROVE Done(t)'
      OBVIOUS
    <3>1. <<u, x.device>> \in fcm
      BY <2>2, <2>6 DEF LoginInv, Done
    <3>2. task'[t].at = "updateRow" => \E r \in refresh : OnlyRow(u, r) /\ r.id = task'[t].row
      BY <2>5 DEF OnlyRow, RowsOf
    <3>3. task'[t].at = "insertRow" => NoRow(u)
      BY <2>5 DEF NoRow, RowsOf
    <3> QED BY <2>1, <2>5, <3>1, <3>2, <3>3 DEF Done, NoRow, OnlyRow
  <2> QED BY <2>1, <2>2, <2>4, <2>5, <2>6, <2>7, <2>8, LoginGoesOn
<1>8. CASE DeleteRefreshTokenByUserId(t)
  <2>1. /\ x.at = "dropTokens" /\ refresh' = refresh \ RowsOf(u)
        /\ UNCHANGED <<fcm, current, loggedOut>>
        /\ GoTo(t, [at |-> "dropFcm", user |-> u, alone |-> x.alone])
    <3>1. x.at = "dropTokens" => [x EXCEPT !.at = "dropFcm"]
             = [at |-> "dropFcm", user |-> u, alone |-> x.alone]
      BY <1>1, TaskMoves
    <3> QED BY <1>8, <3>1 DEF DeleteRefreshTokenByUserId, TokensDropped, At
  <2>2. Writes(t)
    BY <2>1 DEF Writes, AlonePlaces
  <2>3. WritesOwn(t)
    <3>1. \A r : r.user # u => (r \in refresh' <=> r \in refresh)
      BY <2>1 DEF RowsOf
    <3>2. refresh' \subseteq refresh
      BY <2>1
    <3> QED BY <1>3, <2>1, <3>1, <3>2 DEF WritesOwn
  <2>4. task'[t].at = "dropFcm" /\ task'[t].user = u /\ task'[t].alone = x.alone
    BY <1>3, <2>1
  <2>5. UpdatesOwn(t)' /\ Done(t)'
    BY <2>1, <2>4 DEF UpdatesOwn, Done, NoRow, RowsOf, TokenPlaces
  <2>6. (Alone(t)' => Alone(t)) /\ task'[t].at \notin DevicePlaces
    BY <2>1, <2>4 DEF Alone, AlonePlaces, DevicePlaces
  <2> QED BY <2>1, <2>2, <2>3, <2>4, <2>5, <2>6, LoginGoesOn
<1>9. CASE DeleteFcmRecordByUserId(t)
  <2>1. /\ x.at = "dropFcm" /\ fcm' = {p \in fcm : p[1] # u} /\ GoTo(t, Idle)
        /\ UNCHANGED <<refresh, current>>
        /\ loggedOut' = loggedOut \cup (IF x.alone THEN {u} ELSE {})
    BY <1>9 DEF DeleteFcmRecordByUserId, At, Answer
  <2>2. Writes(t) /\ (x.alone => Alone(t))
    BY <2>1 DEF Writes, Alone, AlonePlaces
  <2>3. WritesOwn(t)
    BY <1>3, <1>5, <2>1 DEF WritesOwn
  <2>4. ASSUME x.alone PROVE Gone(u)'
    <3>1. NoRow(u)
      BY <2>1, <2>2, <2>4 DEF LoginInv, Done
    <3> QED BY <2>1, <3>1 DEF Gone, NoRow
  <2>5. task'[t] = Idle
    BY <1>3, <2>1
  <2>6. \/ loggedOut' = loggedOut
        \/ loggedOut' = loggedOut \cup {u} /\ Alone(t) /\ Gone(u)'
    BY <2>1, <2>2, <2>4
  <2> QED BY <2>1, <2>2, <2>3, <2>5, <2>6, LoginEnds
<1>10. CASE DeleteUserAccount(t)
  <2>1. /\ x.at = "remove" /\ fcm' = {p \in fcm : p[1] # u} /\ GoTo(t, Idle)
        /\ refresh' = refresh \ RowsOf(u) /\ UNCHANGED <<current, loggedOut>>
    BY <1>10 DEF DeleteUserAccount, At, Answer
  <2>2. Writes(t)
    BY <2>1 DEF Writes
  <2>3. WritesOwn(t)
    <3>1. \A r : r.user # u => (r \in refresh' <=> r \in refresh)
      BY <2>1 DEF RowsOf
    <3>2. refresh' \subseteq refresh
      BY <2>1
    <3> QED BY <1>3, <2>1, <3>1, <3>2 DEF WritesOwn
  <2>4. task'[t] = Idle
    BY <1>3, <2>1
  <2> QED BY <2>1, <2>2, <2>3, <2>4, LoginEnds
<1>11. ASSUME x.at \in {"insertRow", "updateRow"}, LoggedIn(t), WritesOwn(t),
              Alone(t) => \E r \in refresh' : OnlyRow(u, r)' /\ r.token = x.token
       PROVE  LoginInv'
  <2>1. /\ Writes(t) /\ x.at \in DevicePlaces /\ x.at \in TokenPlaces
        /\ x.alone => Alone(t)
    BY <1>11 DEF Writes, Alone, AlonePlaces, DevicePlaces, TokenPlaces
  <2>2. /\ fcm' = fcm /\ loggedOut' = loggedOut /\ GoTo(t, Idle)
        /\ \/ current' = current
           \/ x.alone /\ current' = [current EXCEPT ![u] = <<x.token, x.device>>]
    BY <1>11 DEF LoggedIn, Answer
  <2>3. \A v \in Ids : \/ current'[v] = current[v]
                       \/ x.alone /\ v = u /\ current'[v] = <<x.token, x.device>>
    BY <2>2 DEF AccountsTypeOK
  <2>4. ASSUME x.alone, current'[u] = <<x.token, x.device>> PROVE Lasts(u)'
    <3>1. <<u, x.device>> \in fcm'
      BY <2>1, <2>2, <2>4 DEF LoginInv, Done
    <3>2. current'[u][1] = x.token /\ current'[u][2] = x.device
      BY <2>4
    <3>3. \E r \in refresh' : OnlyRow(u, r)' /\ r.token = x.token
      BY <1>11, <2>1, <2>4
    <3> QED BY <3>1, <3>2, <3>3 DEF Lasts, Stands
  <2>5. \A v \in Ids : \/ current'[v] = current[v]
                       \/ /\ Alone(t) /\ v = u /\ Lasts(u)'
                          /\ task[t].at \in DevicePlaces /\ current'[u][2] = task[t].device
    BY <2>1, <2>3, <2>4
  <2>6. task'[t] = Idle
    BY <1>3, <2>2
  <2> QED BY <1>11, <2>1, <2>2, <2>5, <2>6, LoginEnds
<1>12. CASE InsertNewRefreshToken(t)
  <2>1. /\ x.at = "insertRow" /\ UnusedRows # {} /\ LoggedIn(t)
        /\ refresh' = refresh \cup {[id |-> UnusedRow, user |-> u, token |-> x.token]}
    BY <1>12 DEF InsertNewRefreshToken, At
  <2> PICK n : n = [id |-> UnusedRow, user |-> u, token |-> x.token]
    OBVIOUS
  <2>2. /\ refresh' = refresh \cup {n} /\ n.user = u /\ n.token = x.token
        /\ \A s \in AccountTasks : task[s].at = "updateRow" => task[s].row # n.id
    BY <2>1, UnusedRowIsNew
  <2>3. WritesOwn(t)
    <3>1. fcm' = fcm /\ GoTo(t, Idle)
      BY <2>1 DEF LoggedIn, Answer
    <3>2. \A r : r.user # u => (r \in refresh' <=> r \in refresh)
      BY <2>2
    <3>3. \A s \in AccountTasks, r \in refresh' :
             task[s].at = "updateRow" /\ r.id = task[s].row
                => \E q \in refresh : q.id = r.id /\ q.user = r.user
      BY <2>2
    <3> QED BY <1>3, <3>1, <3>2, <3>3 DEF WritesOwn
  <2>4. Alone(t) => OnlyRow(u, n)'
    <3>1. Alone(t) => NoRow(u)
      BY <2>1 DEF LoginInv, Done
    <3> QED BY <2>2, <3>1 DEF NoRow, OnlyRow
  <2> QED BY <1>11, <2>1, <2>2, <2>3, <2>4
<1>13. CASE UpdateCurrentRefreshToken(t)
  <2>1. x.at = "updateRow" /\ LoggedIn(t) /\ refresh' = Updated(x.row, x.token)
    BY <1>13 DEF UpdateCurrentRefreshToken, At
  <2>2. \A r \in refresh : /\ [r EXCEPT !.token = x.token].id = r.id
                           /\ [r EXCEPT !.token = x.token].user = r.user
                           /\ [r EXCEPT !.token = x.token].token = x.token
    BY DEF AccountsTypeOK, Rows
  <2>3. \A r \in refresh : r.id = x.row => r.user = u
    BY <2>1 DEF LoginInv, UpdatesOwn
  <2>4. \A r \in refresh' : \E q \in refresh :
           r = IF q.id = x.row THEN [q EXCEPT !.token = x.token] ELSE q
    BY <2>1 DEF Updated
  <2>5. \A q \in refresh : (IF q.id = x.row THEN [q EXCEPT !.token = x.token] ELSE q) \in refresh'
    BY <2>1 DEF Updated
  <2>6. WritesOwn(t)
    <3>1. fcm' = fcm /\ GoTo(t, Idle)
      BY <2>1 DEF LoggedIn, Answer
    <3>2. ASSUME NEW r, r.user # u PROVE r \in refresh' <=> r \in refresh
      BY <2>2, <2>3, <2>4, <2>5, <3>2
    <3>3. \A r \in refresh' : \E q \in refresh : q.id = r.id /\ q.user = r.user
      BY <2>2, <2>4
    <3> QED BY <1>3, <3>1, <3>2, <3>3 DEF WritesOwn
  <2>7. ASSUME Alone(t) PROVE \E r \in refresh' : OnlyRow(u, r)' /\ r.token = x.token
    <3>1. PICK q \in refresh : OnlyRow(u, q) /\ q.id = x.row
      BY <2>1, <2>7 DEF LoginInv, Done
    <3> PICK n : n = [q EXCEPT !.token = x.token]
      OBVIOUS
    <3>2. n \in refresh' /\ n.user = u /\ n.token = x.token
      BY <2>2, <2>3, <2>5, <3>1
    <3>3. ASSUME NEW r \in refresh', r.user = u PROVE r = n
      <4>1. PICK y \in refresh : r = IF y.id = x.row THEN [y EXCEPT !.token = x.token] ELSE y
        BY <2>4
      <4>2. y.user = u
        BY <2>2, <3>3, <4>1
      <4> QED BY <3>1, <4>1, <4>2 DEF OnlyRow
    <3>4. OnlyRow(u, n)'
      BY <3>2, <3>3 DEF OnlyRow
    <3> QED BY <3>2, <3>4
  <2> QED BY <1>11, <2>1, <2>6, <2>7
<1> QED BY <1>6, <1>7, <1>8, <1>9, <1>10, <1>12, <1>13

\* Everybody is logged out: nobody is alone after that, and nothing is left.
LEMMA LoginLogoutAll ==
    ASSUME AccountsTypeOK, LoginInv, LogoutAllUsers
    PROVE  LoginInv'
<1>1. /\ refresh' = {} /\ fcm' = {} /\ loggedOut' = loggedOut
      /\ current' = [u \in Ids |-> <<NoToken, NoDevice>>]
  BY DEF LogoutAllUsers, DeleteAllUsersLoginSessionInfo, DeleteAllRefreshTokens,
         DeleteAllFCMTokens
<1>2. \A u \in Ids : ~LoggedInAs(u)'
  BY <1>1 DEF LoggedInAs
<1>3. ASSUME NEW s \in AccountTasks
      PROVE  ~Alone(s)' /\ (Writes(s)' => Writes(s) /\ task'[s].user = task[s].user)
  <2>1. task[s] \in Tasks
    BY DEF AccountsTypeOK
  <2>2. task'[s] = IF "alone" \in DOMAIN task[s]
                   THEN [task[s] EXCEPT !.alone = FALSE] ELSE task[s]
    BY DEF LogoutAllUsers
  <2>3. CASE "alone" \in DOMAIN task[s]
    <3>1. task'[s] = [task[s] EXCEPT !.alone = FALSE]
      BY <2>2, <2>3
    <3>2. ~task'[s].alone
      BY <2>1, <2>3, <3>1, TaskDisturbed
    <3> QED BY <3>1, <3>2 DEF Alone, Writes
  <2>4. CASE "alone" \notin DOMAIN task[s]
    BY <2>1, <2>2, <2>4, TaskShape DEF Alone, Writes
  <2> QED BY <2>3, <2>4
<1>4. ApartInv'
  BY <1>1, <1>2, <1>3 DEF LoginInv, ApartInv
<1>5. \A u \in loggedOut' : Gone(u)'
  BY <1>1 DEF Gone, NoRow
<1> QED BY <1>1, <1>2, <1>3, <1>4, <1>5 DEF LoginInv, UpdatesOwn, Lasts

LEMMA LoginAccountBegin ==
    ASSUME AccountsTypeOK, LoginInv, NEW t \in AccountTasks, AccountBegin(t)
    PROVE  LoginInv'
<1>1. ASSUME NEW e \in Emails, CreateUser(t, e) PROVE LoginInv'
  <2>1. PICK u : GoTo(t, [at |-> "sendMail", user |-> u])
    BY <1>1 DEF CreateUser
  <2>2. \A s \in AccountTasks : task'[s] = task[s] \/ task'[s].at = "sendMail"
    BY <2>1 DEF GoTo, AccountsTypeOK
  <2>3. \A s \in AccountTasks : task'[s] = task[s] \/ ~Writes(s)'
    BY <2>2 DEF Writes, AlonePlaces
  <2> QED BY <1>1, <2>3, LoginQuiet DEF CreateUser
<1>2. ASSUME NEW e \in Emails, NEW d \in Devices, LoginUserAccount(t, e, d)
      PROVE  LoginInv'
  <2>1. PICK u \in SearchUserByEmail(e) \cap verified :
           Begin(t, u, d, [at |-> "storeFcm", user |-> u, device |-> d,
                           alone |-> Undisturbed(u, d)])
    BY <1>2 DEF LoginUserAccount
  <2>2. u \in Ids
    BY UsersType DEF AccountsTypeOK, SearchUserByEmail
  <2>3. Undisturbed(u, d) \in BOOLEAN
    BY DEF Undisturbed
  <2> PICK n : n = [at |-> "storeFcm", user |-> u, device |-> d, alone |-> Undisturbed(u, d)]
    OBVIOUS
  <2>4. n \in Tasks
    BY <2>2, <2>3 DEF Tasks, LoginTasks
  <2>5. /\ n.at = "storeFcm" /\ n.user = u /\ n.device = d
        /\ n.alone <=> Undisturbed(u, d)
    BY <2>3
  <2>6. UNCHANGED <<refresh, fcm>>
    BY <1>2 DEF LoginUserAccount, accountTables
  <2> QED BY <2>1, <2>2, <2>4, <2>5, <2>6, LoginBegin
<1>3. ASSUME NEW u \in Ids, OpenLink(t, u) PROVE LoginInv'
  <2>1. PICK place \in {"setVerified", "dropLetter"} : GoTo(t, [at |-> place, user |-> u])
    BY <1>3 DEF OpenLink
  <2>2. \A s \in AccountTasks :
           task'[s] = task[s] \/ task'[s].at \in {"setVerified", "dropLetter"}
    BY <2>1 DEF GoTo, AccountsTypeOK
  <2>3. \A s \in AccountTasks : task'[s] = task[s] \/ ~Writes(s)'
    BY <2>2 DEF Writes, AlonePlaces
  <2> QED BY <1>3, <2>3, LoginQuiet DEF OpenLink, accountTables
<1>4. ASSUME NEW u \in Ids, LogoutUserFromSession(t, u) PROVE LoginInv'
  <2>1. Undisturbed(u, NoDevice) \in BOOLEAN
    BY DEF Undisturbed
  <2> PICK n : n = [at |-> "dropTokens", user |-> u, alone |-> Undisturbed(u, NoDevice)]
    OBVIOUS
  <2>2. n \in Tasks
    BY <2>1 DEF Tasks, LogoutTasks
  <2>3. /\ n.at = "dropTokens" /\ n.user = u
        /\ n.alone <=> Undisturbed(u, NoDevice)
    BY <2>1
  <2>4. Begin(t, u, NoDevice, n) /\ UNCHANGED <<refresh, fcm>>
    BY <1>4 DEF LogoutUserFromSession, accountTables
  <2> QED BY <2>2, <2>3, <2>4, LoginBegin
<1>5. ASSUME NEW u \in Ids, RemoveUserAccount(t, u) PROVE LoginInv'
  <2> PICK n : n = [at |-> "remove", user |-> u]
    OBVIOUS
  <2>1. n \in Tasks /\ n.at = "remove" /\ n.user = u
    BY DEF Tasks, OtherTasks
  <2>2. Begin(t, u, NoDevice, n) /\ UNCHANGED <<refresh, fcm>>
    BY <1>5 DEF RemoveUserAccount, accountTables
  <2> QED BY <2>1, <2>2, LoginBegin DEF AlonePlaces
<1> QED BY <1>1, <1>2, <1>3, <1>4, <1>5 DEF AccountBegin

LEMMA LoginQuietStep ==
    ASSUME AccountsTypeOK, LoginInv, NEW t \in AccountTasks,
           \/ SendVerificationEmail(t) \/ UpdateUserVerification(t)
           \/ DeleteEmailVerificationToken(t) \/ Fail(t)
    PROVE  LoginInv'
<1>1. UNCHANGED <<refresh, fcm, current, loggedOut>>
  BY DEF SendVerificationEmail, UpdateUserVerification, DeleteEmailVerificationToken, Fail,
         accountTables
<1>2. \E n : GoTo(t, n) /\ n.at \in {"idle", "dropLetter"}
  <2>1. CASE UpdateUserVerification(t)
    <3>1. task[t] \in Tasks /\ task[t].at = "setVerified"
      BY <2>1 DEF UpdateUserVerification, At, AccountsTypeOK
    <3>2. [task[t] EXCEPT !.at = "dropLetter"] = [at |-> "dropLetter", user |-> task[t].user]
      BY <3>1, TaskMoves
    <3> QED BY <2>1, <3>2 DEF UpdateUserVerification
  <2>2. CASE SendVerificationEmail(t) \/ DeleteEmailVerificationToken(t) \/ Fail(t)
    <3>1. GoTo(t, Idle) /\ Idle.at = "idle"
      BY <2>2 DEF SendVerificationEmail, DeleteEmailVerificationToken, Fail, Answer, Idle
    <3> QED BY <3>1
  <2> QED BY <2>1, <2>2
<1>3. \A s \in AccountTasks : task'[s] = task[s] \/ task'[s].at \in {"idle", "dropLetter"}
  BY <1>2 DEF GoTo, AccountsTypeOK
<1> QED BY <1>1, <1>3, LoginQuiet DEF Writes, AlonePlaces

LEMMA LoginInit == Init => LoginInv
<1> SUFFICES ASSUME Init PROVE LoginInv
  OBVIOUS
<1>1. /\ refresh = {} /\ fcm = {} /\ loggedOut = {}
      /\ \A t \in AccountTasks : task[t] = Idle
      /\ \A u \in Ids : current[u] = <<NoToken, NoDevice>>
  BY DEF Init, AccountsInit
<1>2. \A t \in AccountTasks : ~Writes(t) /\ ~Alone(t)
  BY <1>1 DEF Writes, Alone, Idle, AlonePlaces
<1>3. \A u \in Ids : ~LoggedInAs(u)
  BY <1>1 DEF LoggedInAs
<1> QED BY <1>1, <1>2, <1>3 DEF LoginInv, ApartInv, UpdatesOwn, Lasts

LEMMA LoginNext == Typed /\ LoginInv /\ [Next]_vars => LoginInv'
<1> SUFFICES ASSUME Typed, LoginInv, [Next]_vars PROVE LoginInv'
  OBVIOUS
<1>1. AccountsTypeOK
  BY DEF Typed
<1>2. CASE UNCHANGED accountVars
  BY <1>2, LoginQuiet DEF accountVars, accountTables
<1>3. CASE AccountRequest
  <2>1. ASSUME NEW u \in Ids, ExpireAccessToken(u) \/ RegenerateAccessToken(u)
        PROVE  UNCHANGED <<refresh, fcm, current, loggedOut, task>>
    BY <2>1 DEF ExpireAccessToken, RegenerateAccessToken, accountTables
  <2> QED BY <1>1, <1>3, <2>1, LoginAccountBegin, LoginLogoutAll, LoginQuiet DEF AccountRequest
<1>4. CASE AccountProgress
  <2>1. ASSUME NEW t \in AccountTasks, AccountStep(t) PROVE LoginInv'
    BY <1>1, <2>1, LoginStep, LoginQuietStep DEF AccountStep
  <2>2. ASSUME NEW t \in AccountTasks, DeleteUserAccount(t) PROVE LoginInv'
    BY <1>1, <2>2, LoginStep
  <2>3. CASE FailUnhandled
    <3>1. \A s \in AccountTasks : ~Writes(s)'
      BY <2>3 DEF FailUnhandled, Writes, Idle, AlonePlaces
    <3> QED BY <2>3, <3>1, LoginQuiet DEF FailUnhandled, accountTables
  <2>4. CASE Tick
    BY <2>4, LoginQuiet DEF Tick, accountTables
  <2> QED BY <1>4, <2>1, <2>2, <2>3, <2>4 DEF AccountProgress
<1> QED BY <1>2, <1>3, <1>4 DEF Next, FriendRequest, FriendProgress, vars

-----------------------------------------------------------------------------
(* The theorems. *)

\* The strengthening holds in every state of the two services.
THEOREM Invariance == Spec => []IInv
BY InvInit, InvNext, PTL DEF Spec

\* However requests cross, and however often they are admitted, two users have one
\* request at most between them, and one friendship.
THEOREM RelationsAreSingle == Spec => []OneRelation
BY Invariance, PTL DEF IInv, RelationInv

\* One admission of a request is answered by success, and the request is closed then.
THEOREM AdmittedOnceHolds == Spec => []AdmittedOnce
<1>1. IInv => AdmittedOnce
  <2> SUFFICES ASSUME IInv, NEW q \in Requests
               PROVE  answered[q] <= 1 /\ (answered[q] = 1 => \A p \in pending : p.uuid # q)
    BY DEF AdmittedOnce
  <2>1. answered[q] \in 0..1 /\ \A p \in pending : answered[p.uuid] = 0
    BY DEF IInv, AdmissionInv
  <2> QED BY <2>1
<1> QED BY <1>1, Invariance, PTL

\* Of a removed user no refresh token, device, friend request or friendship is left,
\* whatever was under way: each transaction that would write one finds the user missing.
THEOREM RemovalCutsTies == Spec => []RemovedUserHasNoTies
<1>1. IInv => RemovedUserHasNoTies
  BY DEF IInv, AccountInv, RelationInv, RemovedUserHasNoTies
<1> QED BY <1>1, Invariance, PTL

\* The tables and the requests keep their types: no two accounts with one e-mail, no two
\* devices of a user or users of a device, no two rows with one key.
THEOREM PeopleTypeCorrect == Spec => []TypeOK
<1>1. Typed /\ IInv => TypeOK
  <2> SUFFICES ASSUME Typed, IInv PROVE TypeOK
    OBVIOUS
  <2>1. FriendshipTypeOK
    BY DEF Typed, AskingType, IInv, RelationInv, AdmissionInv, FriendshipTypeOK
  <2> QED BY <2>1 DEF Typed, TypeOK
<1> QED BY <1>1, InvInit, InvNext, TypedInit, TypedNext, PTL DEF Spec

LEMMA LoginInvariance == Spec => []LoginInv
BY InvInit, InvNext, TypedInit, TypedNext, LoginInit, LoginNext, PTL DEF Spec

\* A logout that no other request of the user ran into leaves no token and no device,
\* until the user's next login, whatever other users do meanwhile.
THEOREM LogoutIsComplete == Spec => []LogoutLeavesNothing
<1>1. LoginInv => LogoutLeavesNothing
  BY DEF LoginInv, Gone, NoRow, LogoutLeavesNothing, RowsOf
<1> QED BY <1>1, LoginInvariance, PTL

\* A login that ran alone, and was the last its user and his device did, keeps its token,
\* the only one of the user, and the device, whatever others do.
THEOREM LoneLoginHolds == Spec => []LoneLoginLasts
<1>1. LoginInv => LoneLoginLasts
  <2> SUFFICES ASSUME LoginInv, NEW u \in Ids, current[u] # <<NoToken, NoDevice>>
               PROVE  /\ {r.token : r \in RowsOf(u)} = {current[u][1]}
                      /\ Cardinality(RowsOf(u)) = 1
                      /\ <<u, current[u][2]>> \in fcm
    BY DEF LoneLoginLasts
  <2>1. Stands(u, current[u][1], current[u][2])
    BY DEF LoginInv, Lasts, LoggedInAs
  <2>2. PICK r \in refresh : OnlyRow(u, r) /\ r.token = current[u][1]
    BY <2>1 DEF Stands
  <2>3. RowsOf(u) = {r}
    BY <2>2 DEF OnlyRow, RowsOf
  <2>4. Cardinality(RowsOf(u)) = 1
    BY <2>3, FS_Singleton
  <2> QED BY <2>1, <2>2, <2>3, <2>4 DEF Stands
<1> QED BY <1>1, LoginInvariance, PTL
=============================================================================
