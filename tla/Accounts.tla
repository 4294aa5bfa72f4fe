------------------------------- MODULE Accounts -------------------------------
(***************************************************************************)
(* Accounts, logins and their tokens in the account service: registration  *)
(* and the mail that verifies it, login, logout and removal.  Requests run *)
(* concurrently; an action is what one request does from one database      *)
(* transaction to the next.  A transaction is atomic: rows it would write  *)
(* twice violate a unique index and fail, which any step may do anyway.    *)
(***************************************************************************)
EXTENDS UserTable

CONSTANTS
    Devices,        \* devices, each with its FCM token
    AccountTasks,   \* requests the service handles at a time
    RowIds,         \* bound: primary keys of users_refresh_tokens, naturals
    MaxSecond,      \* bound on the clock: tokens differ by user and second
    NoDevice, NoToken

ASSUME AccountsAssumption ==
    RowIds \subseteq Nat \ {0} /\ MaxSecond \in Nat

VARIABLES
    fresh,       \* primary keys not given yet
    verified,    \* users_credentials.is_verified
    letters,     \* users with a row in email_verification_tokens
    mailed,      \* users whose verification mail was sent
    refresh,     \* users_refresh_tokens
    fcm,         \* users_fcm: pairs of a user and a device
    authorized,  \* users who got an access token
    second,      \* the clock, as far as refresh tokens show it
    task,        \* where each request is
    current,     \* history: the login that was the last thing a user did, if any
    loggedOut    \* history: users whose last request was a logout

accountTables == <<fresh, verified, letters, refresh, fcm>>
accountVars == <<users, accountTables, mailed, authorized, second, task, current, loggedOut>>

Tokens == Ids \X (0..MaxSecond)
Rows == [id : RowIds, user : Ids, token : Tokens]

Idle == [at |-> "idle"]
LoginTasks ==
    [at : {"storeFcm"}, user : Ids, device : Devices, alone : BOOLEAN]
    \cup [at : {"findRow", "insertRow"}, user : Ids, device : Devices, alone : BOOLEAN,
          token : Tokens]
    \cup [at : {"updateRow"}, user : Ids, device : Devices, alone : BOOLEAN,
          token : Tokens, row : RowIds]
LogoutTasks == [at : {"dropTokens", "dropFcm"}, user : Ids, alone : BOOLEAN]
OtherTasks == [at : {"remove", "sendMail", "setVerified", "dropLetter"}, user : Ids]
Tasks == {Idle} \cup LoginTasks \cup LogoutTasks \cup OtherTasks

AccountsTypeOK ==
    /\ users \in UserTables /\ fresh \subseteq Ids \ Known
    /\ verified \subseteq Known /\ letters \subseteq Known
    /\ mailed \subseteq Ids /\ authorized \subseteq Ids /\ loggedOut \subseteq Ids
    /\ refresh \subseteq Rows /\ \A r, s \in refresh : r.id = s.id => r = s
    /\ fcm \subseteq Ids \X Devices
    /\ \A p, q \in fcm : (p[1] = q[1] \/ p[2] = q[2]) => p = q
    /\ second \in 0..MaxSecond
    /\ task \in [AccountTasks -> Tasks]
    /\ current \in [Ids -> Tokens \X Devices \cup {<<NoToken, NoDevice>>}]

AccountsInit ==
    /\ fresh = Ids \ Known /\ verified = Known /\ letters = {} /\ mailed = {}
    /\ refresh = {} /\ fcm = {} /\ authorized = Known /\ second = 0
    /\ task = [t \in AccountTasks |-> Idle]
    /\ current = [u \in Ids |-> <<NoToken, NoDevice>>] /\ loggedOut = {}

-----------------------------------------------------------------------------
(* History: which requests of a user ran while no other of his did. *)

Busy(t) == task[t].at # "idle"
Touches(t, u, d) ==
    /\ Busy(t)
    /\ task[t].user = u \/ ("device" \in DOMAIN task[t] /\ task[t].device = d)
Undisturbed(u, d) == \A t \in AccountTasks : ~Touches(t, u, d)

Disturbed(u, d) ==
    [t \in AccountTasks |->
        IF Touches(t, u, d) /\ "alone" \in DOMAIN task[t]
        THEN [task[t] EXCEPT !.alone = FALSE] ELSE task[t]]
Begin(t, u, d, entry) ==
    /\ task' = [Disturbed(u, d) EXCEPT ![t] = entry]
    /\ current' = [v \in Ids |-> IF v = u \/ current[v][2] = d
                                 THEN <<NoToken, NoDevice>> ELSE current[v]]
    /\ loggedOut' = loggedOut \ {u}

At(t, place) == task[t].at = place
GoTo(t, entry) == task' = [task EXCEPT ![t] = entry]
Answer(t) == GoTo(t, Idle)

-----------------------------------------------------------------------------
(* Registration and verification. *)

InsertEmailVerificationToken(u) == letters' = letters \cup {u}

\* One transaction inserts the user, the credentials, which are not verified, and
\* the verification token.
CreateNewUserWithCredentials(u, e) ==
    /\ users' = [v \in Known \cup {u} |-> IF v = u THEN e ELSE users[v]]
    /\ fresh' = fresh \ {u}
    /\ InsertEmailVerificationToken(u) /\ UNCHANGED verified

\* A taken e-mail is answered by ALREADY_EXIST, however old and unverified its row.
\* (Without BYPASS_EMAIL_VERIFICATION, which leaves the mail out.)
CreateUser(t, e) ==
    /\ task[t] = Idle /\ ~Taken(e)
    /\ \E u \in fresh :
          /\ CreateNewUserWithCredentials(u, e)
          /\ GoTo(t, [at |-> "sendMail", user |-> u])
    /\ UNCHANGED <<mailed, refresh, fcm, authorized, second, current, loggedOut>>

SendVerificationEmail(t) ==
    /\ At(t, "sendMail") /\ Answer(t)
    /\ mailed' = mailed \cup {task[t].user}
    /\ UNCHANGED <<users, accountTables, authorized, second, current, loggedOut>>

\* A link is good while its hash is stored.
EmailVerificationTokens == mailed \cap letters

\* The link of the mail is opened, maybe too late.
OpenLink(t, u) ==
    /\ task[t] = Idle /\ u \in EmailVerificationTokens
    /\ \E place \in {"setVerified", "dropLetter"} : GoTo(t, [at |-> place, user |-> u])
    /\ UNCHANGED <<users, accountTables, mailed, authorized, second, current, loggedOut>>

SetVerified(u) == verified' = verified \cup ({u} \cap Known)

\* A failing update is swallowed.
UpdateUserVerification(t) ==
    /\ At(t, "setVerified")
    /\ SetVerified(task[t].user) \/ UNCHANGED verified
    /\ GoTo(t, [task[t] EXCEPT !.at = "dropLetter"])
    /\ UNCHANGED <<users, fresh, letters, refresh, fcm, mailed, authorized, second,
                   current, loggedOut>>

DeleteEmailVerificationToken(t) ==
    /\ At(t, "dropLetter") /\ Answer(t)
    /\ letters' = letters \ {task[t].user}
    /\ UNCHANGED <<users, fresh, verified, refresh, fcm, mailed, authorized, second,
                   current, loggedOut>>

-----------------------------------------------------------------------------
(* Login. *)

RowsOf(u) == {r \in refresh : r.user = u}
UnusedRows ==
    {i \in RowIds : /\ \A r \in refresh : r.id # i
                    /\ \A t \in AccountTasks : At(t, "updateRow") => task[t].row # i}
UnusedRow == CHOOSE i \in UnusedRows : TRUE

SearchUserByEmail(e) == {u \in Known : users[u] = e}

\* The user is known, verified and gave the password; other answers change nothing.
LoginUserAccount(t, e, d) ==
    /\ task[t] = Idle
    /\ \E u \in SearchUserByEmail(e) \cap verified :
          Begin(t, u, d, [at |-> "storeFcm", user |-> u, device |-> d,
                          alone |-> Undisturbed(u, d)])
    /\ UNCHANGED <<users, accountTables, mailed, authorized, second>>

\* Mutant: a token another account left on the device stays.
FcmAfterOfUser(u, d) == {p \in fcm : p[1] # u} \cup {<<u, d>>}

\* The records of the device and of the user are deleted, and the new one inserted.
FcmAfter(u, d) == {p \in fcm : p[1] # u /\ p[2] # d} \cup {<<u, d>>}

\* The refresh token is made when the transaction is done; no foreign key is broken.
HandleFCMOnLogin(t) ==
    LET u == task[t].user
        d == task[t].device
    IN  /\ At(t, "storeFcm") /\ u \in Known
        /\ fcm' = FcmAfter(u, d)
        /\ GoTo(t, [at |-> "findRow", user |-> u, device |-> d, alone |-> task[t].alone,
                    token |-> <<u, second>>])
        /\ UNCHANGED <<users, fresh, verified, letters, refresh, mailed, authorized, second,
                       current, loggedOut>>

\* More than one row is an error; the login fails then, here and whenever it is tried again.
TryGetRefreshTokenRecordId(t) ==
    /\ At(t, "findRow")
    /\ \/ RowsOf(task[t].user) = {} /\ GoTo(t, [task[t] EXCEPT !.at = "insertRow"])
       \/ \E r \in refresh :
             /\ RowsOf(task[t].user) = {r}
             /\ GoTo(t, [at |-> "updateRow", user |-> task[t].user, device |-> task[t].device,
                         alone |-> task[t].alone, token |-> task[t].token, row |-> r.id])
    /\ UNCHANGED <<users, accountTables, mailed, authorized, second, current, loggedOut>>

\* The answer holds both tokens, unless the user's picture cannot be looked up.
LoggedIn(t) ==
    /\ Answer(t)
    /\ \/ /\ authorized' = authorized \cup {task[t].user}
          /\ current' = IF task[t].alone
                        THEN [current EXCEPT ![task[t].user] = <<task[t].token, task[t].device>>]
                        ELSE current
       \/ UNCHANGED <<authorized, current>>
    /\ UNCHANGED <<users, fresh, verified, letters, fcm, mailed, second, loggedOut>>

InsertNewRefreshToken(t) ==
    /\ At(t, "insertRow") /\ task[t].user \in Known /\ UnusedRows # {}
    /\ refresh' = refresh \cup {[id |-> UnusedRow, user |-> task[t].user,
                                 token |-> task[t].token]}
    /\ LoggedIn(t)

\* Mutant: only a token of the same second is replaced.
UpdatedOfSecond(row, token) ==
    {IF r.id = row /\ r.token[2] = second THEN [r EXCEPT !.token = token] ELSE r : r \in refresh}

\* A row that was deleted in the meantime is not written: the token is unknown then.
Updated(row, token) ==
    {IF r.id = row THEN [r EXCEPT !.token = token] ELSE r : r \in refresh}

UpdateCurrentRefreshToken(t) ==
    /\ At(t, "updateRow")
    /\ refresh' = Updated(task[t].row, task[t].token)
    /\ LoggedIn(t)

-----------------------------------------------------------------------------
(* Logout and removal. *)

LogoutUserFromSession(t, u) ==
    /\ task[t] = Idle /\ u \in authorized \cap Known
    /\ Begin(t, u, NoDevice, [at |-> "dropTokens", user |-> u,
                              alone |-> Undisturbed(u, NoDevice)])
    /\ UNCHANGED <<users, accountTables, mailed, authorized, second>>

\* Mutant: one row is deleted, the one a login would update.
TokensDroppedOne(u) ==
    IF RowsOf(u) = {} THEN refresh ELSE refresh \ {CHOOSE r \in RowsOf(u) : TRUE}

TokensDropped(u) == refresh \ RowsOf(u)

DeleteRefreshTokenByUserId(t) ==
    /\ At(t, "dropTokens")
    /\ refresh' = TokensDropped(task[t].user)
    /\ GoTo(t, [task[t] EXCEPT !.at = "dropFcm"])
    /\ UNCHANGED <<users, fresh, verified, letters, fcm, mailed, authorized, second,
                   current, loggedOut>>

DeleteFcmRecordByUserId(t) ==
    /\ At(t, "dropFcm") /\ Answer(t)
    /\ fcm' = {p \in fcm : p[1] # task[t].user}
    /\ loggedOut' = IF task[t].alone THEN loggedOut \cup {task[t].user} ELSE loggedOut
    /\ UNCHANGED <<users, fresh, verified, letters, refresh, mailed, authorized, second,
                   current>>

DeleteAllRefreshTokens == refresh' = {}
DeleteAllFCMTokens == fcm' = {}

\* One transaction empties both tables.
DeleteAllUsersLoginSessionInfo == DeleteAllRefreshTokens /\ DeleteAllFCMTokens

\* An administrator's request.
LogoutAllUsers ==
    /\ refresh # {} \/ fcm # {}
    /\ DeleteAllUsersLoginSessionInfo
    /\ current' = [u \in Ids |-> <<NoToken, NoDevice>>]
    /\ task' = [t \in AccountTasks |-> IF "alone" \in DOMAIN task[t]
                                       THEN [task[t] EXCEPT !.alone = FALSE] ELSE task[t]]
    /\ UNCHANGED <<users, fresh, verified, letters, mailed, authorized, second, loggedOut>>

RemoveUserAccount(t, u) ==
    /\ task[t] = Idle /\ u \in authorized \cap Known
    /\ Begin(t, u, NoDevice, [at |-> "remove", user |-> u])
    /\ UNCHANGED <<users, accountTables, mailed, authorized, second>>

\* Every table that refers to users deletes with it.
DeleteUserAccount(t) ==
    LET u == task[t].user
    IN  /\ At(t, "remove") /\ Answer(t)
        /\ users' = [v \in Known \ {u} |-> users[v]]
        /\ verified' = verified \ {u} /\ letters' = letters \ {u}
        /\ refresh' = refresh \ RowsOf(u)
        /\ fcm' = {p \in fcm : p[1] # u}
        /\ UNCHANGED <<fresh, mailed, authorized, second, current, loggedOut>>

-----------------------------------------------------------------------------
\* A login, a registration or a verification that fails is answered as it got.
Fail(t) ==
    /\ task[t].at \notin {"idle", "dropTokens", "dropFcm", "remove"}
    /\ Answer(t)
    /\ UNCHANGED <<users, accountTables, mailed, authorized, second, current, loggedOut>>

\* logoutUser and removeUser catch nothing: a failure there is an unhandled rejection,
\* with which the process ends, and every request with it.
FailUnhandled ==
    /\ \E t \in AccountTasks : task[t].at \in {"dropTokens", "dropFcm", "remove"}
    /\ task' = [t \in AccountTasks |-> Idle]
    /\ UNCHANGED <<users, accountTables, mailed, authorized, second, current, loggedOut>>

\* Access tokens expire, after some minutes, and a refresh token that is stored, in
\* one row, gets a new one.
ExpireAccessToken(u) ==
    /\ u \in authorized /\ authorized' = authorized \ {u}
    /\ UNCHANGED <<users, accountTables, mailed, second, task, current, loggedOut>>

\* Two rows with the token are an error.
Recognized(token) == \E r \in refresh : {s \in refresh : s.token = token} = {r}

RegenerateAccessToken(u) ==
    /\ u \notin authorized
    /\ \E r \in RowsOf(u) : Recognized(r.token)
    /\ authorized' = authorized \cup {u}
    /\ UNCHANGED <<users, accountTables, mailed, second, task, current, loggedOut>>

Tick ==
    /\ second < MaxSecond /\ second' = second + 1
    /\ UNCHANGED <<users, accountTables, mailed, authorized, task, current, loggedOut>>

AccountBegin(t) ==
    \/ \E e \in Emails : CreateUser(t, e) \/ \E d \in Devices : LoginUserAccount(t, e, d)
    \/ \E u \in Ids : OpenLink(t, u) \/ LogoutUserFromSession(t, u) \/ RemoveUserAccount(t, u)

AccountStep(t) ==
    \/ SendVerificationEmail(t) \/ UpdateUserVerification(t) \/ DeleteEmailVerificationToken(t)
    \/ HandleFCMOnLogin(t) \/ TryGetRefreshTokenRecordId(t)
    \/ InsertNewRefreshToken(t) \/ UpdateCurrentRefreshToken(t)
    \/ DeleteRefreshTokenByUserId(t) \/ DeleteFcmRecordByUserId(t)
    \/ Fail(t)

-----------------------------------------------------------------------------
\* A logout no other request of the user ran into leaves neither a refresh token
\* nor a device to notify behind, until the user logs in again.
LogoutLeavesNothing ==
    \A u \in loggedOut : RowsOf(u) = {} /\ \A p \in fcm : p[1] # u

\* A login with nothing else of its user or device going on, which nothing followed,
\* lasts: its token is the user's only one, and the device the one notified.
LoneLoginLasts ==
    \A u \in Ids :
        current[u] # <<NoToken, NoDevice>>
            => /\ {r.token : r \in RowsOf(u)} = {current[u][1]}
               /\ Cardinality(RowsOf(u)) = 1
               /\ <<u, current[u][2]>> \in fcm
=============================================================================
