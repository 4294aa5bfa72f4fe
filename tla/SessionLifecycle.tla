--------------------------- MODULE SessionLifecycle ---------------------------
(***************************************************************************)
(* The life of a matching session in matching-sessions-service: the        *)
(* in-memory cache (SessionsCachingService.ts), the management service on  *)
(* top of it (sessionManagementService.ts), the rows both write, and the   *)
(* creation timer.                                                         *)
(*                                                                         *)
(* Node.js runs one callback at a time, so everything a handler does       *)
(* between two awaits is one action; an await of a database call or of an  *)
(* external service lets every other handler run.  A task is one such      *)
(* handler in progress: at[t] names the await it is suspended at.          *)
(***************************************************************************)
EXTENDS SessionRows

CONSTANTS
    Requests,        \* slots for requests in progress: bounds how many overlap
    PatientClients,  \* a user waits for the answer, and repeats no connect or disconnect
    MayFail,         \* awaits whose database transaction may be rolled back with an error
    SizeBound,       \* bound on how far repeated requests drive currentRealSize
    MaxRestarts      \* bound on the crashes explored

DbAwaits == {"markOldSessions", "insertSession", "markFcmFailed", "writeConnected",
             "writeDisconnected", "writeRunning", "writeBroken", "writeMatched"}

ASSUME ConstantsAssumption ==
    /\ None \notin Sessions \cup Users
    /\ Requests \cap Sessions = {}
    /\ PatientClients \in BOOLEAN
    /\ MayFail \subseteq DbAwaits
    /\ SizeBound \in Nat /\ MaxRestarts \in Nat

\* A request runs in a slot of its own; the callback of a session's creation
\* timer runs in the slot named after the session.
Tasks == Requests \cup Sessions

VARIABLES
    cached,        \* keys of the cache's sessions Map
    sessionState,  \* sessionState field of the session object, cached or not
    isConnected,   \* members of the object whose isConnected flag is set
    realSize,      \* currentRealSize of the object
    poisoned,      \* objects cached without members: their FCM tokens were not found
    timer,         \* creationTimeouts entries that have not fired
    at,            \* the await each task is suspended at
    of,            \* the session a task is about
    by,            \* the user whose request it is, for creations and connections
    old,           \* the creator's other sessions that a creation found in progress
    told,          \* kinds of session message given to the web-socket manager
    reload,        \* progress of reloadAllSessions
    stuck,         \* the rows reloadAllSessions selected
    restarts

objects == <<sessionState, isConnected, realSize, poisoned>>
tasks == <<at, of, by, old>>
recovery == <<reload, stuck, restarts>>
vars == <<cached, objects, rows, timer, tasks, told, recovery>>

Awaits == {"idle", "markOldSessions", "insertSession", "fetchFcm", "markFcmFailed",
           "writeConnected", "writeDisconnected",
           "writeRunning", "announceStart", "writeBroken", "announceTermination",
           "evaluateVotes", "storeMatch", "writeMatched"}
Notices == {"SESSION_STARTED", "SESSION_TERMINATED", "MATCHING_RESULT"}

TypeOK ==
    /\ cached \subseteq Sessions
    /\ sessionState \in [Sessions -> LiveStates]
    /\ isConnected \in [Sessions -> SUBSET Users]
    /\ realSize \in [Sessions -> Int]
    /\ poisoned \subseteq Sessions
    /\ roster \in [Sessions -> SUBSET Users]
    /\ creator \in [Sessions -> Users \cup {None}]
    /\ row \in [Sessions -> RowStates]
    /\ rowConnected \in [Sessions -> SUBSET Users]
    /\ timer \subseteq Sessions
    /\ at \in [Tasks -> Awaits]
    /\ of \in [Tasks -> Sessions \cup {None}]
    /\ by \in [Tasks -> Users \cup {None}]
    /\ old \in [Tasks -> SUBSET Sessions]
    /\ told \in [Sessions -> SUBSET Notices]
    /\ reload \in {"select", "mark", "done"}
    /\ stuck \subseteq Sessions
    /\ restarts \in 0..MaxRestarts

Init ==
    /\ cached = {} /\ poisoned = {} /\ timer = {} /\ stuck = {}
    /\ sessionState = [s \in Sessions |-> "CREATED"]
    /\ isConnected = [s \in Sessions |-> {}]
    /\ realSize = [s \in Sessions |-> 0]
    /\ at = [t \in Tasks |-> "idle"]
    /\ of = [t \in Tasks |-> None]
    /\ by = [t \in Tasks |-> None]
    /\ old = [t \in Tasks |-> {}]
    /\ roster = [s \in Sessions |-> {}]
    /\ creator = [s \in Sessions |-> None]
    /\ row = [s \in Sessions |-> "NONE"]
    /\ rowConnected = [s \in Sessions |-> {}]
    /\ told = [s \in Sessions |-> {}]
    /\ reload = "done"
    /\ restarts = 0

-----------------------------------------------------------------------------
MembersOf(s) == IF s \in poisoned THEN {} ELSE roster[s]

Suspended(t, await) == at[t] = await

\* Task t is from now on suspended at await, about session s.
Becomes(t, await, s, u, found) ==
    /\ at' = [at EXCEPT ![t] = await]
    /\ of' = [of EXCEPT ![t] = s]
    /\ by' = [by EXCEPT ![t] = u]
    /\ old' = [old EXCEPT ![t] = found]

Free(t) == t \in Requests /\ at[t] = "idle"
Continues(t, await) == at' = [at EXCEPT ![t] = await] /\ UNCHANGED <<of, by, old>>
Ends(t) == Becomes(t, "idle", None, None, {})

\* Clients that wait do not have two connection requests in progress at once.
Waits(u, s) ==
    PatientClients =>
        \A t \in Tasks : ~ /\ by[t] = u /\ of[t] = s
                           /\ at[t] \in {"writeConnected", "writeDisconnected"}

-----------------------------------------------------------------------------
(* createNewSession and addNewSession                                      *)

\* The request fixes who is invited, others than the creator, as the app has it: no code
\* checks that.  The rows exist once they are inserted.
CreateNewSession(t, u, s, invited) ==
    /\ Unused(s) /\ u \notin invited
    /\ Free(t)
    /\ Becomes(t, IF ActiveSessions(u) = {} THEN "insertSession" ELSE "markOldSessions",
               s, u, ActiveSessions(u))
    /\ creator' = [creator EXCEPT ![s] = u]
    /\ roster' = [roster EXCEPT ![s] = invited \cup {u}]
    /\ UNCHANGED <<cached, objects, row, rowConnected, timer, told, recovery>>

\* The creator's other sessions lose their rows; the cache keeps them.
MarkOldSessions(t) ==
    /\ Suspended(t, "markOldSessions")
    /\ MarkBroken(old[t])
    /\ Continues(t, "insertSession")
    /\ UNCHANGED <<cached, objects, timer, told, recovery>>

InsertSession(t) ==
    /\ Suspended(t, "insertSession")
    /\ InsertNewSession(of[t], by[t])
    /\ Continues(t, "fetchFcm")
    /\ UNCHANGED <<cached, objects, timer, told, recovery>>

\* Mutant: startCreationTimeout is forgotten.
CacheSessionUntimed(t, connected) ==
    LET s == of[t] IN
    /\ cached' = cached \cup {s}
    /\ sessionState' = [sessionState EXCEPT ![s] = "CREATED"]
    /\ isConnected' = [isConnected EXCEPT ![s] = connected]
    /\ realSize' = [realSize EXCEPT ![s] = Cardinality(connected)]
    /\ Ends(t)
    /\ UNCHANGED <<timer, told, recovery>>

\* sessions.set and startCreationTimeout; connected are the members' flags.
CacheSession(t, connected) ==
    LET s == of[t] IN
    /\ cached' = cached \cup {s}
    /\ sessionState' = [sessionState EXCEPT ![s] = "CREATED"]
    /\ isConnected' = [isConnected EXCEPT ![s] = connected]
    /\ realSize' = [realSize EXCEPT ![s] = Cardinality(connected)]
    /\ timer' = timer \cup {s}
    /\ Ends(t)
    /\ UNCHANGED <<told, recovery>>

FcmFetched(t) ==
    /\ Suspended(t, "fetchFcm")
    /\ CacheSession(t, {by[t]})
    /\ UNCHANGED <<poisoned, rows>>

FcmMissing(t) ==
    /\ Suspended(t, "fetchFcm")
    /\ Continues(t, "markFcmFailed")
    /\ UNCHANGED <<cached, objects, rows, timer, told, recovery>>

\* The error is logged and the session is cached all the same, memberless.
CachePoisoned(t) ==
    /\ Suspended(t, "markFcmFailed")
    /\ MarkBroken({of[t]})
    /\ CacheSession(t, {})
    /\ poisoned' = poisoned \cup {of[t]}

-----------------------------------------------------------------------------
(* connectUserToSession and disconnectUserFromSession                      *)

ConnectUser(t, u, s) ==
    /\ s \in cached /\ sessionState[s] = "CREATED" /\ u \in MembersOf(s)
    /\ Waits(u, s) /\ (PatientClients => u \notin isConnected[s])
    /\ realSize[s] < SizeBound
    /\ Free(t) /\ Becomes(t, "writeConnected", s, u, {})
    /\ isConnected' = [isConnected EXCEPT ![s] = @ \cup {u}]
    /\ realSize' = [realSize EXCEPT ![s] = @ + 1]
    /\ UNCHANGED <<cached, sessionState, poisoned, rows, timer, told, recovery>>

\* Mutant: the flag written is the one of a disconnection.
WriteConnectedFalse(t) ==
    /\ Suspended(t, "writeConnected")
    /\ UpdateConnected(of[t], by[t], FALSE)
    /\ Ends(t)
    /\ UNCHANGED <<cached, objects, timer, told, recovery>>

\* What follows the write only notifies the other members.
WriteConnected(t) ==
    /\ Suspended(t, "writeConnected")
    /\ UpdateConnected(of[t], by[t], TRUE)
    /\ Ends(t)
    /\ UNCHANGED <<cached, objects, timer, told, recovery>>

\* Mutant: currentRealSize is not decremented.
DisconnectUserKeepsSize(t, u, s) ==
    /\ s \in cached /\ u \in MembersOf(s)
    /\ Waits(u, s) /\ (PatientClients => u \in isConnected[s])
    /\ Free(t) /\ Becomes(t, "writeDisconnected", s, u, {})
    /\ isConnected' = [isConnected EXCEPT ![s] = @ \ {u}]
    /\ UNCHANGED <<cached, sessionState, realSize, poisoned, rows, timer, told, recovery>>

\* Also what the web-socket server calls when a reconnect times out.
DisconnectUser(t, u, s) ==
    /\ s \in cached /\ u \in MembersOf(s)
    /\ Waits(u, s) /\ (PatientClients => u \in isConnected[s])
    /\ realSize[s] > -SizeBound
    /\ Free(t) /\ Becomes(t, "writeDisconnected", s, u, {})
    /\ isConnected' = [isConnected EXCEPT ![s] = @ \ {u}]
    /\ realSize' = [realSize EXCEPT ![s] = @ - 1]
    /\ UNCHANGED <<cached, sessionState, poisoned, rows, timer, told, recovery>>

\* Mutant: the session stays in the cache until the row is written.
TerminateKeepsCached(t, s) ==
    /\ IF s \in cached THEN Becomes(t, "writeBroken", s, None, {}) ELSE Ends(t)
    /\ UNCHANGED cached

\* The synchronous part of terminateSession: whoever finds the session in the
\* cache takes it out and goes on; the others find nothing to end.
Terminate(t, s) ==
    IF s \in cached
    THEN /\ cached' = cached \ {s}
         /\ Becomes(t, "writeBroken", s, None, {})
    ELSE /\ Ends(t)
         /\ UNCHANGED cached

\* Mutant: one member is enough.
IsEmptyBelowOne(s) == realSize[s] < 1

\* checkSessionIsEmpty: at least two members must be connected.
IsEmpty(s) == realSize[s] <= 1

\* The row is written, then the size is read again: others may have left.
WriteDisconnected(t) ==
    LET s == of[t] IN
    /\ Suspended(t, "writeDisconnected")
    /\ UpdateConnected(s, by[t], FALSE)
    /\ IF s \in cached /\ IsEmpty(s)
       THEN /\ timer' = timer \ {s}
            /\ Terminate(t, s)
       ELSE /\ Ends(t)
            /\ UNCHANGED <<timer, cached>>
    /\ UNCHANGED <<objects, told, recovery>>

-----------------------------------------------------------------------------
(* startSessionRecommendation                                              *)

\* Mutant: startSession is called with its arguments swapped.
StartSessionSwapped(t, u, s) ==
    /\ s \in cached /\ u \in MembersOf(s) /\ u = creator[s]
    /\ Free(t) /\ Becomes(t, "writeRunning", u, None, {})
    /\ UNCHANGED <<cached, objects, rows, timer, told, recovery>>

\* Nothing asks whether the session is still CREATED.
StartSession(t, u, s) ==
    /\ s \in cached /\ u \in MembersOf(s) /\ u = creator[s]
    /\ Free(t) /\ Becomes(t, "writeRunning", s, u, {})
    /\ UNCHANGED <<cached, objects, rows, timer, told, recovery>>

WriteRunning(t) ==
    /\ Suspended(t, "writeRunning")
    /\ UpdateState(of[t], "RUNNING")
    /\ Continues(t, "announceStart")
    /\ UNCHANGED <<cached, objects, timer, told, recovery>>

\* Mutant: the creation timer is not cleared.
AnnounceStartKeepsTimer(t) ==
    LET s == of[t] IN
    /\ Suspended(t, "announceStart")
    /\ sessionState' = [sessionState EXCEPT ![s] = "RUNNING"]
    /\ told' = [told EXCEPT ![s] = @ \cup {"SESSION_STARTED"}]
    /\ Ends(t)
    /\ UNCHANGED <<cached, isConnected, realSize, poisoned, rows, timer, recovery>>

\* Mutant: only the row is set to RUNNING.
AnnounceStartOnly(t) ==
    LET s == of[t] IN
    /\ Suspended(t, "announceStart")
    /\ told' = [told EXCEPT ![s] = @ \cup {"SESSION_STARTED"}]
    /\ timer' = timer \ {s}
    /\ Ends(t)
    /\ UNCHANGED <<cached, objects, rows, recovery>>

\* The handler still holds the session object, which may have left the cache.
AnnounceStart(t) ==
    LET s == of[t] IN
    /\ Suspended(t, "announceStart")
    /\ sessionState' = [sessionState EXCEPT ![s] = "RUNNING"]
    /\ told' = [told EXCEPT ![s] = @ \cup {"SESSION_STARTED"}]
    /\ timer' = timer \ {s}
    /\ Ends(t)
    /\ UNCHANGED <<cached, isConnected, realSize, poisoned, rows, recovery>>

-----------------------------------------------------------------------------
(* terminateSession: by a request, by the creation timer                   *)

TerminateSession(t, s) ==
    /\ Free(t) /\ s \in cached
    /\ Terminate(t, s)
    /\ UNCHANGED <<objects, rows, timer, told, recovery>>

CreationTimeout(s) ==
    /\ s \in timer /\ at[s] = "idle"
    /\ timer' = timer \ {s}
    /\ Terminate(s, s)
    /\ UNCHANGED <<objects, rows, told, recovery>>

WriteBroken(t) ==
    /\ Suspended(t, "writeBroken")
    /\ MarkBroken({of[t]})
    /\ Continues(t, "announceTermination")
    /\ UNCHANGED <<cached, objects, timer, told, recovery>>

\* A memberless session makes the broadcast throw, before the timers are cleared.
AnnounceTermination(t) ==
    LET s == of[t] IN
    /\ Suspended(t, "announceTermination")
    /\ IF s \in poisoned
       THEN UNCHANGED <<told, timer>>
       ELSE /\ told' = [told EXCEPT ![s] = @ \cup {"SESSION_TERMINATED"}]
            /\ timer' = timer \ {s}
    /\ Ends(t)
    /\ UNCHANGED <<cached, objects, rows, recovery>>

-----------------------------------------------------------------------------
(* handleUserFinishedDeckVoting, as far as it ends sessions                *)

Vote(t, s) ==
    /\ s \in cached /\ s \notin poisoned
    /\ Free(t) /\ Becomes(t, "evaluateVotes", s, None, {})
    /\ UNCHANGED <<cached, objects, rows, timer, told, recovery>>

\* The vote was not the last of the round, or the round ended without a match.
NoMatch(t) ==
    /\ Suspended(t, "evaluateVotes")
    /\ Ends(t)
    /\ UNCHANGED <<cached, objects, rows, timer, told, recovery>>

\* The result is broadcast first; the chat message and the items are stored next.
Match(t) ==
    /\ Suspended(t, "evaluateVotes")
    /\ told' = [told EXCEPT ![of[t]] = @ \cup {"MATCHING_RESULT"}]
    /\ Continues(t, "storeMatch")
    /\ UNCHANGED <<cached, objects, rows, timer, recovery>>

\* endSessionWithMatch; finding no session is an error that handleVotingFailure
\* answers by terminating what is no longer there.
EndSessionWithMatch(t) ==
    LET s == of[t] IN
    /\ Suspended(t, "storeMatch")
    /\ cached' = cached \ {s}
    /\ IF s \in cached THEN Continues(t, "writeMatched") ELSE Ends(t)
    /\ UNCHANGED <<objects, rows, timer, told, recovery>>

WriteMatched(t) ==
    /\ Suspended(t, "writeMatched")
    /\ UpdateState(of[t], "MATCHED")
    /\ Ends(t)
    /\ UNCHANGED <<cached, objects, timer, told, recovery>>

\* handleVotingFailure: the recommender or the database failed.
VotingFails(t) ==
    /\ at[t] \in {"evaluateVotes", "storeMatch"}
    /\ Terminate(t, of[t])
    /\ UNCHANGED <<objects, rows, timer, told, recovery>>

-----------------------------------------------------------------------------
(* Failures                                                                *)

\* The awaited transaction is rolled back and the handler throws.
DbFails(t) ==
    /\ at[t] \in MayFail
    /\ Ends(t)
    /\ UNCHANGED <<cached, objects, rows, timer, told, recovery>>

\* The process dies with its cache, its timers and every handler, and is started
\* again; loading the module calls reloadAllSessions and awaits nothing.
Restart ==
    /\ restarts < MaxRestarts
    /\ restarts' = restarts + 1
    /\ cached' = {} /\ poisoned' = {} /\ timer' = {} /\ stuck' = {}
    /\ sessionState' = [s \in Sessions |-> "CREATED"]
    /\ isConnected' = [s \in Sessions |-> {}]
    /\ realSize' = [s \in Sessions |-> 0]
    /\ at' = [t \in Tasks |-> "idle"]
    /\ of' = [t \in Tasks |-> None]
    /\ by' = [t \in Tasks |-> None]
    /\ old' = [t \in Tasks |-> {}]
    /\ reload' = "select"
    /\ UNCHANGED <<rows, told>>

\* Mutant: running sessions are not among the states selected.
SelectStuckCreated ==
    /\ reload = "select"
    /\ stuck' = SessionsByState({"CREATED"})
    /\ reload' = "mark"
    /\ UNCHANGED <<cached, objects, rows, timer, tasks, told, restarts>>

SelectStuck ==
    /\ reload = "select"
    /\ stuck' = SessionsByState(LiveStates)
    /\ reload' = "mark"
    /\ UNCHANGED <<cached, objects, rows, timer, tasks, told, restarts>>

MarkStuck ==
    /\ reload = "mark"
    /\ MarkBroken(stuck)
    /\ reload' = "done"
    /\ stuck' = {}
    /\ UNCHANGED <<cached, objects, timer, tasks, told, restarts>>

-----------------------------------------------------------------------------
Handler(t) ==
    \/ MarkOldSessions(t) \/ InsertSession(t) \/ FcmFetched(t) \/ FcmMissing(t)
    \/ CachePoisoned(t) \/ WriteConnected(t) \/ WriteDisconnected(t)
    \/ WriteRunning(t) \/ AnnounceStart(t)
    \/ WriteBroken(t) \/ AnnounceTermination(t)
    \/ NoMatch(t) \/ Match(t) \/ EndSessionWithMatch(t) \/ WriteMatched(t)

Request(t, u, s) ==
    \/ \E invited \in SUBSET Users : CreateNewSession(t, u, s, invited)
    \/ ConnectUser(t, u, s) \/ DisconnectUser(t, u, s) \/ StartSession(t, u, s)

Next ==
    \/ \E t \in Tasks : Handler(t) \/ VotingFails(t) \/ DbFails(t)
    \/ \E t \in Requests, s \in Sessions :
          \/ TerminateSession(t, s) \/ Vote(t, s)
          \/ \E u \in Users : Request(t, u, s)
    \/ \E s \in Sessions : CreationTimeout(s)
    \/ Restart \/ SelectStuck \/ MarkStuck

Spec == Init /\ [][Next]_vars

\* Node's event loop runs every resolved promise and every due timer; awaited
\* calls return.  Requests, restarts and failures may never come.
Fairness ==
    /\ \A t \in Tasks : WF_vars(Handler(t))
    /\ \A s \in Sessions : WF_vars(CreationTimeout(s))
    /\ WF_vars(SelectStuck) /\ WF_vars(MarkStuck)

FairSpec == Spec /\ Fairness

-----------------------------------------------------------------------------
EndingAwaits == {"writeBroken", "announceTermination", "writeMatched"}
Enders(s) == {t \in Tasks : of[t] = s /\ at[t] \in EndingAwaits}
Starting(s) == \E t \in Tasks : of[t] = s /\ at[t] \in {"writeRunning", "announceStart"}

\* Whoever takes a session out of the cache is the only one to end it: requests,
\* the creation timer, an emptied session, a failed vote and a match never end
\* the same session twice, and a session being ended is no longer in the cache.  None is
\* recorded as matched and announced as terminated, whichever comes first.
EndedOnce ==
    \A s \in Sessions :
        /\ \A t1, t2 \in Enders(s) : t1 = t2
        /\ s \in cached => Enders(s) = {} /\ "SESSION_TERMINATED" \notin told[s]
        /\ ~(row[s] = "MATCHED" /\ "SESSION_TERMINATED" \in told[s])

\* The creation timer runs exactly as long as a cached session waits to be
\* started: no waiting session is left without one, no running one is killed by it.
CreationTimerArmed ==
    \A s \in cached : s \in timer <=> sessionState[s] = "CREATED"

\* Unless it is just being started, a cached session's row says what the cache
\* says, or BROKEN: by createNewSession of a member, by the FCM failure or by
\* the reload.  It never says RUNNING of a session the cache has as CREATED.
RowFollowsCache ==
    \A s \in cached : Starting(s) \/ row[s] \in {sessionState[s], "BROKEN"}

\* currentRealSize counts the members connected (for clients that wait).
SizeCountsConnected ==
    \A s \in cached : realSize[s] = Cardinality(isConnected[s])

\* With nothing in flight for a session the rows of its members agree with the
\* cache on who is connected (for clients that wait, and no database failure).
RowsAgreeOnConnected ==
    \A s \in cached \ poisoned :
        \/ \E t \in Tasks : of[t] = s /\ at[t] \in {"writeConnected", "writeDisconnected"}
        \/ rowConnected[s] = isConnected[s]

\* checkSessionIsEmpty, "at least two members must be connected": a session that
\* a member's leaving does not end has two members left.
TwoMembersRemain ==
    [][\A t \in Tasks :
          WriteDisconnected(t) /\ of[t] \in cached' => Cardinality(isConnected[of[t]]) >= 2]_vars

\* The cache refines SessionLife: no session is opened twice, reverts to CREATED
\* or comes back once it is over, and none waits for ever to be started.
Creating(s) ==
    \E t \in Tasks : /\ of[t] = s
                     /\ at[t] \in {"markOldSessions", "insertSession", "fetchFcm", "markFcmFailed"}

phase == [s \in Sessions |->
            IF s \in cached THEN sessionState[s]
            ELSE IF row[s] = "NONE" \/ Creating(s) THEN "none" ELSE "over"]

Life == INSTANCE SessionLife
LivesOnce == Life!FairSpec

\* Rows left in progress by a crash are recovered after the restart.
StuckRowsRecovered ==
    \A s \in Sessions : (reload = "select" /\ row[s] \in LiveStates) ~> row[s] \notin LiveStates
=============================================================================
