----------------------- MODULE SessionLifecycle_proofs -----------------------
(* Type correctness and the safety invariants of SessionLifecycle, proved   *)
(* for every number of sessions, users, overlapping requests and restarts.  *)
EXTENDS SessionLifecycle, FiniteSetTheorems, TLAPS

\* A handler at work has a session, and a user where it writes one.
WorkingInv ==
    \A t \in Tasks :
        /\ at[t] # "idle" => of[t] \in Sessions
        /\ at[t] \in {"markOldSessions", "insertSession", "fetchFcm", "markFcmFailed",
                     "writeConnected", "writeDisconnected"} => by[t] \in Users

Typed == TypeOK /\ WorkingInv

CreatingAwaits == {"markOldSessions", "insertSession", "fetchFcm", "markFcmFailed"}

\* A session being created is nobody else's business yet.
CreatingInv ==
    \A t \in Tasks : at[t] \in CreatingAwaits =>
        /\ of[t] \notin cached
        /\ told[of[t]] = {}
        /\ row[of[t]] \in IF at[t] \in {"markOldSessions", "insertSession"}
                             THEN {"NONE"} ELSE {"CREATED", "BROKEN"}
        /\ \A t2 \in Tasks : of[t2] = of[t] => t2 = t

\* A session no request has claimed has left no trace.
UnusedInv ==
    \A s \in Sessions : creator[s] = None =>
        /\ row[s] = "NONE" /\ s \notin cached /\ told[s] = {}
        /\ \A t \in Tasks : of[t] # s

\* Whoever ends a session took it out of the cache, and is alone.
EndingInv ==
    \A t \in Tasks : at[t] \in EndingAwaits =>
        /\ of[t] \notin cached
        /\ "SESSION_TERMINATED" \notin told[of[t]]
        /\ row[of[t]] # "MATCHED"
        /\ \A t2 \in Tasks : at[t2] \in EndingAwaits /\ of[t2] = of[t] => t2 = t

\* A session whose end was recorded or announced is out of the cache.
OverInv ==
    \A s \in Sessions :
        /\ s \in cached => row[s] # "MATCHED" /\ "SESSION_TERMINATED" \notin told[s]
        /\ ~(row[s] = "MATCHED" /\ "SESSION_TERMINATED" \in told[s])

\* Only rows that exist are ever selected to be marked.
SelectedInv ==
    /\ \A t \in Tasks : \A s \in old[t] : row[s] # "NONE"
    /\ \A s \in stuck : row[s] # "NONE"

\* A row that runs ahead of the cache belongs to a start about to be announced.
StartInv ==
    /\ \A s \in cached : \/ row[s] \in {sessionState[s], "BROKEN"}
                         \/ \E t \in Tasks : of[t] = s /\ at[t] = "announceStart"
    /\ \A t \in Tasks : at[t] = "announceStart" /\ of[t] \in cached =>
                            row[of[t]] \in {"RUNNING", "BROKEN"}

Safe ==
    /\ CreatingInv /\ UnusedInv /\ EndingInv /\ OverInv
    /\ SelectedInv /\ StartInv
    /\ CreationTimerArmed

\* The inductive invariant.
IInv == Typed /\ Safe

-----------------------------------------------------------------------------
\* The number of connected members a session is cached with.
LEMMA FewConnected == Cardinality({}) = 0 /\ \A u : Cardinality({u}) = 1
  BY FS_Singleton, FS_EmptySet, Zenon

LEMMA UpdateTyped ==
    ASSUME NEW S, NEW f \in [S -> Int], NEW x, NEW n \in Int
    PROVE  [f EXCEPT ![x] = n] \in [S -> Int]
  OBVIOUS

USE DEF SessionsByState, UpdateStates, MarkBroken, UpdateState, InsertSessionRow,
        InsertSessionUsers, InsertNewSession, UpdateConnected

LEMMA TypedInit == Init => Typed
  BY ConstantsAssumption DEF Init, Typed, TypeOK, WorkingInv, Awaits, LiveStates, RowStates, Tasks

LEMMA TypedStep == Typed /\ [Next]_vars => Typed'
<1> SUFFICES ASSUME Typed, [Next]_vars PROVE Typed'
  OBVIOUS
<1> USE DEF Typed, TypeOK, WorkingInv, objects, rows, tasks, recovery
<1>t. Requests \subseteq Tasks /\ Sessions \subseteq Tasks
  BY DEF Tasks
<1>1. ASSUME NEW t \in Tasks, Handler(t) PROVE Typed'
  <2> USE DEF Suspended, Becomes, Continues, Ends, Awaits, RowStates, LiveStates, Notices
  <2>1. CASE MarkOldSessions(t)
    BY <2>1 DEF MarkOldSessions
  <2>2. CASE InsertSession(t)
    BY <2>2 DEF InsertSession
  <2>3. CASE FcmFetched(t)
    <3> DEFINE s == of[t]
    <3>1. s \in Sessions /\ by[t] \in Users
      BY <2>3 DEF FcmFetched
    <3>2. cached' \subseteq Sessions /\ timer' \subseteq Sessions
      BY <2>3, <3>1 DEF FcmFetched, CacheSession
    <3>3. /\ sessionState' \in [Sessions -> LiveStates]
          /\ isConnected' \in [Sessions -> SUBSET Users]
      BY <2>3, <3>1 DEF FcmFetched, CacheSession
    <3>4. realSize' \in [Sessions -> Int]
      <4>1. realSize' = [realSize EXCEPT ![s] = 1]
        BY <2>3, FewConnected, Zenon DEF FcmFetched, CacheSession
      <4>2. realSize \in [Sessions -> Int]
        BY DEF Typed, TypeOK
      <4> QED
        BY <4>1, <4>2, UpdateTyped
    <3> QED
      BY <2>3, <3>2, <3>3, <3>4 DEF FcmFetched, CacheSession
  <2>4. CASE FcmMissing(t)
    BY <2>4 DEF FcmMissing
  <2>5. CASE CachePoisoned(t)
    BY <2>5, FewConnected DEF CacheSession, CachePoisoned
  <2>6. CASE WriteConnected(t)
    BY <2>6 DEF WriteConnected
  <2>7. CASE WriteDisconnected(t)
    BY <2>7 DEF Terminate, WriteDisconnected
  <2>8. CASE WriteRunning(t)
    BY <2>8 DEF WriteRunning
  <2>9. CASE AnnounceStart(t)
    BY <2>9 DEF AnnounceStart
  <2>10. CASE WriteBroken(t)
    BY <2>10 DEF WriteBroken
  <2>11. CASE AnnounceTermination(t)
    BY <2>11 DEF AnnounceTermination
  <2>12. CASE NoMatch(t)
    BY <2>12 DEF NoMatch
  <2>13. CASE Match(t)
    BY <2>13 DEF Match
  <2>14. CASE EndSessionWithMatch(t)
    BY <2>14 DEF EndSessionWithMatch
  <2>15. CASE WriteMatched(t)
    BY <2>15 DEF WriteMatched
  <2> QED
    BY <1>1, <2>1, <2>2, <2>3, <2>4, <2>5, <2>6, <2>7, <2>8, <2>9, <2>10, <2>11, <2>12, <2>13, <2>14, <2>15 DEF Handler
<1>2. ASSUME NEW t \in Tasks, VotingFails(t) \/ DbFails(t) PROVE Typed'
  BY <1>2 DEF VotingFails, DbFails, Terminate, Becomes, Ends, Awaits
<1>3. ASSUME NEW t \in Requests, NEW s \in Sessions, TerminateSession(t, s) \/ Vote(t, s)
      PROVE Typed'
  <2>1. CASE TerminateSession(t, s)
    <3>1. t \in Tasks
      BY <1>t
    <3> QED
      BY <2>1, <3>1, SMTT(90) DEF TerminateSession, Terminate, Becomes, Ends, Awaits
  <2>2. CASE Vote(t, s)
    BY <2>2, <1>t DEF Vote, Becomes, Awaits
  <2> QED
    BY <1>3, <2>1, <2>2
<1>4. ASSUME NEW t \in Requests, NEW s \in Sessions, NEW u \in Users, Request(t, u, s)
      PROVE Typed'
  <2> USE DEF Becomes, Awaits
  <2>1. ASSUME NEW invited \in SUBSET Users, CreateNewSession(t, u, s, invited)
        PROVE Typed'
    BY <2>1, <1>t DEF CreateNewSession, ActiveSessions
  <2>2. CASE ConnectUser(t, u, s)
    BY <2>2, <1>t DEF ConnectUser
  <2>3. CASE DisconnectUser(t, u, s)
    BY <2>3, <1>t DEF DisconnectUser
  <2>4. CASE StartSession(t, u, s)
    BY <2>4, <1>t DEF StartSession
  <2> QED
    BY <1>4, <2>1, <2>2, <2>3, <2>4 DEF Request
<1>5. ASSUME NEW s \in Sessions, CreationTimeout(s) PROVE Typed'
  <2>1. s \in Tasks
    BY <1>t
  <2> QED
    BY <1>5, <2>1, SMTT(90) DEF CreationTimeout, Terminate, Becomes, Ends, Awaits
<1>6. CASE Restart
  BY <1>6, ConstantsAssumption DEF Restart, Awaits, LiveStates
<1>7. CASE SelectStuck
  BY <1>7 DEF SelectStuck
<1>8. CASE MarkStuck
  BY <1>8 DEF MarkStuck, RowStates
<1>9. CASE UNCHANGED vars
  BY <1>9 DEF vars
<1> QED
  BY <1>1, <1>2, <1>3, <1>4, <1>5, <1>6, <1>7, <1>8, <1>9 DEF Next

\* Every variable keeps its type: in particular no handler resumes an await it
\* never reached, and currentRealSize stays a number whatever clients repeat.
THEOREM TypeCorrect == Spec => []TypeOK
<1>1. Typed => TypeOK
  BY DEF Typed
<1> QED
  BY <1>1, TypedInit, TypedStep, PTL DEF Spec

\* What the steps use of the assumptions on the constants.
LEMMA NamesApart == None \notin Sessions \cup Users /\ Requests \cap Sessions = {}
  BY ConstantsAssumption

-----------------------------------------------------------------------------
(* One lemma per action: it preserves Safe.                                *)

USE DEF Suspended, Becomes, Continues, Ends, Free, objects, rows, tasks, recovery,
        CreatingAwaits, EndingAwaits, LiveStates, Typed, TypeOK, WorkingInv

LEMMA StepMarkOldSessions ==
    ASSUME Typed, Safe, NEW t \in Tasks, MarkOldSessions(t)
    PROVE  Safe'
  BY NamesApart, SMTT(90) DEF MarkOldSessions, Safe, CreatingInv, UnusedInv,
     EndingInv, OverInv, SelectedInv, StartInv, CreationTimerArmed

LEMMA StepInsertSession ==
    ASSUME Typed, Safe, NEW t \in Tasks, InsertSession(t)
    PROVE  Safe'
  BY NamesApart, SMTT(90) DEF InsertSession, Safe, CreatingInv, UnusedInv,
     EndingInv, OverInv, SelectedInv, StartInv, CreationTimerArmed

LEMMA StepFcmFetched ==
    ASSUME Typed, Safe, NEW t \in Tasks, FcmFetched(t)
    PROVE  Safe'
  BY NamesApart, SMTT(90) DEF FcmFetched, CacheSession, Safe, CreatingInv,
     UnusedInv, EndingInv, OverInv, SelectedInv, StartInv, CreationTimerArmed

LEMMA StepFcmMissing ==
    ASSUME Typed, Safe, NEW t \in Tasks, FcmMissing(t)
    PROVE  Safe'
  BY NamesApart, SMTT(90) DEF FcmMissing, Safe, CreatingInv, UnusedInv, EndingInv,
     OverInv, SelectedInv, StartInv, CreationTimerArmed

LEMMA StepCachePoisoned ==
    ASSUME Typed, Safe, NEW t \in Tasks, CachePoisoned(t)
    PROVE  Safe'
<1>0. CreatingInv /\ UnusedInv /\ EndingInv /\ OverInv
      /\ SelectedInv /\ StartInv /\ CreationTimerArmed
  BY DEF Safe
<1>1. CreatingInv'
  BY <1>0, NamesApart DEF CachePoisoned, CacheSession, CreatingInv, UnusedInv,
     SelectedInv
<1>2. UnusedInv'
  BY <1>0, NamesApart DEF CachePoisoned, CacheSession, UnusedInv, CreatingInv,
     SelectedInv
<1>3. EndingInv'
  BY <1>0, NamesApart DEF CachePoisoned, CacheSession, EndingInv, OverInv,
     CreatingInv
<1>4. OverInv'
  BY <1>0, NamesApart DEF CachePoisoned, CacheSession, OverInv, EndingInv,
     CreatingInv
<1>5. SelectedInv'
  BY <1>0, NamesApart DEF CachePoisoned, CacheSession, SelectedInv
<1>6. StartInv'
  BY <1>0, NamesApart DEF CachePoisoned, CacheSession, StartInv, EndingInv,
     CreatingInv
<1>7. CreationTimerArmed'
  BY <1>0, NamesApart DEF CachePoisoned, CacheSession, CreationTimerArmed,
     EndingInv
<1> QED
  BY <1>1, <1>2, <1>3, <1>4, <1>5, <1>6, <1>7 DEF Safe

LEMMA StepWriteConnected ==
    ASSUME Typed, Safe, NEW t \in Tasks, WriteConnected(t)
    PROVE  Safe'
  BY NamesApart, SMTT(90) DEF WriteConnected, Safe, CreatingInv, UnusedInv,
     EndingInv, OverInv, SelectedInv, StartInv, CreationTimerArmed

LEMMA StepWriteDisconnected ==
    ASSUME Typed, Safe, NEW t \in Tasks, WriteDisconnected(t)
    PROVE  Safe'
<1>0. CreatingInv /\ UnusedInv /\ EndingInv /\ OverInv
      /\ SelectedInv /\ StartInv /\ CreationTimerArmed
  BY DEF Safe
<1>1. CreatingInv'
  BY <1>0, NamesApart DEF WriteDisconnected, Terminate, CreatingInv, UnusedInv,
     SelectedInv
<1>2. UnusedInv'
  BY <1>0, NamesApart DEF WriteDisconnected, Terminate, UnusedInv, CreatingInv,
     SelectedInv
<1>3. EndingInv'
  BY <1>0, NamesApart DEF WriteDisconnected, Terminate, EndingInv, OverInv,
     CreatingInv
<1>4. OverInv'
  BY <1>0, NamesApart DEF WriteDisconnected, Terminate, OverInv, EndingInv,
     CreatingInv
<1>5. SelectedInv'
  BY <1>0, NamesApart DEF WriteDisconnected, Terminate, SelectedInv
<1>6. StartInv'
  BY <1>0, NamesApart DEF WriteDisconnected, Terminate, StartInv, EndingInv,
     CreatingInv
<1>7. CreationTimerArmed'
  BY <1>0, NamesApart DEF WriteDisconnected, Terminate, CreationTimerArmed,
     EndingInv
<1> QED
  BY <1>1, <1>2, <1>3, <1>4, <1>5, <1>6, <1>7 DEF Safe

LEMMA StepWriteRunning ==
    ASSUME Typed, Safe, NEW t \in Tasks, WriteRunning(t)
    PROVE  Safe'
<1>0. /\ CreatingInv /\ UnusedInv /\ EndingInv /\ OverInv
      /\ SelectedInv /\ StartInv /\ CreationTimerArmed
  BY DEF Safe
<1>1. CreatingInv'
  BY <1>0, NamesApart DEF WriteRunning, CreatingInv
<1>2. UnusedInv'
  BY <1>0, NamesApart DEF WriteRunning, UnusedInv
<1>3. EndingInv'
  BY <1>0, NamesApart DEF WriteRunning, EndingInv, CreatingInv, OverInv
<1>4. OverInv'
  BY <1>0, NamesApart DEF WriteRunning, OverInv, EndingInv
<1>5. SelectedInv'
  BY <1>0, NamesApart DEF WriteRunning, SelectedInv
<1>6. StartInv'
  BY <1>0, NamesApart DEF WriteRunning, StartInv, EndingInv
<1>7. CreationTimerArmed'
  BY <1>0, NamesApart DEF WriteRunning, CreationTimerArmed
<1> QED
  BY <1>1, <1>2, <1>3, <1>4, <1>5, <1>6, <1>7 DEF Safe

LEMMA StepAnnounceStart ==
    ASSUME Typed, Safe, NEW t \in Tasks, AnnounceStart(t)
    PROVE  Safe'
  BY NamesApart, SMTT(90) DEF AnnounceStart, Safe, CreatingInv, UnusedInv,
     EndingInv, OverInv, SelectedInv, StartInv, CreationTimerArmed

LEMMA StepWriteBroken ==
    ASSUME Typed, Safe, NEW t \in Tasks, WriteBroken(t)
    PROVE  Safe'
  BY NamesApart, SMTT(90) DEF WriteBroken, Safe, CreatingInv, UnusedInv, EndingInv,
     OverInv, SelectedInv, StartInv, CreationTimerArmed

LEMMA StepAnnounceTermination ==
    ASSUME Typed, Safe, NEW t \in Tasks, AnnounceTermination(t)
    PROVE  Safe'
  BY NamesApart, SMTT(90) DEF AnnounceTermination, Safe, CreatingInv, UnusedInv,
     EndingInv, OverInv, SelectedInv, StartInv, CreationTimerArmed

LEMMA StepNoMatch ==
    ASSUME Typed, Safe, NEW t \in Tasks, NoMatch(t)
    PROVE  Safe'
  BY NamesApart, SMTT(90) DEF NoMatch, Safe, CreatingInv, UnusedInv, EndingInv,
     OverInv, SelectedInv, StartInv, CreationTimerArmed

LEMMA StepMatch ==
    ASSUME Typed, Safe, NEW t \in Tasks, Match(t)
    PROVE  Safe'
  BY NamesApart, SMTT(90) DEF Match, Safe, CreatingInv, UnusedInv, EndingInv,
     OverInv, SelectedInv, StartInv, CreationTimerArmed

LEMMA StepEndSessionWithMatch ==
    ASSUME Typed, Safe, NEW t \in Tasks, EndSessionWithMatch(t)
    PROVE  Safe'
  BY NamesApart, SMTT(90) DEF EndSessionWithMatch, Safe, CreatingInv, UnusedInv,
     EndingInv, OverInv, SelectedInv, StartInv, CreationTimerArmed

LEMMA StepWriteMatched ==
    ASSUME Typed, Safe, NEW t \in Tasks, WriteMatched(t)
    PROVE  Safe'
<1>0. CreatingInv /\ UnusedInv /\ EndingInv /\ OverInv
      /\ SelectedInv /\ StartInv /\ CreationTimerArmed
  BY DEF Safe
<1>1. CreatingInv'
  BY <1>0, NamesApart DEF WriteMatched, CreatingInv, UnusedInv, SelectedInv
<1>2. UnusedInv'
  BY <1>0, NamesApart DEF WriteMatched, UnusedInv, CreatingInv, SelectedInv
<1>3. EndingInv'
  BY <1>0, NamesApart DEF WriteMatched, EndingInv, OverInv, CreatingInv
<1>4. OverInv'
  BY <1>0, NamesApart DEF WriteMatched, OverInv, EndingInv, CreatingInv
<1>5. SelectedInv'
  BY <1>0, NamesApart DEF WriteMatched, SelectedInv
<1>6. StartInv'
  BY <1>0, NamesApart DEF WriteMatched, StartInv, EndingInv, CreatingInv
<1>7. CreationTimerArmed'
  BY <1>0, NamesApart DEF WriteMatched, CreationTimerArmed, EndingInv
<1> QED
  BY <1>1, <1>2, <1>3, <1>4, <1>5, <1>6, <1>7 DEF Safe

LEMMA StepVotingFails ==
    ASSUME Typed, Safe, NEW t \in Tasks, VotingFails(t)
    PROVE  Safe'
<1>0. CreatingInv /\ UnusedInv /\ EndingInv /\ OverInv
      /\ SelectedInv /\ StartInv /\ CreationTimerArmed
  BY DEF Safe
<1>1. CreatingInv'
  BY <1>0, NamesApart DEF VotingFails, Terminate, CreatingInv, UnusedInv,
     SelectedInv
<1>2. UnusedInv'
  BY <1>0, NamesApart DEF VotingFails, Terminate, UnusedInv, CreatingInv,
     SelectedInv
<1>3. EndingInv'
  BY <1>0, NamesApart DEF VotingFails, Terminate, EndingInv, OverInv, CreatingInv
<1>4. OverInv'
  BY <1>0, NamesApart DEF VotingFails, Terminate, OverInv, EndingInv, CreatingInv
<1>5. SelectedInv'
  BY <1>0, NamesApart DEF VotingFails, Terminate, SelectedInv
<1>6. StartInv'
  BY <1>0, NamesApart DEF VotingFails, Terminate, StartInv, EndingInv, CreatingInv
<1>7. CreationTimerArmed'
  BY <1>0, NamesApart DEF VotingFails, Terminate, CreationTimerArmed, EndingInv
<1> QED
  BY <1>1, <1>2, <1>3, <1>4, <1>5, <1>6, <1>7 DEF Safe

LEMMA StepDbFails ==
    ASSUME Typed, Safe, NEW t \in Tasks, DbFails(t)
    PROVE  Safe'
<1>0. /\ CreatingInv /\ UnusedInv /\ EndingInv /\ OverInv
      /\ SelectedInv /\ StartInv /\ CreationTimerArmed
  BY DEF Safe
<1>1. CreatingInv'
  BY <1>0, NamesApart DEF DbFails, CreatingInv
<1>2. UnusedInv'
  BY <1>0, NamesApart DEF DbFails, UnusedInv
<1>3. EndingInv'
  BY <1>0, NamesApart DEF DbFails, EndingInv
<1>4. OverInv'
  BY <1>0, NamesApart DEF DbFails, OverInv
<1>5. SelectedInv'
  BY <1>0, NamesApart DEF DbFails, SelectedInv
<1>6. StartInv'
  BY <1>0, NamesApart, ConstantsAssumption DEF DbFails, DbAwaits, StartInv
<1>7. CreationTimerArmed'
  BY <1>0, NamesApart DEF DbFails, CreationTimerArmed
<1> QED
  BY <1>1, <1>2, <1>3, <1>4, <1>5, <1>6, <1>7 DEF Safe

LEMMA StepTerminateSession ==
    ASSUME Typed, Safe, NEW t \in Tasks, NEW s \in Sessions, TerminateSession(t, s)
    PROVE  Safe'
<1>0. CreatingInv /\ UnusedInv /\ EndingInv /\ OverInv
      /\ SelectedInv /\ StartInv /\ CreationTimerArmed
  BY DEF Safe
<1>1. CreatingInv'
  BY <1>0, NamesApart DEF TerminateSession, Terminate, CreatingInv, UnusedInv,
     SelectedInv
<1>2. UnusedInv'
  BY <1>0, NamesApart DEF TerminateSession, Terminate, UnusedInv, CreatingInv,
     SelectedInv
<1>3. EndingInv'
  BY <1>0, NamesApart DEF TerminateSession, Terminate, EndingInv, OverInv,
     CreatingInv
<1>4. OverInv'
  BY <1>0, NamesApart DEF TerminateSession, Terminate, OverInv, EndingInv,
     CreatingInv
<1>5. SelectedInv'
  BY <1>0, NamesApart DEF TerminateSession, Terminate, SelectedInv
<1>6. StartInv'
  BY <1>0, NamesApart DEF TerminateSession, Terminate, StartInv, EndingInv,
     CreatingInv
<1>7. CreationTimerArmed'
  BY <1>0, NamesApart DEF TerminateSession, Terminate, CreationTimerArmed,
     EndingInv
<1> QED
  BY <1>1, <1>2, <1>3, <1>4, <1>5, <1>6, <1>7 DEF Safe

LEMMA StepVote ==
    ASSUME Typed, Safe, NEW t \in Tasks, NEW s \in Sessions, Vote(t, s)
    PROVE  Safe'
  BY NamesApart, SMTT(90) DEF Vote, Safe, CreatingInv, UnusedInv, EndingInv,
     OverInv, SelectedInv, StartInv, CreationTimerArmed

LEMMA StepCreateNewSession ==
    ASSUME Typed, Safe, NEW t \in Tasks, NEW u \in Users, NEW s \in Sessions,
           NEW invited \in SUBSET Users, CreateNewSession(t, u, s, invited)
    PROVE  Safe'
  BY NamesApart, SMTT(90) DEF CreateNewSession, Unused, ActiveSessions, Safe,
     CreatingInv, UnusedInv, EndingInv, OverInv, SelectedInv, StartInv, CreationTimerArmed

LEMMA StepConnectUser ==
    ASSUME Typed, Safe, NEW t \in Tasks, NEW u \in Users, NEW s \in Sessions, ConnectUser(t, u, s)
    PROVE  Safe'
  BY NamesApart, SMTT(90) DEF ConnectUser, Safe, CreatingInv, UnusedInv, EndingInv,
     OverInv, SelectedInv, StartInv, CreationTimerArmed

LEMMA StepDisconnectUser ==
    ASSUME Typed, Safe, NEW t \in Tasks, NEW u \in Users, NEW s \in Sessions, DisconnectUser(t, u, s)
    PROVE  Safe'
  BY NamesApart, SMTT(90) DEF DisconnectUser, Safe, CreatingInv, UnusedInv,
     EndingInv, OverInv, SelectedInv, StartInv, CreationTimerArmed

LEMMA StepStartSession ==
    ASSUME Typed, Safe, NEW t \in Tasks, NEW u \in Users, NEW s \in Sessions, StartSession(t, u, s)
    PROVE  Safe'
  BY NamesApart, SMTT(90) DEF StartSession, Safe, CreatingInv, UnusedInv,
     EndingInv, OverInv, SelectedInv, StartInv, CreationTimerArmed

LEMMA StepCreationTimeout ==
    ASSUME Typed, Safe, NEW s \in Sessions, CreationTimeout(s)
    PROVE  Safe'
<1>0. /\ CreatingInv /\ UnusedInv /\ EndingInv /\ OverInv
      /\ SelectedInv /\ StartInv /\ CreationTimerArmed
  BY DEF Safe
<1>1. CreatingInv'
  BY <1>0, NamesApart DEF CreationTimeout, Terminate, Tasks, CreatingInv
<1>2. UnusedInv'
  BY <1>0, NamesApart DEF CreationTimeout, Terminate, Tasks, UnusedInv
<1>3. EndingInv'
  BY <1>0, NamesApart, SMTT(60) DEF CreationTimeout, Terminate, Tasks, EndingInv, OverInv
<1>4. OverInv'
  BY <1>0 DEF CreationTimeout, Terminate, OverInv
<1>5. SelectedInv'
  BY <1>0 DEF CreationTimeout, Terminate, SelectedInv
<1>6. StartInv'
  BY <1>0, NamesApart, SMTT(60) DEF CreationTimeout, Terminate, Tasks, StartInv
<1>7. CreationTimerArmed'
  BY <1>0 DEF CreationTimeout, Terminate, CreationTimerArmed
<1> QED
  BY <1>1, <1>2, <1>3, <1>4, <1>5, <1>6, <1>7 DEF Safe

LEMMA StepRestart ==
    ASSUME Typed, Safe, Restart
    PROVE  Safe'
<1>0. /\ CreatingInv /\ UnusedInv /\ EndingInv /\ OverInv
      /\ SelectedInv /\ StartInv /\ CreationTimerArmed
  BY DEF Safe
<1>1. CreatingInv'
  BY <1>0, NamesApart DEF Restart, CreatingInv, UnusedInv
<1>2. UnusedInv'
  BY <1>0, NamesApart DEF Restart, UnusedInv
<1>3. EndingInv'
  BY <1>0, NamesApart DEF Restart, EndingInv
<1>4. OverInv'
  BY <1>0, NamesApart DEF Restart, OverInv
<1>5. SelectedInv'
  BY <1>0, NamesApart DEF Restart, SelectedInv
<1>6. StartInv'
  BY <1>0, NamesApart DEF Restart, StartInv
<1>7. CreationTimerArmed'
  BY <1>0, NamesApart DEF Restart, CreationTimerArmed
<1> QED
  BY <1>1, <1>2, <1>3, <1>4, <1>5, <1>6, <1>7 DEF Safe

LEMMA StepSelectStuck ==
    ASSUME Typed, Safe, SelectStuck
    PROVE  Safe'
  BY NamesApart, SMTT(90) DEF SelectStuck, Safe, CreatingInv, UnusedInv, EndingInv,
     OverInv, SelectedInv, StartInv, CreationTimerArmed

LEMMA StepMarkStuck ==
    ASSUME Typed, Safe, MarkStuck
    PROVE  Safe'
  BY NamesApart, SMTT(90) DEF MarkStuck, Safe, CreatingInv, UnusedInv, EndingInv,
     OverInv, SelectedInv, StartInv, CreationTimerArmed

-----------------------------------------------------------------------------
LEMMA SafeInit == Init => Safe
  BY NamesApart DEF Init, Safe, CreatingInv, UnusedInv, EndingInv, OverInv, SelectedInv,
     StartInv, CreationTimerArmed

LEMMA SafeStep == Typed /\ Safe /\ [Next]_vars => Safe'
<1> SUFFICES ASSUME Typed, Safe, [Next]_vars PROVE Safe'
  OBVIOUS
<1>t. Requests \subseteq Tasks
  BY DEF Tasks
<1>1. ASSUME NEW t \in Tasks, Handler(t) PROVE Safe'
  BY <1>1, StepMarkOldSessions, StepInsertSession, StepFcmFetched, StepFcmMissing,
     StepCachePoisoned, StepWriteConnected, StepWriteDisconnected, StepWriteRunning,
     StepAnnounceStart, StepWriteBroken, StepAnnounceTermination, StepNoMatch, StepMatch,
     StepEndSessionWithMatch, StepWriteMatched DEF Handler
<1>2. ASSUME NEW t \in Tasks, VotingFails(t) \/ DbFails(t) PROVE Safe'
  BY <1>2, StepVotingFails, StepDbFails
<1>3. ASSUME NEW t \in Requests, NEW s \in Sessions, TerminateSession(t, s) \/ Vote(t, s)
      PROVE Safe'
  BY <1>3, <1>t, StepTerminateSession, StepVote
<1>4. ASSUME NEW t \in Requests, NEW s \in Sessions, NEW u \in Users, Request(t, u, s)
      PROVE Safe'
  BY <1>4, <1>t, StepCreateNewSession, StepConnectUser, StepDisconnectUser, StepStartSession
     DEF Request
<1>5. ASSUME NEW s \in Sessions, CreationTimeout(s) PROVE Safe'
  BY <1>5, StepCreationTimeout
<1>6. CASE Restart \/ SelectStuck \/ MarkStuck
  BY <1>6, StepRestart, StepSelectStuck, StepMarkStuck
<1>7. CASE UNCHANGED vars
  BY <1>7 DEF vars, Safe, CreatingInv, UnusedInv, EndingInv, OverInv, SelectedInv, StartInv,
     CreationTimerArmed
<1> QED
  BY <1>1, <1>2, <1>3, <1>4, <1>5, <1>6, <1>7 DEF Next

LEMMA Inductive == Spec => []IInv
<1>1. Init => IInv
  BY TypedInit, SafeInit DEF IInv
<1>2. IInv /\ [Next]_vars => IInv'
  BY TypedStep, SafeStep DEF IInv
<1> QED
  BY <1>1, <1>2, PTL DEF Spec

\* Whatever requests, timers, votes and restarts overlap, a session is ended by
\* one handler only, and never while it is in the cache (SessionsCachingService
\* deletes it from the Map before the first await); terminateSession and
\* endSessionWithMatch never both take effect on a session.
THEOREM EndedOnceHolds == Spec => []EndedOnce
<1>1. IInv => EndedOnce
  BY DEF IInv, Safe, EndedOnce, Enders, EndingInv, OverInv
<1> QED
  BY <1>1, Inductive, PTL

\* The creation timer of a session runs as long as it waits in the cache to be
\* started, and no longer.
THEOREM TimerArmed == Spec => []CreationTimerArmed
<1>1. IInv => CreationTimerArmed
  BY DEF IInv, Safe
<1> QED
  BY <1>1, Inductive, PTL

\* The row of a cached session never claims a state the cache does not have,
\* except BROKEN and except while a start is being announced.
THEOREM RowFollows == Spec => []RowFollowsCache
<1>1. IInv => RowFollowsCache
  BY DEF IInv, Safe, RowFollowsCache, Starting, StartInv
<1> QED
  BY <1>1, Inductive, PTL
-----------------------------------------------------------------------------
(* Who is connected, for clients that wait for the answers to their        *)
(* requests: the size counts them, and the rows agree.                     *)

Writes == {"writeConnected", "writeDisconnected"}

\* currentRealSize is the number of flags set, one change at a time.
SizeInv ==
    \A s \in Sessions :
        /\ IsFiniteSet(isConnected[s])
        /\ s \in cached => realSize[s] = Cardinality(isConnected[s])

LEMMA SizeInit == Init => SizeInv
  BY FS_EmptySet DEF Init, SizeInv

\* An action that neither caches a session nor touches a flag.
LEMMA SizeKept ==
    ASSUME SizeInv, cached' \subseteq cached, UNCHANGED <<isConnected, realSize>>
    PROVE  SizeInv'
  BY DEF SizeInv

LEMMA SizeCacheSession ==
    ASSUME Typed, SizeInv, NEW t \in Tasks, NEW connected, IsFiniteSet(connected),
           at[t] # "idle", CacheSession(t, connected)
    PROVE  SizeInv'
<1>1. of[t] \in Sessions
  OBVIOUS
<1> QED
  BY <1>1 DEF CacheSession, SizeInv

LEMMA SizeStep ==
    ASSUME PatientClients, Typed, SizeInv, [Next]_vars
    PROVE  SizeInv'
<1>t. Requests \subseteq Tasks /\ Sessions \subseteq Tasks
  BY DEF Tasks
<1>1. ASSUME NEW t \in Tasks, Handler(t) PROVE SizeInv'
  <2>1. CASE FcmFetched(t)
    BY <2>1, SizeCacheSession, FS_Singleton DEF FcmFetched
  <2>2. CASE CachePoisoned(t)
    BY <2>2, SizeCacheSession, FS_EmptySet DEF CachePoisoned
  <2>3. CASE WriteDisconnected(t) \/ EndSessionWithMatch(t)
    <3>1. cached' \subseteq cached /\ UNCHANGED <<isConnected, realSize>>
      BY <2>3 DEF WriteDisconnected, EndSessionWithMatch, Terminate
    <3> QED
      BY <3>1, SizeKept
  <2>4. CASE \/ MarkOldSessions(t) \/ InsertSession(t) \/ FcmMissing(t) \/ WriteConnected(t)
             \/ WriteRunning(t) \/ AnnounceStart(t) \/ WriteBroken(t)
             \/ AnnounceTermination(t) \/ NoMatch(t) \/ Match(t) \/ WriteMatched(t)
    <3>1. UNCHANGED <<cached, isConnected, realSize>>
      BY <2>4 DEF MarkOldSessions, InsertSession, FcmMissing, WriteConnected, WriteRunning,
         AnnounceStart, WriteBroken, AnnounceTermination, NoMatch, Match, WriteMatched
    <3> QED
      BY <3>1, SizeKept
  <2> QED
    BY <1>1, <2>1, <2>2, <2>3, <2>4 DEF Handler
<1>2. ASSUME NEW t \in Tasks, VotingFails(t) \/ DbFails(t) PROVE SizeInv'
  <2>1. cached' \subseteq cached /\ UNCHANGED <<isConnected, realSize>>
    BY <1>2 DEF VotingFails, DbFails, Terminate
  <2> QED
    BY <2>1, SizeKept
<1>3. ASSUME NEW t \in Requests, NEW s \in Sessions, TerminateSession(t, s) \/ Vote(t, s)
      PROVE SizeInv'
  <2>1. cached' \subseteq cached /\ UNCHANGED <<isConnected, realSize>>
    BY <1>3 DEF TerminateSession, Vote, Terminate
  <2> QED
    BY <2>1, SizeKept
<1>4. ASSUME NEW t \in Requests, NEW s \in Sessions, NEW u \in Users, Request(t, u, s)
      PROVE SizeInv'
  <2>1. ASSUME NEW invited \in SUBSET Users, CreateNewSession(t, u, s, invited)
        PROVE SizeInv'
    <3>1. UNCHANGED <<cached, isConnected, realSize>>
      BY <2>1 DEF CreateNewSession
    <3> QED
      BY <3>1, SizeKept
  <2>2. CASE ConnectUser(t, u, s)
    <3>1. /\ s \in cached /\ u \notin isConnected[s]
          /\ isConnected' = [isConnected EXCEPT ![s] = @ \cup {u}]
          /\ realSize' = [realSize EXCEPT ![s] = @ + 1] /\ cached' = cached
      BY <2>2 DEF ConnectUser
    <3>2. /\ IsFiniteSet(isConnected[s] \cup {u})
          /\ Cardinality(isConnected[s] \cup {u}) = realSize[s] + 1
      BY <3>1, FS_AddElement DEF SizeInv
    <3> QED
      BY <3>1, <3>2 DEF SizeInv
  <2>3. CASE DisconnectUser(t, u, s)
    <3>1. /\ s \in cached /\ u \in isConnected[s]
          /\ isConnected' = [isConnected EXCEPT ![s] = @ \ {u}]
          /\ realSize' = [realSize EXCEPT ![s] = @ - 1] /\ cached' = cached
      BY <2>3 DEF DisconnectUser
    <3>2. /\ IsFiniteSet(isConnected[s] \ {u})
          /\ Cardinality(isConnected[s] \ {u}) = realSize[s] - 1
      BY <3>1, FS_RemoveElement DEF SizeInv
    <3> QED
      BY <3>1, <3>2 DEF SizeInv
  <2>4. CASE StartSession(t, u, s)
    <3>1. UNCHANGED <<cached, isConnected, realSize>>
      BY <2>4 DEF StartSession
    <3> QED
      BY <3>1, SizeKept
  <2> QED
    BY <1>4, <2>1, <2>2, <2>3, <2>4 DEF Request
<1>5. ASSUME NEW s \in Sessions, CreationTimeout(s) PROVE SizeInv'
  <2>1. cached' \subseteq cached /\ UNCHANGED <<isConnected, realSize>>
    BY <1>5 DEF CreationTimeout, Terminate
  <2> QED
    BY <2>1, SizeKept
<1>6. CASE Restart
  BY <1>6, FS_EmptySet DEF Restart, SizeInv
<1>7. CASE SelectStuck \/ MarkStuck \/ UNCHANGED vars
  <2>1. UNCHANGED <<cached, isConnected, realSize>>
    BY <1>7 DEF SelectStuck, MarkStuck, vars
  <2> QED
    BY <2>1, SizeKept
<1> QED
  BY <1>1, <1>2, <1>3, <1>4, <1>5, <1>6, <1>7 DEF Next

\* For clients that wait, currentRealSize is the number of connected members,
\* however connections, disconnections, terminations and restarts overlap.
THEOREM SizeCounts ==
    ASSUME PatientClients PROVE Spec => []SizeCountsConnected
<1>1. Init => Typed /\ SizeInv
  BY TypedInit, SizeInit
<1>2. Typed /\ SizeInv /\ [Next]_vars => (Typed /\ SizeInv)'
  BY TypedStep, SizeStep
<1>3. Typed /\ SizeInv => SizeCountsConnected
  BY DEF SizeInv, SizeCountsConnected
<1> QED
  BY <1>1, <1>2, <1>3, PTL DEF Spec
\* checkSessionIsEmpty ends every session that a leaving member leaves with
\* fewer than two: a session that outlives the departure has two members.
THEOREM TwoRemain ==
    ASSUME PatientClients PROVE Spec => TwoMembersRemain
<1>1. Init => Typed /\ SizeInv
  BY TypedInit, SizeInit
<1>2. Typed /\ SizeInv /\ [Next]_vars => (Typed /\ SizeInv)'
  BY TypedStep, SizeStep
<1>3. ASSUME Typed, SizeInv, NEW t \in Tasks, WriteDisconnected(t), of[t] \in cached'
      PROVE  Cardinality(isConnected[of[t]]) >= 2
  <2>1. of[t] \in cached /\ ~IsEmpty(of[t])
    BY <1>3 DEF WriteDisconnected, Terminate
  <2>2. realSize[of[t]] \in Int /\ realSize[of[t]] = Cardinality(isConnected[of[t]])
    BY <1>3, <2>1 DEF SizeInv
  <2> QED
    BY <2>1, <2>2 DEF IsEmpty
<1>4. Typed /\ SizeInv =>
        \A t \in Tasks :
          WriteDisconnected(t) /\ of[t] \in cached' => Cardinality(isConnected[of[t]]) >= 2
  BY <1>3
<1> QED
  BY <1>1, <1>2, <1>4, PTL DEF Spec, TwoMembersRemain

-----------------------------------------------------------------------------
\* The row of a session about to be cached has its creator connected.
InsertedInv ==
    \A t \in Tasks : at[t] = "fetchFcm" => rowConnected[of[t]] = {by[t]}

\* A connection being written is what the cache says, and no other is being
\* written for that member.
WriteInv ==
    \A t \in Tasks : at[t] \in Writes =>
        /\ of[t] \in cached => (by[t] \in isConnected[of[t]] <=> at[t] = "writeConnected")
        /\ \A t2 \in Tasks : at[t2] \in Writes /\ of[t2] = of[t] /\ by[t2] = by[t] => t2 = t

\* A member whose connection is not being written has it written.
WrittenInv ==
    \A s \in cached \ poisoned : \A u \in Users :
        \/ \E t \in Tasks : at[t] \in Writes /\ of[t] = s /\ by[t] = u
        \/ u \in rowConnected[s] <=> u \in isConnected[s]

ConnInv == InsertedInv /\ WriteInv /\ WrittenInv

LEMMA ConnInit == Init => ConnInv
  BY DEF Init, ConnInv, InsertedInv, WriteInv, WrittenInv, Writes

\* An action that caches nothing, touches neither flags nor rows of connections,
\* and neither begins nor ends a write of one.
LEMMA ConnKept ==
    ASSUME ConnInv, cached' \subseteq cached, UNCHANGED <<isConnected, poisoned, rowConnected>>,
           \A t \in Tasks :
              /\ at[t] \in Writes \/ at'[t] \in Writes \/ at'[t] = "fetchFcm"
                   => at'[t] = at[t] /\ of'[t] = of[t] /\ by'[t] = by[t]
    PROVE  ConnInv'
<1>1. InsertedInv'
  BY DEF ConnInv, InsertedInv
<1>2. WriteInv'
  BY DEF ConnInv, WriteInv
<1>3. WrittenInv'
  BY DEF ConnInv, WrittenInv
<1> QED
  BY <1>1, <1>2, <1>3 DEF ConnInv

LEMMA ConnInsertSession ==
    ASSUME Typed, Safe, ConnInv, NEW t \in Tasks, InsertSession(t)
    PROVE  ConnInv'
<1>1. /\ of[t] \notin cached
      /\ \A t2 \in Tasks : of[t2] = of[t] => t2 = t
  BY DEF InsertSession, Safe, CreatingInv
<1>2. InsertedInv'
  BY <1>1 DEF InsertSession, ConnInv, InsertedInv
<1>3. WriteInv'
  BY <1>1 DEF InsertSession, ConnInv, WriteInv, Writes
<1>4. WrittenInv'
  BY <1>1 DEF InsertSession, ConnInv, WrittenInv, Writes
<1> QED
  BY <1>2, <1>3, <1>4 DEF ConnInv

LEMMA ConnFcmFetched ==
    ASSUME Typed, Safe, ConnInv, NEW t \in Tasks, FcmFetched(t)
    PROVE  ConnInv'
<1>1. /\ \A t2 \in Tasks : of[t2] = of[t] => t2 = t
      /\ rowConnected[of[t]] = {by[t]}
  BY DEF FcmFetched, Safe, CreatingInv, ConnInv, InsertedInv
<1>2. InsertedInv'
  BY <1>1 DEF FcmFetched, CacheSession, ConnInv, InsertedInv
<1>3. WriteInv'
  BY <1>1 DEF FcmFetched, CacheSession, ConnInv, WriteInv, Writes
<1>4. WrittenInv'
  BY <1>1 DEF FcmFetched, CacheSession, ConnInv, WrittenInv, Writes
<1> QED
  BY <1>2, <1>3, <1>4 DEF ConnInv

LEMMA ConnCachePoisoned ==
    ASSUME Typed, Safe, ConnInv, NEW t \in Tasks, CachePoisoned(t)
    PROVE  ConnInv'
<1>1. \A t2 \in Tasks : of[t2] = of[t] => t2 = t
  BY DEF CachePoisoned, Safe, CreatingInv
<1>2. InsertedInv'
  BY <1>1 DEF CachePoisoned, CacheSession, ConnInv, InsertedInv
<1>3. WriteInv'
  BY <1>1 DEF CachePoisoned, CacheSession, ConnInv, WriteInv, Writes
<1>4. WrittenInv'
  BY <1>1 DEF CachePoisoned, CacheSession, ConnInv, WrittenInv, Writes
<1> QED
  BY <1>2, <1>3, <1>4 DEF ConnInv

LEMMA ConnWriteConnected ==
    ASSUME Typed, Safe, ConnInv, NEW t \in Tasks, WriteConnected(t)
    PROVE  ConnInv'
<1>1. \A t2 \in Tasks : at[t2] = "fetchFcm" => of[t2] # of[t]
  BY DEF WriteConnected, Safe, CreatingInv
<1>2. InsertedInv'
  BY <1>1 DEF WriteConnected, ConnInv, InsertedInv
<1>3. WriteInv'
  BY DEF WriteConnected, ConnInv, WriteInv, Writes
<1>4. WrittenInv'
  BY DEF WriteConnected, ConnInv, WriteInv, WrittenInv, Writes
<1> QED
  BY <1>2, <1>3, <1>4 DEF ConnInv

LEMMA ConnWriteDisconnected ==
    ASSUME Typed, Safe, ConnInv, NEW t \in Tasks, WriteDisconnected(t)
    PROVE  ConnInv'
<1>1. \A t2 \in Tasks : at[t2] = "fetchFcm" => of[t2] # of[t]
  BY DEF WriteDisconnected, Safe, CreatingInv
<1>2. InsertedInv'
  BY <1>1 DEF WriteDisconnected, Terminate, ConnInv, InsertedInv
<1>3. WriteInv'
  BY DEF WriteDisconnected, Terminate, ConnInv, WriteInv, Writes
<1>4. WrittenInv'
  BY DEF WriteDisconnected, Terminate, ConnInv, WriteInv, WrittenInv, Writes
<1> QED
  BY <1>2, <1>3, <1>4 DEF ConnInv

LEMMA ConnConnectUser ==
    ASSUME PatientClients, Typed, ConnInv, NEW t \in Tasks, NEW u \in Users, NEW s \in Sessions,
           ConnectUser(t, u, s)
    PROVE  ConnInv'
<1>1. \A t2 \in Tasks : ~(by[t2] = u /\ of[t2] = s /\ at[t2] \in Writes)
  BY DEF ConnectUser, Waits, Writes
<1>2. InsertedInv'
  BY DEF ConnectUser, ConnInv, InsertedInv
<1>3. WriteInv'
  BY <1>1 DEF ConnectUser, ConnInv, WriteInv, Writes
<1>4. WrittenInv'
  BY <1>1 DEF ConnectUser, ConnInv, WrittenInv, Writes
<1> QED
  BY <1>2, <1>3, <1>4 DEF ConnInv

LEMMA ConnDisconnectUser ==
    ASSUME PatientClients, Typed, ConnInv, NEW t \in Tasks, NEW u \in Users, NEW s \in Sessions,
           DisconnectUser(t, u, s)
    PROVE  ConnInv'
<1>1. \A t2 \in Tasks : ~(by[t2] = u /\ of[t2] = s /\ at[t2] \in Writes)
  BY DEF DisconnectUser, Waits, Writes
<1>2. InsertedInv'
  BY DEF DisconnectUser, ConnInv, InsertedInv
<1>3. WriteInv'
  BY <1>1 DEF DisconnectUser, ConnInv, WriteInv, Writes
<1>4. WrittenInv'
  BY <1>1 DEF DisconnectUser, ConnInv, WrittenInv, Writes
<1> QED
  BY <1>2, <1>3, <1>4 DEF ConnInv
LEMMA ConnStep ==
    ASSUME PatientClients, MayFail \cap Writes = {}, Typed, Safe, ConnInv, [Next]_vars
    PROVE  ConnInv'
<1>t. Requests \subseteq Tasks /\ Sessions \subseteq Tasks
  BY DEF Tasks
<1>1. ASSUME NEW t \in Tasks, Handler(t) PROVE ConnInv'
  <2>1. CASE \/ InsertSession(t) \/ FcmFetched(t) \/ CachePoisoned(t)
             \/ WriteConnected(t) \/ WriteDisconnected(t)
    BY <2>1, ConnInsertSession, ConnFcmFetched, ConnCachePoisoned, ConnWriteConnected,
       ConnWriteDisconnected
  <2>2. CASE \/ MarkOldSessions(t) \/ FcmMissing(t) \/ WriteRunning(t) \/ AnnounceStart(t)
             \/ WriteBroken(t) \/ AnnounceTermination(t) \/ NoMatch(t) \/ Match(t)
             \/ EndSessionWithMatch(t) \/ WriteMatched(t)
    <3>1. /\ cached' \subseteq cached
          /\ UNCHANGED <<isConnected, poisoned, rowConnected>>
          /\ at[t] \notin Writes /\ at'[t] \notin Writes \cup {"fetchFcm"}
          /\ \A t2 \in Tasks \ {t} : at'[t2] = at[t2] /\ of'[t2] = of[t2] /\ by'[t2] = by[t2]
      BY <2>2 DEF MarkOldSessions, FcmMissing, WriteRunning, AnnounceStart, WriteBroken,
         AnnounceTermination, NoMatch, Match, EndSessionWithMatch, WriteMatched, Writes
    <3> QED
      BY <3>1, ConnKept
  <2> QED
    BY <1>1, <2>1, <2>2 DEF Handler
<1>2. ASSUME NEW t \in Tasks, VotingFails(t) \/ DbFails(t) PROVE ConnInv'
  <2>1. /\ cached' \subseteq cached
        /\ UNCHANGED <<isConnected, poisoned, rowConnected>>
        /\ at[t] \notin Writes /\ at'[t] \notin Writes \cup {"fetchFcm"}
        /\ \A t2 \in Tasks \ {t} : at'[t2] = at[t2] /\ of'[t2] = of[t2] /\ by'[t2] = by[t2]
    BY <1>2 DEF VotingFails, DbFails, Terminate, Writes
  <2> QED
    BY <2>1, ConnKept
<1>3. ASSUME NEW t \in Requests, NEW s \in Sessions, TerminateSession(t, s) \/ Vote(t, s)
      PROVE ConnInv'
  <2>1. /\ cached' \subseteq cached
        /\ UNCHANGED <<isConnected, poisoned, rowConnected>>
        /\ at[t] \notin Writes /\ at'[t] \notin Writes \cup {"fetchFcm"}
        /\ \A t2 \in Tasks \ {t} : at'[t2] = at[t2] /\ of'[t2] = of[t2] /\ by'[t2] = by[t2]
    BY <1>3, <1>t DEF TerminateSession, Vote, Terminate, Writes
  <2> QED
    BY <2>1, ConnKept
<1>4. ASSUME NEW t \in Requests, NEW s \in Sessions, NEW u \in Users, Request(t, u, s)
      PROVE ConnInv'
  <2>1. CASE ConnectUser(t, u, s) \/ DisconnectUser(t, u, s)
    BY <2>1, <1>t, ConnConnectUser, ConnDisconnectUser
  <2>2. ASSUME StartSession(t, u, s) \/ \E invited \in SUBSET Users : CreateNewSession(t, u, s, invited)
        PROVE  ConnInv'
    <3>1. /\ UNCHANGED <<cached, isConnected, poisoned, rowConnected>>
          /\ at[t] \notin Writes /\ at'[t] \notin Writes \cup {"fetchFcm"}
          /\ \A t2 \in Tasks \ {t} : at'[t2] = at[t2] /\ of'[t2] = of[t2] /\ by'[t2] = by[t2]
      BY <2>2, <1>t DEF StartSession, CreateNewSession, Writes
    <3> QED
      BY <3>1, ConnKept
  <2> QED
    BY <1>4, <2>1, <2>2 DEF Request
<1>5. ASSUME NEW s \in Sessions, CreationTimeout(s) PROVE ConnInv'
  <2>1. /\ cached' \subseteq cached
        /\ UNCHANGED <<isConnected, poisoned, rowConnected>>
        /\ at[s] \notin Writes /\ at'[s] \notin Writes \cup {"fetchFcm"}
        /\ \A t2 \in Tasks \ {s} : at'[t2] = at[t2] /\ of'[t2] = of[t2] /\ by'[t2] = by[t2]
    BY <1>5, <1>t DEF CreationTimeout, Terminate, Writes
  <2> QED
    BY <2>1, ConnKept
<1>6. CASE Restart
  BY <1>6 DEF Restart, ConnInv, InsertedInv, WriteInv, WrittenInv, Writes
<1>7. CASE SelectStuck \/ MarkStuck \/ UNCHANGED vars
  <2>1. UNCHANGED <<cached, isConnected, poisoned, rowConnected, at, of, by>>
    BY <1>7 DEF SelectStuck, MarkStuck, vars
  <2> QED
    BY <2>1, ConnKept
<1> QED
  BY <1>1, <1>2, <1>3, <1>4, <1>5, <1>6, <1>7 DEF Next

\* For clients that wait, and while the two connection writes succeed, what the
\* rows of matching_session_users say of a session with no such write under way
\* is what the cache says of them.
THEOREM RowsAgree ==
    ASSUME PatientClients, MayFail \cap Writes = {}
    PROVE  Spec => []RowsAgreeOnConnected
<1>1. Init => ConnInv
  BY ConnInit
<1>2. IInv /\ ConnInv /\ [Next]_vars => ConnInv'
  BY ConnStep DEF IInv
<1>3. IInv /\ ConnInv => RowsAgreeOnConnected
  <2> SUFFICES ASSUME Typed, ConnInv, NEW s \in cached \ poisoned,
                      ~ \E t \in Tasks : of[t] = s /\ at[t] \in Writes
               PROVE  rowConnected[s] = isConnected[s]
    BY DEF RowsAgreeOnConnected, Writes, IInv
  <2>1. s \in Sessions /\ rowConnected[s] \subseteq Users /\ isConnected[s] \subseteq Users
    OBVIOUS
  <2>2. \A u \in Users : u \in rowConnected[s] <=> u \in isConnected[s]
    BY DEF ConnInv, WrittenInv
  <2> QED
    BY <2>1, <2>2
<1> QED
  BY <1>1, <1>2, <1>3, Inductive, PTL DEF Spec
-----------------------------------------------------------------------------
(* The cache refines SessionLife.                                          *)

\* A session that was cached, or that a handler other than its creation is
\* about, has a row.
ExistsInv ==
    /\ \A s \in cached : row[s] # "NONE"
    /\ \A t \in Tasks : at[t] \notin CreatingAwaits \cup {"idle"} => row[of[t]] # "NONE"

LEMMA ExistsInit == Init => ExistsInv
  BY DEF Init, ExistsInv

LEMMA ExistsStep ==
    ASSUME Typed, Safe, ExistsInv, [Next]_vars
    PROVE  ExistsInv'
<1>t. Requests \subseteq Tasks /\ Sessions \subseteq Tasks
  BY DEF Tasks
<1>1. ASSUME NEW t \in Tasks, Handler(t) PROVE ExistsInv'
  <2>1. CASE FcmFetched(t) \/ CachePoisoned(t)
    <3>1. row[of[t]] # "NONE"
      BY <2>1 DEF FcmFetched, CachePoisoned, Safe, CreatingInv
    <3> QED
      BY <2>1, <3>1 DEF FcmFetched, CachePoisoned, CacheSession, ExistsInv
  <2>2. CASE MarkOldSessions(t) \/ InsertSession(t) \/ FcmMissing(t)
    BY <2>2 DEF MarkOldSessions, InsertSession, FcmMissing, ExistsInv
  <2>3. CASE \/ WriteConnected(t) \/ WriteRunning(t) \/ AnnounceStart(t) \/ WriteBroken(t)
             \/ AnnounceTermination(t) \/ NoMatch(t) \/ Match(t) \/ WriteMatched(t)
    BY <2>3 DEF WriteConnected, WriteRunning, AnnounceStart, WriteBroken,
       AnnounceTermination, NoMatch, Match, WriteMatched, ExistsInv
  <2>4. CASE WriteDisconnected(t) \/ EndSessionWithMatch(t)
    BY <2>4 DEF WriteDisconnected, EndSessionWithMatch, Terminate, ExistsInv
  <2> QED
    BY <1>1, <2>1, <2>2, <2>3, <2>4 DEF Handler
<1>2. ASSUME NEW t \in Tasks, VotingFails(t) \/ DbFails(t) PROVE ExistsInv'
  BY <1>2 DEF VotingFails, DbFails, Terminate, ExistsInv
<1>3. ASSUME NEW t \in Requests, NEW s \in Sessions, TerminateSession(t, s) \/ Vote(t, s)
      PROVE ExistsInv'
  BY <1>3, <1>t DEF TerminateSession, Vote, Terminate, ExistsInv
<1>4. ASSUME NEW t \in Requests, NEW s \in Sessions, NEW u \in Users, Request(t, u, s)
      PROVE ExistsInv'
  <2>1. ASSUME NEW invited \in SUBSET Users, CreateNewSession(t, u, s, invited)
        PROVE ExistsInv'
    BY <2>1, <1>t DEF CreateNewSession, ExistsInv
  <2>2. CASE ConnectUser(t, u, s) \/ DisconnectUser(t, u, s) \/ StartSession(t, u, s)
    BY <2>2, <1>t DEF ConnectUser, DisconnectUser, StartSession, ExistsInv
  <2> QED
    BY <1>4, <2>1, <2>2 DEF Request
<1>5. ASSUME NEW s \in Sessions, CreationTimeout(s) PROVE ExistsInv'
  BY <1>5, <1>t, SMTT(60) DEF CreationTimeout, Terminate, ExistsInv
<1>6. CASE Restart \/ SelectStuck \/ MarkStuck \/ UNCHANGED vars
  BY <1>6 DEF Restart, SelectStuck, MarkStuck, vars, ExistsInv
<1> QED
  BY <1>1, <1>2, <1>3, <1>4, <1>5, <1>6 DEF Next
\* What a step may not change of a session for its phase to stay as it was.
SamePhase(s) ==
    /\ s \in cached' <=> s \in cached
    /\ sessionState'[s] = sessionState[s]
    /\ row'[s] = "NONE" <=> row[s] = "NONE"
    /\ Creating(s)' <=> Creating(s)

LEMMA PhaseKept ==
    ASSUME \A s \in Sessions : SamePhase(s)
    PROVE  phase' = phase
  BY DEF phase, SamePhase

LEMMA PhaseChanged ==
    ASSUME NEW x \in Sessions, \A s \in Sessions \ {x} : SamePhase(s), NEW p,
           p = IF x \in cached' THEN sessionState'[x]
               ELSE IF row'[x] = "NONE" \/ Creating(x)' THEN "none" ELSE "over"
    PROVE  phase' = [phase EXCEPT ![x] = p]
  BY DEF phase, SamePhase

\* A handler that is no creation leaves it to the creations to go on or not.
LEMMA CreatingKept ==
    ASSUME NEW t \in Tasks, at[t] \notin CreatingAwaits, at'[t] \notin CreatingAwaits,
           \A t2 \in Tasks \ {t} : at'[t2] = at[t2] /\ of'[t2] = of[t2]
    PROVE  \A s \in Sessions : Creating(s)' <=> Creating(s)
  BY DEF Creating

\* Taking a session out of the cache ends its life, finding it gone changes nothing.
LEMMA PhaseEnds ==
    ASSUME Typed, Safe, ExistsInv, NEW x \in Sessions, cached' = cached \ {x},
           UNCHANGED <<sessionState, row>>, \A s \in Sessions : Creating(s)' <=> Creating(s)
    PROVE  Life!End(x) \/ phase' = phase
<1>1. \A s \in Sessions \ {x} : SamePhase(s)
  BY DEF SamePhase
<1>2. CASE x \in cached
  <2>1. row[x] # "NONE" /\ ~Creating(x) /\ x \notin cached'
    BY <1>2 DEF ExistsInv, Safe, CreatingInv, Creating
  <2>2. phase' = [phase EXCEPT ![x] = "over"]
    BY <1>1, <2>1, PhaseChanged
  <2>3. phase[x] \in Life!Open
    BY <1>2 DEF phase, Life!Open
  <2> QED
    BY <2>2, <2>3 DEF Life!End
<1>3. CASE x \notin cached
  BY <1>3, PhaseKept DEF SamePhase
<1> QED
  BY <1>2, <1>3

\* What each step of the cache is to the life of the sessions.
LifeStep == [Life!Next]_phase

LEMMA LifeEnds ==
    ASSUME NEW x \in Sessions, Life!End(x) \/ phase' = phase
    PROVE  LifeStep
  BY DEF LifeStep, Life!Next

LEMMA LifeCreation ==
    ASSUME Typed, Safe, NEW t \in Tasks,
           MarkOldSessions(t) \/ InsertSession(t) \/ FcmMissing(t)
    PROVE  LifeStep
<1> DEFINE x == of[t]
<1>1. /\ x \in Sessions /\ x \notin cached /\ cached' = cached /\ sessionState' = sessionState
      /\ at[t] \in CreatingAwaits /\ at'[t] \in CreatingAwaits /\ of' = of
      /\ \A t2 \in Tasks \ {t} : at'[t2] = at[t2]
  BY DEF MarkOldSessions, InsertSession, FcmMissing, Safe, CreatingInv
<1>2. \A s \in Sessions : Creating(s)' <=> Creating(s)
  BY <1>1 DEF Creating
<1>3. \A s \in Sessions \ {x} : row'[s] = "NONE" <=> row[s] = "NONE"
  BY DEF MarkOldSessions, InsertSession, FcmMissing, Safe, SelectedInv
<1>4. Creating(x)
  BY <1>1 DEF Creating
<1>5. phase' = [phase EXCEPT ![x] = "none"]
  <2>1. \A s \in Sessions \ {x} : SamePhase(s)
    BY <1>1, <1>2, <1>3 DEF SamePhase
  <2>2. "none" = IF x \in cached' THEN sessionState'[x]
                 ELSE IF row'[x] = "NONE" \/ Creating(x)' THEN "none" ELSE "over"
    BY <1>1, <1>2, <1>4
  <2> QED
    BY <1>1, <2>1, <2>2, PhaseChanged
<1>6. phase[x] = "none"
  BY <1>1, <1>4 DEF phase
<1>7. phase' = phase
  BY <1>1, <1>5, <1>6 DEF phase
<1> QED
  BY <1>7 DEF LifeStep

LEMMA LifeCached ==
    ASSUME Typed, Safe, NEW t \in Tasks, FcmFetched(t) \/ CachePoisoned(t)
    PROVE  LifeStep
<1> DEFINE x == of[t]
<1>1. /\ x \in Sessions /\ x \notin cached /\ cached' = cached \cup {x}
      /\ sessionState' = [sessionState EXCEPT ![x] = "CREATED"]
      /\ at[t] \in CreatingAwaits
      /\ at' = [at EXCEPT ![t] = "idle"] /\ of' = [of EXCEPT ![t] = None]
  BY DEF FcmFetched, CachePoisoned, CacheSession, Safe, CreatingInv
<1>2. \A s \in Sessions \ {x} : Creating(s)' <=> Creating(s)
  BY <1>1, NamesApart DEF Creating
<1>3. \A s \in Sessions \ {x} : row'[s] = row[s]
  BY DEF FcmFetched, CachePoisoned
<1>4. phase' = [phase EXCEPT ![x] = "CREATED"]
  <2>1. \A s \in Sessions \ {x} : SamePhase(s)
    BY <1>1, <1>2, <1>3 DEF SamePhase
  <2>2. x \in cached' /\ sessionState'[x] = "CREATED"
    BY <1>1
  <2> QED
    BY <1>1, <2>1, <2>2, PhaseChanged
<1>5. phase[x] = "none"
  BY <1>1 DEF phase, Creating
<1> QED
  BY <1>1, <1>4, <1>5 DEF LifeStep, Life!Next, Life!OpenSession

LEMMA LifeAnnounceStart ==
    ASSUME Typed, NEW t \in Tasks, AnnounceStart(t)
    PROVE  LifeStep
<1> DEFINE x == of[t]
<1>1. /\ x \in Sessions /\ cached' = cached /\ row' = row
      /\ sessionState' = [sessionState EXCEPT ![x] = "RUNNING"]
  BY DEF AnnounceStart
<1>2. \A s \in Sessions : Creating(s)' <=> Creating(s)
  BY CreatingKept DEF AnnounceStart
<1>3. \A s \in Sessions \ {x} : SamePhase(s)
  BY <1>1, <1>2 DEF SamePhase
<1>4. CASE x \in cached
  <2>1. phase' = [phase EXCEPT ![x] = "RUNNING"]
    BY <1>1, <1>3, <1>4, PhaseChanged
  <2>2. phase[x] \in Life!Open
    BY <1>1, <1>4 DEF phase, Life!Open
  <2> QED
    BY <1>1, <2>1, <2>2 DEF LifeStep, Life!Next, Life!Start
<1>5. CASE x \notin cached
  <2>1. phase' = phase
    BY <1>1, <1>2, <1>5 DEF phase
  <2> QED
    BY <2>1 DEF LifeStep
<1> QED
  BY <1>4, <1>5
\* Every other step of a handler leaves the phases alone or ends one session.
LEMMA LifeHandler ==
    ASSUME Typed, Safe, ExistsInv, NEW t \in Tasks, Handler(t)
    PROVE  LifeStep
<1>1. CASE \/ MarkOldSessions(t) \/ InsertSession(t) \/ FcmMissing(t) \/ FcmFetched(t)
           \/ CachePoisoned(t) \/ AnnounceStart(t)
  BY <1>1, LifeCreation, LifeCached, LifeAnnounceStart
<1>2. CASE WriteDisconnected(t) \/ EndSessionWithMatch(t)
  <2>1. /\ of[t] \in Sessions /\ UNCHANGED <<sessionState, row>>
        /\ cached' = cached \ {of[t]} \/ cached' = cached
    BY <1>2 DEF WriteDisconnected, EndSessionWithMatch, Terminate
  <2>2. \A s \in Sessions : Creating(s)' <=> Creating(s)
    BY <1>2, CreatingKept DEF WriteDisconnected, EndSessionWithMatch, Terminate
  <2>3. CASE cached' = cached
    BY <2>1, <2>2, <2>3, PhaseKept DEF SamePhase, LifeStep
  <2>4. CASE cached' = cached \ {of[t]}
    BY <2>1, <2>2, <2>4, PhaseEnds, LifeEnds
  <2> QED
    BY <2>1, <2>3, <2>4
<1>3. CASE \/ WriteConnected(t) \/ WriteRunning(t) \/ WriteBroken(t)
           \/ AnnounceTermination(t) \/ NoMatch(t) \/ Match(t) \/ WriteMatched(t)
  <2>1. /\ of[t] \in Sessions /\ UNCHANGED <<cached, sessionState>>
        /\ \A s \in Sessions : s # of[t] => row'[s] = row[s]
        /\ row[of[t]] # "NONE" /\ row'[of[t]] # "NONE"
    BY <1>3 DEF WriteConnected, WriteRunning, WriteBroken, AnnounceTermination, NoMatch, Match,
       WriteMatched, ExistsInv
  <2>2. \A s \in Sessions : Creating(s)' <=> Creating(s)
    BY <1>3, CreatingKept DEF WriteConnected, WriteRunning, WriteBroken, AnnounceTermination,
       NoMatch, Match, WriteMatched
  <2> QED
    BY <2>1, <2>2, PhaseKept DEF SamePhase, LifeStep
<1> QED
  BY <1>1, <1>2, <1>3 DEF Handler

\* A failed transaction abandons a session that was inserted but not yet cached.
LEMMA LifeFails ==
    ASSUME Typed, Safe, ExistsInv, NEW t \in Tasks, VotingFails(t) \/ DbFails(t)
    PROVE  LifeStep
<1>1. CASE VotingFails(t)
  <2>1. of[t] \in Sessions /\ UNCHANGED <<sessionState, row>> /\ cached' = cached \ {of[t]}
    BY <1>1 DEF VotingFails, Terminate
  <2>2. \A s \in Sessions : Creating(s)' <=> Creating(s)
    BY <1>1, CreatingKept DEF VotingFails, Terminate
  <2> QED
    BY <2>1, <2>2, PhaseEnds, LifeEnds
<1>2. CASE DbFails(t) /\ at[t] \notin CreatingAwaits
  <2>1. \A s \in Sessions : Creating(s)' <=> Creating(s)
    BY <1>2, CreatingKept DEF DbFails
  <2> QED
    BY <1>2, <2>1, PhaseKept DEF DbFails, SamePhase, LifeStep
<1>3. CASE DbFails(t) /\ at[t] \in CreatingAwaits
  <2>0. PICK x \in Sessions : x = of[t]
    BY <1>3, ConstantsAssumption DEF DbFails, DbAwaits
  <2>1. /\ x \notin cached /\ UNCHANGED <<cached, sessionState, row>>
        /\ at' = [at EXCEPT ![t] = "idle"] /\ of' = [of EXCEPT ![t] = None]
        /\ \A t2 \in Tasks : of[t2] = x => t2 = t
    BY <1>3, <2>0, ConstantsAssumption DEF DbFails, DbAwaits, Safe, CreatingInv
  <2>2. /\ \A s \in Sessions \ {x} : Creating(s)' <=> Creating(s)
        /\ Creating(x) /\ ~Creating(x)'
    BY <1>3, <2>0, <2>1, NamesApart DEF Creating
  <2>3. \A s \in Sessions \ {x} : SamePhase(s)
    BY <2>1, <2>2 DEF SamePhase
  <2>4. phase[x] = "none"
    BY <2>1, <2>2 DEF phase
  <2>5. CASE row[x] = "NONE"
    <3>1. phase' = [phase EXCEPT ![x] = "none"]
      BY <2>1, <2>3, <2>5, PhaseChanged
    <3>2. phase' = phase
      BY <2>1, <2>4, <3>1 DEF phase
    <3> QED
      BY <3>2 DEF LifeStep
  <2>6. CASE row[x] # "NONE"
    <3>1. phase' = [phase EXCEPT ![x] = "over"]
      <4>1. x \notin cached' /\ row'[x] # "NONE" /\ ~Creating(x)'
        BY <2>1, <2>2, <2>6
      <4> QED
        BY <2>1, <2>3, <4>1, PhaseChanged
    <3> QED
      BY <2>1, <2>4, <3>1 DEF LifeStep, Life!Next, Life!Abandon
  <2> QED
    BY <2>5, <2>6
<1> QED
  BY <1>1, <1>2, <1>3

LEMMA LifeRequest ==
    ASSUME Typed, Safe, ExistsInv, NEW t \in Requests, NEW s \in Sessions,
           \/ TerminateSession(t, s) \/ Vote(t, s)
           \/ \E u \in Users : Request(t, u, s)
    PROVE  LifeStep
<1>t. t \in Tasks
  BY DEF Tasks
<1>1. CASE TerminateSession(t, s)
  <2>1. UNCHANGED <<sessionState, row>> /\ cached' = cached \ {s}
    BY <1>1 DEF TerminateSession, Terminate
  <2>2. \A s2 \in Sessions : Creating(s2)' <=> Creating(s2)
    BY <1>1, <1>t, CreatingKept DEF TerminateSession, Terminate
  <2> QED
    BY <2>1, <2>2, PhaseEnds, LifeEnds
<1>2. ASSUME \/ Vote(t, s)
             \/ \E u \in Users : ConnectUser(t, u, s) \/ DisconnectUser(t, u, s) \/ StartSession(t, u, s)
      PROVE  LifeStep
  <2>1. UNCHANGED <<cached, sessionState, row>>
    BY <1>2 DEF Vote, ConnectUser, DisconnectUser, StartSession
  <2>2. \A s2 \in Sessions : Creating(s2)' <=> Creating(s2)
    BY <1>2, <1>t, CreatingKept DEF Vote, ConnectUser, DisconnectUser, StartSession
  <2> QED
    BY <2>1, <2>2, PhaseKept DEF SamePhase, LifeStep
<1>3. ASSUME NEW u \in Users, NEW invited \in SUBSET Users, CreateNewSession(t, u, s, invited)
      PROVE  LifeStep
  <2>1. UNCHANGED <<cached, sessionState, row>> /\ row[s] = "NONE" /\ s \notin cached
    BY <1>3 DEF CreateNewSession, Unused, Safe, UnusedInv
  <2>2. \A s2 \in Sessions \ {s} : Creating(s2)' <=> Creating(s2)
    BY <1>3, <1>t, NamesApart DEF CreateNewSession, Creating
  <2> QED
    BY <2>1, <2>2 DEF LifeStep, phase
<1> QED
  BY <1>1, <1>2, <1>3 DEF Request

LEMMA LifeRestart ==
    ASSUME Typed, Safe, ExistsInv, Restart
    PROVE  LifeStep
<1> DEFINE lost == {s \in Sessions : phase[s] = "none" /\ row[s] # "NONE"}
<1>1. /\ cached' = {} /\ row' = row /\ \A s \in Sessions : ~Creating(s)'
  BY NamesApart DEF Restart, Creating
<1>2. \A s \in cached : row[s] # "NONE" /\ phase[s] \in Life!Open
  BY DEF ExistsInv, phase, Life!Open
<1>3. \A s \in Sessions \ cached : phase[s] \notin Life!Open
  BY DEF phase, Life!Open
<1>4. phase' = [s \in Sessions |-> IF phase[s] \in Life!Open \/ s \in lost THEN "over" ELSE phase[s]]
  BY <1>1, <1>2, <1>3 DEF phase
<1> QED
  BY <1>4 DEF LifeStep, Life!Next, Life!Lose

LEMMA LifeStepOfNext ==
    ASSUME Typed, Safe, ExistsInv, [Next]_vars
    PROVE  LifeStep
<1>1. ASSUME NEW s \in Sessions, CreationTimeout(s) PROVE LifeStep
  <2>1. s \in Tasks
    BY DEF Tasks
  <2>2. UNCHANGED <<sessionState, row>> /\ cached' = cached \ {s}
    BY <1>1 DEF CreationTimeout, Terminate
  <2>3. \A s2 \in Sessions : Creating(s2)' <=> Creating(s2)
    BY <1>1, <2>1, CreatingKept DEF CreationTimeout, Terminate
  <2> QED
    BY <2>2, <2>3, PhaseEnds, LifeEnds
<1>2. CASE SelectStuck \/ MarkStuck \/ UNCHANGED vars
  <2>1. /\ UNCHANGED <<cached, sessionState, at, of>>
        /\ \A s \in Sessions : row'[s] = "NONE" <=> row[s] = "NONE"
    BY <1>2 DEF SelectStuck, MarkStuck, vars, Safe, SelectedInv
  <2> QED
    BY <2>1, PhaseKept DEF SamePhase, Creating, LifeStep
<1> QED
  BY <1>1, <1>2, LifeHandler, LifeFails, LifeRequest, LifeRestart DEF Next

\* The session cache implements SessionLife: whatever overlaps, fails or crashes,
\* a session is opened at most once, never reverts to CREATED and never comes back
\* once it is over.
THEOREM LivesOnceSafely == Spec => Life!Spec
<1>1. Init => Life!Init
  BY NamesApart DEF Init, Life!Init, phase, Creating
<1>2. Init => IInv /\ ExistsInv
  BY TypedInit, SafeInit, ExistsInit DEF IInv
<1>3. IInv /\ ExistsInv /\ [Next]_vars => (IInv /\ ExistsInv)'
  BY TypedStep, SafeStep, ExistsStep DEF IInv
<1>4. IInv /\ ExistsInv /\ [Next]_vars => [Life!Next]_phase
  BY LifeStepOfNext DEF IInv, LifeStep
<1> QED
  BY <1>1, <1>2, <1>3, <1>4, PTL DEF Spec, Life!Spec
=============================================================================
