-------------------------- MODULE SessionSetup_proofs --------------------------
(* SessionSetup adds to the life cycle and takes nothing from it, so that    *)
(* every theorem of SessionLifecycle_proofs carries over; and its own        *)
(* invariants, for every number of sessions, users, requests and groups.     *)
EXTENDS SessionSetup, SessionLifecycle_proofs

USE DEF SessionsByState, UpdateStates, MarkBroken, UpdateState, InsertSessionRow,
        InsertSessionUsers, InsertNewSession, UpdateConnected,
        Suspended, Becomes, Continues, Ends, Free, objects, rows, tasks, recovery

-----------------------------------------------------------------------------
(* Every step of the set-up is one of the life cycle, or leaves it alone.    *)

LEMMA SetupSteps ==
    ASSUME cached \subseteq Sessions, [SetupNext]_setupVars
    PROVE  [Next]_vars
<1>t. Requests \subseteq Tasks
  BY DEF Tasks
<1>1. ASSUME NEW t \in Tasks, TaskStep(t) PROVE Next
  BY <1>1 DEF TaskStep, OtherHandler, SessionCached, PoisonedCached, MemberConnected,
     MemberDisconnected, Terminated, TransactionFails, Handler, Next
<1>2. ASSUME NEW t \in Requests, NEW u \in Users, NEW s \in Sessions, RequestStep(t, u, s)
      PROVE  Next
  BY <1>2 DEF RequestStep, CreateSession, ConnectMember, DisconnectMember, StartMembers,
     Request, Next
<1>3. ASSUME NEW s \in Sessions, SessionStep(s) PROVE Next \/ UNCHANGED vars
  BY <1>3 DEF SessionStep, FindGroup, InsertGroup, InviteMembers, InviteThrows, GroupFails, CreatorUnknown,
     RejectSessionInvite, TerminateByRequest, VoteOf, Next
<1>4. ASSUME NEW u \in Users, UserStep(u) PROVE Next \/ UNCHANGED vars
  <2>1. ASSUME NEW t \in Requests, ReconnectTimeout(t, u) PROVE Next
    <3>1. PICK s \in Sessions : DisconnectUser(t, u, s)
      BY <2>1 DEF ReconnectTimeout, ConnectedIn, DisconnectMember
    <3> QED
      BY <3>1 DEF Next, Request
  <2> QED
    BY <1>4, <2>1 DEF UserStep, CheckUsersAvailability, HasFcmToken, OnlineStatusThrows
<1> QED
  BY <1>1, <1>2, <1>3, <1>4 DEF SetupNext, RestartService, Next, setupVars

LEMMA SetupTypedInit == SetupInit => Typed /\ SetupTypeOK
<1>1. SetupInit => Typed
  BY TypedInit DEF SetupInit
<1> QED
  BY <1>1 DEF SetupInit, SetupTypeOK, Typed, Steps

LEMMA SetupTypedStep ==
    ASSUME Typed, SetupTypeOK, [SetupNext]_setupVars
    PROVE  Typed' /\ SetupTypeOK'
<1>0. Typed'
  BY SetupSteps, TypedStep DEF Typed, TypeOK
<1>k. ASSUME UNCHANGED setup PROVE SetupTypeOK'
  BY <1>0, <1>k DEF SetupTypeOK, setup, Typed
<1>t. Requests \subseteq Tasks /\ Sessions \subseteq Tasks
  BY DEF Tasks
<1>w. ASSUME NEW t \in Tasks, at[t] # "idle" PROVE of[t] \in Sessions
  BY <1>w DEF Typed, WorkingInv
<1>1. ASSUME NEW t \in Tasks, TaskStep(t) PROVE SetupTypeOK'
  <2>1. CASE SessionCached(t) \/ PoisonedCached(t)
    BY <2>1, <1>0, <1>w DEF SessionCached, PoisonedCached, FcmFetched, CachePoisoned, Proceeds,
       SetupTypeOK, Typed, Steps
  <2>2. CASE MemberConnected(t)
    <3>1. of[t] \in Sessions /\ by[t] \in Users /\ isConnected[of[t]] \subseteq Users
      BY <2>2 DEF MemberConnected, WriteConnected, Typed, TypeOK, WorkingInv
    <3>2. announced' \in [Sessions -> SUBSET (Users \X Users)]
      BY <2>2, <3>1 DEF MemberConnected, Announce, SetupTypeOK
    <3> QED
      BY <2>2, <3>2, <1>0 DEF MemberConnected, SetupTypeOK, Typed
  <2>3. CASE MemberDisconnected(t) \/ Terminated(t) \/ TransactionFails(t)
    BY <2>3, <1>0 DEF MemberDisconnected, Terminated, TransactionFails, SetupTypeOK, Typed
  <2> QED
    BY <1>1, <1>k, <2>1, <2>2, <2>3 DEF TaskStep
<1>d. ASSUME NEW t, NEW u \in Users, NEW s, DisconnectMember(t, u, s) PROVE SetupTypeOK'
  BY <1>d, <1>0 DEF DisconnectMember, SetupTypeOK, Typed
<1>2. ASSUME NEW t \in Requests, NEW u \in Users, NEW s \in Sessions, RequestStep(t, u, s)
      PROVE  SetupTypeOK'
  <2>1. ASSUME NEW invited, CreateSession(t, u, s, invited) PROVE SetupTypeOK'
    BY <2>1, <1>0 DEF CreateSession, SetupTypeOK, Typed
  <2> QED
    BY <1>2, <1>k, <1>d, <2>1 DEF RequestStep, ConnectMember, StartMembers
<1>3. ASSUME NEW s \in Sessions, SessionStep(s) PROVE SetupTypeOK'
  <2>1. CASE FindGroup(s)
    BY <2>1, <1>0 DEF FindGroup, GroupsOf, UpdateGroupMetadata, UpdateGroupUUID, Proceeds, SetupTypeOK, Steps, Typed
  <2>2. CASE InsertGroup(s)
    <3>1. roster[s] \subseteq Users
      BY DEF Typed, TypeOK
    <3> QED
      BY <2>2, <3>1, <1>0 DEF InsertGroup, CreateNewGroup, UpdateGroupMetadata, UpdateGroupUUID, Proceeds,
         SetupTypeOK, Steps, Typed
  <2>3. CASE InviteMembers(s)
    <3>1. PICK busy : \/ UNCHANGED announced
                      \/ announced' = [announced EXCEPT ![s] = @ \ busy]
      BY <2>3 DEF InviteMembers, TellRejected
    <3>2. announced' \in [Sessions -> SUBSET (Users \X Users)]
      BY <3>1 DEF SetupTypeOK
    <3>3. step' \in [Sessions -> Steps] /\ doomed' \in BOOLEAN
      BY <2>3 DEF InviteMembers, Proceeds, SetupTypeOK, Steps
    <3> QED
      BY <2>3, <3>2, <3>3, <1>0 DEF InviteMembers, SetupTypeOK, Typed
  <2>4. CASE InviteThrows(s) \/ GroupFails(s) \/ CreatorUnknown(s)
    BY <2>4, <1>0 DEF InviteThrows, GroupFails, CreatorUnknown, Proceeds, SetupTypeOK, Steps, Typed
  <2>5. ASSUME NEW u \in Users, RejectSessionInvite(u, s) PROVE SetupTypeOK'
    BY <2>5, <1>0 DEF RejectSessionInvite, TellRejected, SetupTypeOK, Typed
  <2> QED
    BY <1>3, <1>k, <2>1, <2>2, <2>3, <2>4, <2>5 DEF SessionStep, TerminateByRequest, VoteOf
<1>4. ASSUME NEW u \in Users, UserStep(u) PROVE SetupTypeOK'
  BY <1>4, <1>0, <1>d DEF UserStep, CheckUsersAvailability, HasFcmToken, OnlineStatusThrows, ReconnectTimeout,
     SetupTypeOK, Typed
<1>5. CASE RestartService
  BY <1>5, <1>0 DEF RestartService, SetupTypeOK, Steps, Typed
<1>6. CASE UNCHANGED setupVars
  <2>1. UNCHANGED setup
    BY <1>6 DEF setupVars, setup, vars
  <2> QED
    BY <2>1, <1>k, <1>0
<1> QED
  BY <1>0, <1>1, <1>2, <1>3, <1>4, <1>5, <1>6, <1>k DEF SetupNext

LEMMA SetupTyped == SetupSpec => [](Typed /\ SetupTypeOK)
<1>1. Typed /\ SetupTypeOK /\ [SetupNext]_setupVars => (Typed /\ SetupTypeOK)'
  BY SetupTypedStep
<1> QED
  BY <1>1, SetupTypedInit, PTL DEF SetupSpec

\* Type correctness of the set-up and of the life cycle within it.
THEOREM SetupTypeCorrect == SetupSpec => []SetupTypeOK
  BY SetupTyped, PTL

\* The controllers, the groups and the invitations add steps around those of the
\* session cache, and no behaviour to it: what is proved of the life cycle holds
\* of the sessions that are set up this way.
THEOREM SetupIsLifecycle == SetupSpec => Spec
<1>1. SetupInit => Init
  BY DEF SetupInit
<1>2. Typed /\ [SetupNext]_setupVars => [Next]_vars
  BY SetupSteps DEF Typed, TypeOK
<1> QED
  BY <1>1, <1>2, SetupTyped, PTL DEF SetupSpec, Spec

LEMMA SetupSafe == SetupSpec => [](IInv /\ SetupTypeOK)
  BY SetupIsLifecycle, Inductive, SetupTypeCorrect, PTL

-----------------------------------------------------------------------------
(* Groups                                                                  *)

\* A session is created by its creator.
CreatedByInv == \A t \in Tasks : at[t] \in CreatingAwaits => by[t] = creator[of[t]]

\* What no request has claimed is not set up.
UnclaimedInv == \A s \in Sessions : creator[s] = None => step[s] = "none" /\ groupOf[s] = None

HoldsInv == \A s \in Sessions : groupOf[s] # None => roster[s] \subseteq groupRow[groupOf[s]]

\* Invitations go out once there is a group; before, only the creator is there.
InvitedInv ==
    \A s \in Sessions :
        /\ step[s] \in {"fetchCreator", "invited"} => groupOf[s] # None
        /\ s \in cached /\ step[s] # "invited" => isConnected[s] \subseteq {creator[s]}

GroupInv == CreatedByInv /\ UnclaimedInv /\ HoldsInv /\ InvitedInv

LEMMA GroupInit == SetupInit => GroupInv
  BY DEF SetupInit, Init, GroupInv, CreatedByInv, UnclaimedInv, HoldsInv, InvitedInv, CreatingAwaits

\* A step that sets nothing up, and creates and caches no session.
LEMMA GroupKept ==
    ASSUME GroupInv, cached' \subseteq cached,
           UNCHANGED <<isConnected, roster, creator, step, groupRow, groupOf>>,
           \A t \in Tasks : at'[t] \in CreatingAwaits =>
              at[t] \in CreatingAwaits /\ of'[t] = of[t] /\ by'[t] = by[t]
    PROVE  GroupInv'
  BY DEF GroupInv, CreatedByInv, UnclaimedInv, HoldsInv, InvitedInv

LEMMA GroupStep ==
    ASSUME IInv, SetupTypeOK, GroupInv, [SetupNext]_setupVars
    PROVE  GroupInv'
<1> USE DEF IInv, Typed, TypeOK, WorkingInv, SetupTypeOK
<1>t. Requests \subseteq Tasks /\ Sessions \subseteq Tasks
  BY DEF Tasks
<1>1. ASSUME NEW t \in Tasks, TaskStep(t) PROVE GroupInv'
  <2>1. ASSUME OtherHandler(t), UNCHANGED setup PROVE GroupInv'
    <3>1. /\ cached' \subseteq cached
          /\ UNCHANGED <<isConnected, roster, creator, step, groupRow, groupOf>>
      BY <2>1 DEF OtherHandler, MarkOldSessions, InsertSession, FcmMissing, WriteRunning,
         AnnounceStart, WriteBroken, NoMatch, Match, EndSessionWithMatch, WriteMatched,
         VotingFails, Terminate, setup
    <3>2. \A t2 \in Tasks : at'[t2] \in CreatingAwaits =>
              at[t2] \in CreatingAwaits /\ of'[t2] = of[t2] /\ by'[t2] = by[t2]
      BY <2>1 DEF OtherHandler, MarkOldSessions, InsertSession, FcmMissing, WriteRunning,
         AnnounceStart, WriteBroken, NoMatch, Match, EndSessionWithMatch, WriteMatched,
         VotingFails, Terminate, CreatingAwaits
    <3> QED
      BY <3>1, <3>2, GroupKept
  <2>2. CASE MemberConnected(t) \/ MemberDisconnected(t) \/ Terminated(t) \/ TransactionFails(t)
    <3>1. UNCHANGED <<isConnected, roster, creator, step, groupRow, groupOf>>
      BY <2>2 DEF MemberConnected, MemberDisconnected, Terminated, TransactionFails,
         WriteConnected, WriteDisconnected, AnnounceTermination, DbFails
    <3>2. WriteConnected(t) \/ WriteDisconnected(t) \/ AnnounceTermination(t) \/ DbFails(t)
      BY <2>2 DEF MemberConnected, MemberDisconnected, Terminated, TransactionFails
    <3>3. /\ cached' \subseteq cached
          /\ \A t2 \in Tasks : at'[t2] \in CreatingAwaits =>
                at[t2] \in CreatingAwaits /\ of'[t2] = of[t2] /\ by'[t2] = by[t2]
      <4>1. CASE WriteConnected(t)
        BY <4>1 DEF WriteConnected, CreatingAwaits
      <4>2. CASE WriteDisconnected(t)
        BY <4>2 DEF WriteDisconnected, Terminate, CreatingAwaits
      <4>3. CASE AnnounceTermination(t) \/ DbFails(t)
        BY <4>3 DEF AnnounceTermination, DbFails, CreatingAwaits
      <4> QED
        BY <3>2, <4>1, <4>2, <4>3
    <3> QED
      BY <3>1, <3>3, GroupKept
  <2>3. CASE SessionCached(t) \/ PoisonedCached(t)
    <3>1. /\ of[t] \in Sessions /\ by[t] = creator[of[t]]
          /\ creator[of[t]] # None
      BY <2>3, ConstantsAssumption
         DEF SessionCached, PoisonedCached, FcmFetched, CachePoisoned, GroupInv, CreatedByInv, CreatingAwaits
    <3>2. /\ UNCHANGED <<roster, creator, groupRow, groupOf>>
          /\ cached' = cached \cup {of[t]}
          /\ \E next \in {"findGroup", "failed"} : step' = [step EXCEPT ![of[t]] = next]
          /\ \E some \in {{}, {by[t]}} : isConnected' = [isConnected EXCEPT ![of[t]] = some]
      BY <2>3 DEF SessionCached, PoisonedCached, FcmFetched, CachePoisoned, CacheSession, Proceeds
    <3>3. CreatedByInv'
      BY <2>3, <3>2 DEF SessionCached, PoisonedCached, FcmFetched, CachePoisoned, CacheSession,
         GroupInv, CreatedByInv, CreatingAwaits
    <3>4. UnclaimedInv' /\ HoldsInv'
      BY <3>1, <3>2 DEF GroupInv, UnclaimedInv, HoldsInv
    <3>5. InvitedInv'
      BY <3>1, <3>2 DEF GroupInv, InvitedInv
    <3> QED
      BY <3>3, <3>4, <3>5 DEF GroupInv
  <2> QED
    BY <1>1, <2>1, <2>2, <2>3 DEF TaskStep
<1>d. ASSUME NEW t \in Requests, NEW u \in Users, NEW s, DisconnectMember(t, u, s) PROVE GroupInv'
  BY <1>d, <1>t DEF DisconnectMember, DisconnectUser, GroupInv, CreatedByInv, UnclaimedInv, HoldsInv,
     InvitedInv, CreatingAwaits
<1>2. ASSUME NEW t \in Requests, NEW u \in Users, NEW s \in Sessions, RequestStep(t, u, s)
      PROVE  GroupInv'
  <2>1. ASSUME NEW invited \in SUBSET Users, CreateSession(t, u, s, invited) PROVE GroupInv'
    <3>1. creator[s] = None /\ s \notin cached /\ u # None /\ groupOf[s] = None
      BY <2>1, ConstantsAssumption
         DEF CreateSession, CreateNewSession, Unused, Safe, UnusedInv, GroupInv, UnclaimedInv
    <3>2. \A t2 \in Tasks : of[t2] # s
      BY <3>1 DEF Safe, UnusedInv
    <3>3. CreatedByInv'
      BY <2>1, <3>2, <1>t DEF CreateSession, CreateNewSession, GroupInv, CreatedByInv, CreatingAwaits
    <3>4. UnclaimedInv' /\ HoldsInv'
      BY <2>1, <3>1 DEF CreateSession, CreateNewSession, GroupInv, UnclaimedInv, HoldsInv
    <3>5. InvitedInv'
      BY <2>1, <3>1 DEF CreateSession, CreateNewSession, GroupInv, InvitedInv
    <3> QED
      BY <3>3, <3>4, <3>5 DEF GroupInv
  <2>2. CASE ConnectMember(t, u, s)
    <3>1. CreatedByInv'
      BY <2>2, <1>t DEF ConnectMember, ConnectUser, GroupInv, CreatedByInv, CreatingAwaits
    <3>2. UnclaimedInv' /\ HoldsInv'
      BY <2>2 DEF ConnectMember, ConnectUser, setup, GroupInv, UnclaimedInv, HoldsInv
    <3>3. InvitedInv'
      BY <2>2 DEF ConnectMember, ConnectUser, KnowsOf, setup, GroupInv, InvitedInv
    <3> QED
      BY <3>1, <3>2, <3>3 DEF GroupInv
  <2>3. CASE StartMembers(t, u, s)
    BY <2>3, <1>t, GroupKept DEF StartMembers, StartSession, setup, CreatingAwaits
  <2> QED
    BY <1>2, <1>d, <2>1, <2>2, <2>3 DEF RequestStep
<1>3. ASSUME NEW s \in Sessions, SessionStep(s) PROVE GroupInv'
  <2>1. CASE FindGroup(s) \/ InsertGroup(s)
    <3>1. /\ UNCHANGED <<cached, isConnected, roster, creator, at, of, by>>
          /\ step[s] \in {"findGroup", "insertGroup"}
      BY <2>1 DEF FindGroup, InsertGroup, vars
    <3>2. /\ \A g \in Groups : groupRow[g] \subseteq groupRow'[g]
          /\ \/ /\ \E next \in {"insertGroup", "failed"} : step' = [step EXCEPT ![s] = next]
                /\ groupOf' = groupOf
             \/ \E g \in Groups : /\ roster[s] \subseteq groupRow'[g]
                                  /\ groupOf' = [groupOf EXCEPT ![s] = g]
                                  /\ step' = [step EXCEPT ![s] = "fetchCreator"]
      BY <2>1 DEF FindGroup, InsertGroup, GroupsOf, CreateNewGroup, UpdateGroupMetadata, UpdateGroupUUID, Proceeds
    <3>3. creator[s] # None
      BY <3>1 DEF GroupInv, UnclaimedInv
    <3>4. CreatedByInv'
      BY <3>1 DEF GroupInv, CreatedByInv
    <3>5. UnclaimedInv' /\ HoldsInv'
      BY <3>1, <3>2, <3>3 DEF GroupInv, UnclaimedInv, HoldsInv
    <3>6. InvitedInv'
      BY <3>1, <3>2, SetupAssumption DEF GroupInv, InvitedInv
    <3> QED
      BY <3>4, <3>5, <3>6 DEF GroupInv
  <2>2. CASE InviteMembers(s) \/ InviteThrows(s) \/ GroupFails(s) \/ CreatorUnknown(s)
    <3>1. /\ UNCHANGED <<cached, isConnected, roster, creator, at, of, by, groupRow, groupOf>>
          /\ step[s] \in {"findGroup", "insertGroup", "fetchCreator"}
          /\ \/ step' = [step EXCEPT ![s] = "invited"] /\ step[s] = "fetchCreator"
             \/ step' = [step EXCEPT ![s] = "failed"]
             \/ UNCHANGED step
      BY <2>2 DEF InviteMembers, InviteThrows, GroupFails, CreatorUnknown, Proceeds, vars
    <3> QED
      BY <3>1 DEF GroupInv, CreatedByInv, UnclaimedInv, HoldsInv, InvitedInv
  <2>3. ASSUME CreationTimeout(s), UNCHANGED setup PROVE GroupInv'
    BY <2>3, <1>t, GroupKept DEF CreationTimeout, Terminate, setup, CreatingAwaits
  <2>4. ASSUME NEW u \in Users, RejectSessionInvite(u, s) PROVE GroupInv'
    BY <2>4, GroupKept DEF RejectSessionInvite, vars, CreatingAwaits
  <2>5. ASSUME NEW t \in Requests, TerminateByRequest(t, s) \/ VoteOf(t, s) PROVE GroupInv'
    BY <2>5, <1>t, GroupKept DEF TerminateByRequest, VoteOf, TerminateSession, Vote, Terminate,
       setup, CreatingAwaits
  <2> QED
    BY <1>3, <2>1, <2>2, <2>3, <2>4, <2>5 DEF SessionStep
<1>4. ASSUME NEW u \in Users, UserStep(u) PROVE GroupInv'
  <2>1. CASE CheckUsersAvailability(u) \/ OnlineStatusThrows(u)
    BY <2>1, GroupKept DEF CheckUsersAvailability, HasFcmToken, OnlineStatusThrows, vars, CreatingAwaits
  <2> QED
    BY <1>4, <1>d, <2>1 DEF UserStep, ReconnectTimeout
<1>5. ASSUME SelectStuck \/ MarkStuck, UNCHANGED setup PROVE GroupInv'
  BY <1>5, GroupKept DEF SelectStuck, MarkStuck, setup, CreatingAwaits
<1>6. CASE RestartService
  BY <1>6 DEF RestartService, Restart, GroupInv, CreatedByInv, UnclaimedInv, HoldsInv, InvitedInv,
     CreatingAwaits
<1>7. CASE UNCHANGED setupVars
  BY <1>7, GroupKept DEF setupVars, setup, vars, CreatingAwaits
<1> QED
  BY <1>1, <1>2, <1>3, <1>4, <1>5, <1>6, <1>7 DEF SetupNext

\* The group given to a session has all its members, however many sessions look
\* for groups and make them at a time (ensureGroupExists), and members join only
\* once the session has one.
THEOREM GroupsHold == SetupSpec => []GroupHoldsMembers
<1>1. IInv /\ SetupTypeOK /\ GroupInv /\ [SetupNext]_setupVars => GroupInv'
  BY GroupStep
<1>2. GroupInv => GroupHoldsMembers
  BY DEF GroupInv, HoldsInv, InvitedInv, GroupHoldsMembers
<1> QED
  BY <1>1, <1>2, GroupInit, SetupSafe, PTL DEF SetupSpec

-----------------------------------------------------------------------------
(* What members are told of each other                                     *)

\* A step that caches and connects nobody, tells nothing, and ends no write.
LEMMA AnnouncedKept ==
    ASSUME ConnectionsAreAnnounced, cached' \subseteq cached, UNCHANGED <<isConnected, announced>>,
           \A t \in Tasks : at[t] = "writeConnected" =>
              at'[t] = at[t] /\ of'[t] = of[t] /\ by'[t] = by[t]
    PROVE  ConnectionsAreAnnounced'
<1> SUFFICES ASSUME NEW x \in cached, NEW a \in isConnected[x], NEW b \in isConnected[x], a # b,
                    ~Connecting(a, x)', ~Connecting(b, x)'
             PROVE  <<a, b>> \in announced[x] \/ <<b, a>> \in announced[x]
  BY DEF ConnectionsAreAnnounced
<1>1. ~Connecting(a, x) /\ ~Connecting(b, x)
  BY DEF Connecting
<1> QED
  BY <1>1 DEF ConnectionsAreAnnounced

\* The same for members that leave, or that are told of those not connected.
LEMMA AnnouncedOfOthers ==
    ASSUME ConnectionsAreAnnounced, UNCHANGED cached,
           \A x \in cached : \A a, b \in isConnected'[x] :
              /\ a \in isConnected[x] /\ b \in isConnected[x]
              /\ <<a, b>> \in announced[x] => <<a, b>> \in announced'[x],
           \A t \in Tasks : at[t] = "writeConnected" =>
              at'[t] = at[t] /\ of'[t] = of[t] /\ by'[t] = by[t]
    PROVE  ConnectionsAreAnnounced'
<1> SUFFICES ASSUME NEW x \in cached, NEW a \in isConnected'[x], NEW b \in isConnected'[x], a # b,
                    ~Connecting(a, x)', ~Connecting(b, x)'
             PROVE  <<a, b>> \in announced'[x] \/ <<b, a>> \in announced'[x]
  BY DEF ConnectionsAreAnnounced
<1>1. ~Connecting(a, x) /\ ~Connecting(b, x)
  BY DEF Connecting
<1>2. <<a, b>> \in announced[x] \/ <<b, a>> \in announced[x]
  BY <1>1 DEF ConnectionsAreAnnounced
<1> QED
  BY <1>2

LEMMA AnnouncedStep ==
    ASSUME "writeConnected" \notin MayFail, IInv, SetupTypeOK, GroupInv, ConnectionsAreAnnounced,
           [SetupNext]_setupVars
    PROVE  ConnectionsAreAnnounced'
<1> USE DEF IInv, Typed, TypeOK, WorkingInv, SetupTypeOK
<1>t. Requests \subseteq Tasks /\ Sessions \subseteq Tasks
  BY DEF Tasks
<1>0. SetupTypeOK'
  BY SetupTypedStep
<1>1. ASSUME NEW t \in Tasks, TaskStep(t) PROVE ConnectionsAreAnnounced'
  <2>1. ASSUME OtherHandler(t), UNCHANGED setup PROVE ConnectionsAreAnnounced'
    <3>1. /\ cached' \subseteq cached
          /\ UNCHANGED <<isConnected, announced>>
      BY <2>1 DEF OtherHandler, MarkOldSessions, InsertSession, FcmMissing, WriteRunning,
         AnnounceStart, WriteBroken, NoMatch, Match, EndSessionWithMatch, WriteMatched,
         VotingFails, Terminate, setup
    <3>2. \A t2 \in Tasks : at[t2] = "writeConnected" =>
              at'[t2] = at[t2] /\ of'[t2] = of[t2] /\ by'[t2] = by[t2]
      BY <2>1 DEF OtherHandler, MarkOldSessions, InsertSession, FcmMissing, WriteRunning,
         AnnounceStart, WriteBroken, NoMatch, Match, EndSessionWithMatch, WriteMatched,
         VotingFails, Terminate
    <3> QED
      BY <3>1, <3>2, AnnouncedKept
  <2>2. CASE MemberConnected(t)
    <3>1. of[t] \in Sessions /\ by[t] \in Users
      BY <2>2 DEF MemberConnected, WriteConnected
    <3>2. UNCHANGED <<cached, isConnected>>
      BY <2>2 DEF MemberConnected, WriteConnected
    <3>3. \A t2 \in Tasks \ {t} : at'[t2] = at[t2] /\ of'[t2] = of[t2] /\ by'[t2] = by[t2]
      BY <2>2 DEF MemberConnected, WriteConnected
    <3>4. /\ \A x \in Sessions : announced[x] \subseteq announced'[x]
          /\ of[t] \in cached => (isConnected[of[t]] \ {by[t]}) \X {by[t]} \subseteq announced'[of[t]]
      BY <2>2, <3>1 DEF MemberConnected, Announce
    <3> SUFFICES ASSUME NEW x \in cached, NEW a \in isConnected[x], NEW b \in isConnected[x], a # b,
                        ~Connecting(a, x)', ~Connecting(b, x)'
                 PROVE  <<a, b>> \in announced'[x] \/ <<b, a>> \in announced'[x]
      BY <3>2 DEF ConnectionsAreAnnounced
    <3>5. CASE x = of[t] /\ by[t] \in {a, b}
      BY <3>4, <3>5
    <3>6. CASE ~(x = of[t] /\ by[t] \in {a, b})
      <4>1. ~Connecting(a, x) /\ ~Connecting(b, x)
        BY <3>3, <3>6 DEF Connecting
      <4>2. <<a, b>> \in announced[x] \/ <<b, a>> \in announced[x]
        BY <4>1 DEF ConnectionsAreAnnounced
      <4> QED
        BY <4>2, <3>4
    <3> QED
      BY <3>5, <3>6
  <2>3. CASE MemberDisconnected(t) \/ Terminated(t) \/ TransactionFails(t)
    <3>1. WriteDisconnected(t) \/ AnnounceTermination(t) \/ DbFails(t)
      BY <2>3 DEF MemberDisconnected, Terminated, TransactionFails
    <3>2. UNCHANGED announced
      BY <2>3 DEF MemberDisconnected, Terminated, TransactionFails
    <3>3. /\ cached' \subseteq cached /\ UNCHANGED isConnected
          /\ at[t] # "writeConnected"
          /\ \A t2 \in Tasks \ {t} : at'[t2] = at[t2] /\ of'[t2] = of[t2] /\ by'[t2] = by[t2]
      <4>1. CASE WriteDisconnected(t)
        BY <4>1 DEF WriteDisconnected, Terminate
      <4>2. CASE AnnounceTermination(t) \/ DbFails(t)
        BY <4>2 DEF AnnounceTermination, DbFails
      <4> QED
        BY <3>1, <4>1, <4>2
    <3> QED
      BY <3>2, <3>3, AnnouncedKept
  <2>4. CASE SessionCached(t) \/ PoisonedCached(t)
    <3>1. of[t] \in Sessions /\ \A t2 \in Tasks : of[t2] = of[t] => t2 = t
      BY <2>4 DEF SessionCached, PoisonedCached, FcmFetched, CachePoisoned, Safe, CreatingInv, CreatingAwaits
    <3>2. /\ cached' = cached \cup {of[t]} /\ UNCHANGED announced
          /\ \E some \in {{}, {by[t]}} : isConnected' = [isConnected EXCEPT ![of[t]] = some]
          /\ at[t] # "writeConnected"
          /\ \A t2 \in Tasks \ {t} : at'[t2] = at[t2] /\ of'[t2] = of[t2] /\ by'[t2] = by[t2]
      BY <2>4 DEF SessionCached, PoisonedCached, FcmFetched, CachePoisoned, CacheSession
    <3> SUFFICES ASSUME NEW x \in cached', NEW a \in isConnected'[x], NEW b \in isConnected'[x], a # b,
                        ~Connecting(a, x)', ~Connecting(b, x)'
                 PROVE  <<a, b>> \in announced[x] \/ <<b, a>> \in announced[x]
      BY <3>2 DEF ConnectionsAreAnnounced
    <3>3. x # of[t] /\ x \in cached /\ isConnected'[x] = isConnected[x]
      BY <3>1, <3>2
    <3>4. ~Connecting(a, x) /\ ~Connecting(b, x)
      BY <3>2 DEF Connecting
    <3> QED
      BY <3>3, <3>4 DEF ConnectionsAreAnnounced
  <2> QED
    BY <1>1, <2>1, <2>2, <2>3, <2>4 DEF TaskStep
<1>d. ASSUME NEW t \in Requests, NEW u \in Users, NEW s \in cached, DisconnectMember(t, u, s)
      PROVE  ConnectionsAreAnnounced'
  <2>1. /\ UNCHANGED cached
        /\ isConnected' = [isConnected EXCEPT ![s] = @ \ {u}]
        /\ \A t2 \in Tasks : at[t2] = "writeConnected" =>
              at'[t2] = at[t2] /\ of'[t2] = of[t2] /\ by'[t2] = by[t2]
    BY <1>d, <1>t DEF DisconnectMember, DisconnectUser
  <2>2. \A x \in cached : \A a, b \in isConnected'[x] :
           /\ a \in isConnected[x] /\ b \in isConnected[x]
           /\ <<a, b>> \in announced[x] => <<a, b>> \in announced'[x]
    BY <1>d, <2>1 DEF DisconnectMember
  <2> QED
    BY <2>1, <2>2, AnnouncedOfOthers
<1>2. ASSUME NEW t \in Requests, NEW u \in Users, NEW s \in Sessions, RequestStep(t, u, s)
      PROVE  ConnectionsAreAnnounced'
  <2>1. ASSUME StartMembers(t, u, s) \/ \E invited \in SUBSET Users : CreateSession(t, u, s, invited)
        PROVE  ConnectionsAreAnnounced'
    BY <2>1, <1>t, AnnouncedKept DEF StartMembers, StartSession, CreateSession, CreateNewSession, setup
  <2>2. CASE ConnectMember(t, u, s)
    <3>1. /\ UNCHANGED <<cached, announced>>
          /\ isConnected' = [isConnected EXCEPT ![s] = @ \cup {u}]
          /\ \A t2 \in Tasks : at[t2] = "writeConnected" =>
                at'[t2] = at[t2] /\ of'[t2] = of[t2] /\ by'[t2] = by[t2]
      BY <2>2, <1>t DEF ConnectMember, ConnectUser, setup
    <3>2. Connecting(u, s)'
      BY <2>2, <1>t DEF ConnectMember, ConnectUser, Connecting
    <3> SUFFICES ASSUME NEW x \in cached, NEW a \in isConnected'[x], NEW b \in isConnected'[x], a # b,
                        ~Connecting(a, x)', ~Connecting(b, x)'
                 PROVE  <<a, b>> \in announced[x] \/ <<b, a>> \in announced[x]
      BY <3>1 DEF ConnectionsAreAnnounced
    <3>3. ~(x = s /\ u \in {a, b})
      BY <3>2
    <3>4. ~Connecting(a, x) /\ ~Connecting(b, x)
      BY <3>1 DEF Connecting
    <3>5. a \in isConnected[x] /\ b \in isConnected[x]
      BY <3>1, <3>3
    <3> QED
      BY <3>4, <3>5 DEF ConnectionsAreAnnounced
  <2>3. CASE DisconnectMember(t, u, s)
    BY <2>3, <1>d DEF DisconnectMember, DisconnectUser
  <2> QED
    BY <1>2, <2>1, <2>2, <2>3 DEF RequestStep
<1>3. ASSUME NEW s \in Sessions, SessionStep(s) PROVE ConnectionsAreAnnounced'
  <2>1. CASE FindGroup(s) \/ InsertGroup(s) \/ InviteThrows(s) \/ GroupFails(s) \/ CreatorUnknown(s)
    BY <2>1, AnnouncedKept DEF FindGroup, InsertGroup, InviteThrows, GroupFails, CreatorUnknown, vars
  <2>2. CASE InviteMembers(s)
    <3>1. UNCHANGED vars
      BY <2>2 DEF InviteMembers
    <3>2. CASE UNCHANGED announced
      BY <3>1, <3>2, AnnouncedKept DEF vars
    <3>3. CASE s \in cached /\ announced' # announced
      <4>1. isConnected[s] \subseteq {creator[s]}
        BY <2>2, <3>3 DEF InviteMembers, GroupInv, InvitedInv
      <4>2. \A x \in Sessions \ {s} : announced'[x] = announced[x]
        BY <2>2 DEF InviteMembers, TellRejected
      <4>3. UNCHANGED <<cached, isConnected, at, of, by>>
        BY <3>1 DEF vars
      <4> SUFFICES ASSUME NEW x \in cached, NEW a \in isConnected[x], NEW b \in isConnected[x], a # b,
                          ~Connecting(a, x)', ~Connecting(b, x)'
                   PROVE  <<a, b>> \in announced'[x] \/ <<b, a>> \in announced'[x]
        BY <4>3 DEF ConnectionsAreAnnounced
      <4>4. x # s
        BY <4>1
      <4>5. ~Connecting(a, x) /\ ~Connecting(b, x)
        BY <4>3 DEF Connecting
      <4> QED
        BY <4>2, <4>4, <4>5 DEF ConnectionsAreAnnounced
    <3>4. CASE s \notin cached /\ announced' # announced
      <4>1. \A x \in cached : announced'[x] = announced[x]
        BY <2>2, <3>4 DEF InviteMembers, TellRejected
      <4> QED
        BY <3>1, <4>1 DEF vars, ConnectionsAreAnnounced, Connecting
    <3> QED
      BY <3>2, <3>3, <3>4
  <2>3. ASSUME CreationTimeout(s), UNCHANGED setup PROVE ConnectionsAreAnnounced'
    BY <2>3, <1>t, AnnouncedKept DEF CreationTimeout, Terminate, setup
  <2>4. ASSUME NEW u \in Users, RejectSessionInvite(u, s) PROVE ConnectionsAreAnnounced'
    <3>1. UNCHANGED <<cached, isConnected, at, of, by>>
      BY <2>4 DEF RejectSessionInvite, vars
    <3>2. \A x \in cached : \A a, b \in isConnected'[x] :
             <<a, b>> \in announced[x] => <<a, b>> \in announced'[x]
      BY <2>4, <3>1 DEF RejectSessionInvite, TellRejected
    <3> QED
      BY <3>1, <3>2, AnnouncedOfOthers
  <2>5. ASSUME NEW t \in Requests, TerminateByRequest(t, s) \/ VoteOf(t, s)
        PROVE  ConnectionsAreAnnounced'
    BY <2>5, <1>t, AnnouncedKept DEF TerminateByRequest, VoteOf, TerminateSession, Vote, Terminate, setup
  <2> QED
    BY <1>3, <2>1, <2>2, <2>3, <2>4, <2>5 DEF SessionStep
<1>4. ASSUME NEW u \in Users, UserStep(u) PROVE ConnectionsAreAnnounced'
  <2>1. CASE CheckUsersAvailability(u) \/ OnlineStatusThrows(u)
    BY <2>1, AnnouncedKept DEF CheckUsersAvailability, HasFcmToken, OnlineStatusThrows, vars
  <2> QED
    BY <1>4, <1>d, <2>1 DEF UserStep, ReconnectTimeout, ConnectedIn
<1>5. ASSUME SelectStuck \/ MarkStuck, UNCHANGED setup PROVE ConnectionsAreAnnounced'
  BY <1>5, AnnouncedKept DEF SelectStuck, MarkStuck, setup
<1>6. CASE RestartService
  BY <1>6 DEF RestartService, Restart, ConnectionsAreAnnounced
<1>7. CASE UNCHANGED setupVars
  BY <1>7, AnnouncedKept DEF setupVars, setup, vars
<1> QED
  BY <1>1, <1>2, <1>3, <1>4, <1>5, <1>6, <1>7 DEF SetupNext

\* connectUserToSession tells the other connected members after the row is
\* written, reading who is connected anew: of two members of a session the later
\* to finish is announced to the other, whatever invitations were declined or
\* withheld before.  It takes that the write succeeds: a member whose write fails
\* is left connected and is announced to nobody.
THEOREM ConnectionsAnnounced ==
    ASSUME "writeConnected" \notin MayFail
    PROVE  SetupSpec => []ConnectionsAreAnnounced
<1>1. SetupInit => ConnectionsAreAnnounced
  BY DEF SetupInit, Init, ConnectionsAreAnnounced
<1>2. IInv /\ SetupTypeOK /\ GroupInv /\ [SetupNext]_setupVars => GroupInv'
  BY GroupStep
<1>3. IInv /\ SetupTypeOK /\ GroupInv /\ ConnectionsAreAnnounced /\ [SetupNext]_setupVars
         => ConnectionsAreAnnounced'
  BY AnnouncedStep
<1> QED
  BY <1>1, <1>2, <1>3, GroupInit, SetupSafe, PTL DEF SetupSpec
=============================================================================
