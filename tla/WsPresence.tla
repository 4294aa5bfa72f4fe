------------------------------ MODULE WsPresence ------------------------------
(***************************************************************************)
(* Who is online: the web-socket connections of one user in                *)
(* matching-sessions-service.  index.ts accepts a connection in steps,     *)
(* wsManager.ts registers it, replaces the one before, and gives a user    *)
(* whose connection is lost 60 seconds before he is removed from his       *)
(* session (sessionWSConnectionErrorHandler.ts).                           *)
(*                                                                         *)
(* Users are independent of each other here.  Timers are ordered by what   *)
(* their lengths imply: a connection waits 0.5 s for an old one and is     *)
(* registered 1 s later, the old one is killed after 0.7 s of that, and    *)
(* both are short beside the grace period.                                 *)
(***************************************************************************)
EXTENDS Integers, SequencesExt

CONSTANTS
    MaxSockets,       \* bound on the connections the user opens
    None,
    Clients           \* the kinds of client explored

ASSUME PresenceAssumption ==
    /\ MaxSockets \in Nat /\ None \notin Nat
    /\ Clients \subseteq {"steady", "orderly", "hasty"}

Sockets == 1..MaxSockets      \* in the order they are opened

VARIABLES
    client,     \* orderly: opens a connection when it has none, nor one being accepted;
                \* steady: orderly, and loses none that is being accepted; hasty: any
    link,       \* the state of each socket; "dead" is OPEN for the server only
    waiting,    \* accepted while the user had a connection; no listener yet
    adding,     \* addClientConnection was called, its one-second timer runs
    existing,   \* the connection each of those is to replace
    entry,      \* wsConnections: the user's registered connection
    record,     \* lastDisconnectRecords has the user, and the grace timer runs
    earlier,    \* connections that were being accepted when it was started
    removed,    \* the user has no session he is held connected in
    armed,      \* heartBeatTimeOuts: the heartbeat timer runs
    fresh       \* sockets whose lastHeartbeat is newer than the timer

vars == <<client, link, waiting, adding, existing, entry, record, earlier, removed, armed, fresh>>
accepting == <<waiting, adding, existing>>
grace == <<record, earlier, removed>>
heartbeat == <<armed, fresh>>

Being(queue) == ToSet(queue)
Accepting == Being(waiting) \cup Being(adding)

TypeOK ==
    /\ client \in Clients
    /\ link \in [Sockets -> {"unused", "open", "dead", "closing", "terminated", "closed"}]
    /\ waiting \in Seq(Sockets) /\ adding \in Seq(Sockets)
    /\ IsInjective(waiting \o adding)
    /\ existing \in [Sockets -> Sockets \cup {None}]
    /\ entry \in Sockets \cup {None}
    /\ record \in BOOLEAN /\ removed \in BOOLEAN /\ armed \in BOOLEAN
    /\ earlier \subseteq Sockets /\ fresh \subseteq Sockets
    /\ \A s \in Accepting \cup ({entry} \ {None}) : link[s] # "unused"

Init ==
    /\ client \in Clients
    /\ link = [s \in Sockets |-> "unused"]
    /\ waiting = <<>> /\ adding = <<>>
    /\ existing = [s \in Sockets |-> None]
    /\ entry = None
    /\ record = FALSE /\ earlier = {} /\ removed = TRUE
    /\ armed = FALSE /\ fresh = {}

-----------------------------------------------------------------------------
(* Accepting and registering a connection                                  *)

\* What addClientConnection does before its timer: the registered connection
\* is closed, and remembered.  The caller adds the listeners.
AddClientConnection(s) ==
    /\ existing' = [existing EXCEPT ![s] = entry]
    /\ link' = [r \in Sockets |->
                  IF r = entry /\ link[r] \in {"open", "dead"} THEN "closing"
                  ELSE IF r = s /\ link[s] = "unused" THEN "open" ELSE link[r]]
    /\ adding' = Append(adding, s)

\* An authenticated connection; if the user has one it waits half a second.
Connect(s) ==
    /\ link[s] = "unused" /\ \A r \in 1..(s - 1) : link[r] # "unused"
    /\ client # "hasty" => Accepting = {} /\ \A r \in Sockets : link[r] # "open"
    /\ IF entry = None
       THEN AddClientConnection(s) /\ UNCHANGED waiting
       ELSE /\ waiting' = Append(waiting, s)
            /\ link' = [link EXCEPT ![s] = "open"]
            /\ UNCHANGED <<adding, existing>>
    /\ UNCHANGED <<client, entry, grace, heartbeat>>

\* Mutant: the connection is kept among the waiting ones.
FinishWaitAgain ==
    /\ waiting # <<>>
    /\ AddClientConnection(Head(waiting))
    /\ UNCHANGED <<client, waiting, entry, grace, heartbeat>>

FinishWait ==
    /\ waiting # <<>>
    /\ AddClientConnection(Head(waiting))
    /\ waiting' = Tail(waiting)
    /\ UNCHANGED <<client, entry, grace, heartbeat>>

\* Mutant: the new connection is registered before the old one has died.
FinishAddAtOnce ==
    /\ adding # <<>>
    /\ adding' = Tail(adding)
    /\ entry' = Head(adding)
    /\ fresh' = fresh \cup {Head(adding)}
    /\ record' = FALSE /\ removed' = FALSE
    /\ UNCHANGED <<client, link, waiting, existing, earlier, armed>>

\* The timer of addClientConnection: the connection is registered, whatever has
\* become of it, and the grace period is called off.  By then what it replaces
\* was killed, and sockets that were terminated have said so.
FinishAdd ==
    /\ adding # <<>>
    /\ LET s == Head(adding) IN
       /\ existing[s] # None => link[existing[s]] = "closed"
       /\ \A r \in Sockets : link[r] # "terminated"
       /\ adding' = Tail(adding)
       /\ entry' = s
       /\ fresh' = fresh \cup {s}
    /\ record' = FALSE /\ removed' = FALSE
    /\ UNCHANGED <<client, link, waiting, existing, earlier, armed>>

-----------------------------------------------------------------------------
(* Losing a connection                                                     *)

\* Mutant: the connection stays registered through the grace period.
HandleClientsDisconnectKeeping ==
    /\ IF record
       THEN UNCHANGED <<record, earlier>>
       ELSE record' = TRUE /\ earlier' = Accepting
    /\ UNCHANGED <<entry, removed>>

\* Whichever connection was lost, the user's entry goes; a grace period that
\* runs already is not started again.
HandleClientsDisconnect ==
    /\ entry' = None
    /\ IF record
       THEN UNCHANGED <<record, earlier>>
       ELSE record' = TRUE /\ earlier' = Accepting
    /\ UNCHANGED removed

\* The client closes the connection, or the server learns that it is lost.
\* Nobody listens yet while it waits.
Closes(s) ==
    /\ link[s] \in {"open", "dead", "closing", "terminated"}
    /\ ~(client = "steady" /\ link[s] = "open" /\ s \in Accepting)
    /\ link' = [link EXCEPT ![s] = "closed"]
    /\ IF s \in Being(waiting)
       THEN UNCHANGED <<entry, grace>>
       ELSE HandleClientsDisconnect
    /\ UNCHANGED <<client, accepting, heartbeat>>

\* The network fails, and the server does not notice.
WireDies(s) ==
    /\ link[s] = "open" /\ ~(client = "steady" /\ s \in Accepting)
    /\ link' = [link EXCEPT ![s] = "dead"]
    /\ UNCHANGED <<client, accepting, entry, grace, heartbeat>>

\* Mutant: the user is not removed from his session.
GraceTimeoutOnly ==
    /\ record /\ earlier \cap Accepting = {}
    /\ record' = FALSE
    /\ UNCHANGED <<client, link, accepting, entry, earlier, removed, heartbeat>>

\* Connections that were being accepted when the period began are registered
\* long before it ends.  A user still missing is removed from his session.
GraceTimeout ==
    /\ record /\ earlier \cap Accepting = {}
    /\ record' = FALSE
    /\ removed' = (removed \/ entry = None)
    /\ UNCHANGED <<client, link, accepting, entry, earlier, heartbeat>>

-----------------------------------------------------------------------------
(* Heartbeats                                                              *)

\* A heartbeat or an acknowledgement, on whichever connection it arrives.
HandleHeartbeat(s) ==
    /\ link[s] = "open" /\ s \notin Being(waiting)
    /\ armed' = TRUE /\ fresh' = {}
    /\ UNCHANGED <<client, link, accepting, entry, grace>>

\* Nothing came for 25 seconds: a registered connection that is as old as the
\* timer is terminated.
HandleHeartbeatTimeout ==
    /\ armed /\ armed' = FALSE
    /\ IF entry = None \/ entry \in fresh
       THEN UNCHANGED <<link, entry, grace>>
       ELSE /\ link' = [link EXCEPT ![entry] = IF @ = "closed" THEN @ ELSE "terminated"]
            /\ HandleClientsDisconnect
    /\ UNCHANGED <<client, accepting, fresh>>

-----------------------------------------------------------------------------
Next ==
    \/ \E s \in Sockets : Connect(s) \/ Closes(s) \/ WireDies(s) \/ HandleHeartbeat(s)
    \/ FinishWait \/ FinishAdd \/ GraceTimeout \/ HandleHeartbeatTimeout

Spec == Init /\ [][Next]_vars

\* Timers fire, the heartbeat timer if it is not put off by the next heartbeat.
\* TCP reports a dead connection in the end, a closing one ends with its
\* handshake or its timeout; an open one may stay open for ever.
Fairness ==
    /\ WF_vars(FinishWait) /\ WF_vars(FinishAdd) /\ WF_vars(GraceTimeout)
    /\ \A s \in Sockets : WF_vars(link[s] # "open" /\ Closes(s))

FairSpec == Spec /\ Fairness

-----------------------------------------------------------------------------
\* A registered user is awaited by nobody, and a user who is not registered is
\* either awaited (a grace period runs) or removed: no order of replacements,
\* late close events and timeouts forgets him, so the else branch of the grace
\* timeout, for a user who came back without calling it off, is never taken.
AbsentAreAwaitedOrRemoved ==
    IF entry = None THEN record \/ removed ELSE ~record /\ ~removed

\* A connection that works and has been accepted is the registered one, for a
\* client that opens one at a time: messages reach it, and the close event of
\* the connection it replaced does not deregister it.
LiveClientRegistered ==
    client # "hasty" => \A s \in Sockets \ Accepting : link[s] = "open" => entry = s

NobodyThere == \A s \in Sockets : link[s] # "open"

\* handleSessionOnWsReconnectTimeout: "if the connection gets inexplicably lost
\* we want to kick users from the session".  It is so if no connection is lost in
\* the second and a half it takes to accept it; one that is stays registered for
\* ever.
SteadyUsersAreKicked ==
    (client = "steady" /\ NobodyThere) ~> (removed \/ ~NobodyThere)
=============================================================================
