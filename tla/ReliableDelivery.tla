--------------------------- MODULE ReliableDelivery ---------------------------
(***************************************************************************)
(* The reliable messages of WebSocketManager (wsManager.ts) to one user:   *)
(* a queue, one message in flight until the client acknowledges it, a      *)
(* timer that resends it, and what connections, disconnections and the end *)
(* of the grace period do to them.  The state is kept per user and no      *)
(* operation on it touches another user's, so one user is modelled; whose  *)
(* socket is registered, and when, is the subject of WsPresence.           *)
(*                                                                         *)
(* A message is the number of the sendReliable call that created it; its   *)
(* id, the user's hash with the sequence number, is the sequence number.   *)
(***************************************************************************)
EXTENDS Naturals, Sequences, SequencesExt

CONSTANTS
    MaxResend,      \* MAX_RESEND_COUNT
    None,           \* no message
    MaxSent,        \* bound on the messages sent
    MaxConnects,    \* bound on the connections after the first
    WireBound       \* bound on the copies and acknowledgements under way

ASSUME DeliveryAssumption ==
    /\ {MaxResend, MaxSent, MaxConnects, WireBound} \subseteq Nat
    /\ None \notin Nat

VARIABLES
    sent,           \* number of sendReliable calls
    nextSeq,        \* state.nextSeq
    idOf,           \* the id each message was given
    queue,          \* state.queue
    inFlight,       \* state.inFlight
    retryCount,     \* retryCount of the message in flight
    resendTimer,    \* state.resendTimer is set
    socket,         \* what wsConnections has for the user, see below
    grace,          \* lastDisconnectRecords has the user: the 60 seconds run
    down,           \* copies of messages on their way to the client
    up,             \* ids of acknowledgements on their way to the server
    received,       \* messages the client received, repetitions left out
    connects        \* connections registered after the first

vars == <<sent, nextSeq, idOf, queue, inFlight, retryCount, resendTimer, socket,
          grace, down, up, received, connects>>
state == <<nextSeq, idOf, queue, inFlight, retryCount, resendTimer>>
wire == <<down, up>>
link == <<socket, grace>>

\* "open": an OPEN socket whose wire works.  "dead": OPEN, but the wire is cut and
\* the server does not know.  "closed": a registered socket that is not OPEN.
\* "missing": none registered, and none in use.  "stray": none registered, but the
\* client still has an open socket whose messages are handled.
Sockets == {"open", "dead", "closed", "missing", "stray"}
Messages == 1..MaxSent

TypeOK ==
    /\ sent \in 0..MaxSent /\ nextSeq \in 0..MaxSent
    /\ idOf \in [Messages -> Nat]
    /\ queue \in Seq(Messages) /\ inFlight \in Messages \cup {None}
    /\ retryCount \in 0..MaxResend /\ resendTimer \in BOOLEAN
    /\ socket \in Sockets /\ grace \in BOOLEAN
    /\ down \in Seq(Messages) /\ up \in Seq(Nat)
    /\ received \in Seq(Messages)
    /\ connects \in 0..MaxConnects

Init ==
    /\ sent = 0 /\ nextSeq = 0 /\ connects = 0
    /\ idOf = [m \in Messages |-> 0]
    /\ queue = <<>> /\ inFlight = None /\ retryCount = 0 /\ resendTimer = FALSE
    /\ socket \in {"open", "missing"} /\ grace = FALSE
    /\ down = <<>> /\ up = <<>> /\ received = <<>>

-----------------------------------------------------------------------------
\* ws.send, on a registered socket or none: only a working wire takes the copy.
Transmit(conn, m) ==
    IF conn = "open"
    THEN Len(down) + Len(up') < WireBound /\ down' = Append(down, m)
    ELSE UNCHANGED down

\* trySendNextReliable with the message waiting for its acknowledgement and the
\* queue q.  What is in flight is sent again at every occasion, uncounted.
TrySendNext(conn, q, waiting) ==
    \/ /\ waiting # None
       /\ Transmit(conn, waiting)
       /\ inFlight' = waiting /\ queue' = q
       /\ resendTimer' = TRUE
       /\ UNCHANGED retryCount
    \/ /\ waiting = None /\ q # <<>>
       /\ Transmit(conn, Head(q))
       /\ inFlight' = Head(q) /\ queue' = Tail(q)
       /\ retryCount' = 0 /\ resendTimer' = TRUE
    \/ /\ waiting = None /\ q = <<>>
       /\ inFlight' = None /\ queue' = q
       /\ UNCHANGED <<down, retryCount, resendTimer>>

SendReliable ==
    /\ sent < MaxSent /\ UNCHANGED up
    /\ sent' = sent + 1
    /\ nextSeq' = nextSeq + 1
    /\ idOf' = [idOf EXCEPT ![sent'] = nextSeq]
    /\ TrySendNext(socket, Append(queue, sent'), inFlight)
    /\ UNCHANGED <<link, received, connects>>

\* The message in flight is done with, and an idle timer with it.
Acknowledged ==
    IF queue # <<>>
    THEN TrySendNext(socket, queue, None)
    ELSE /\ inFlight' = None /\ resendTimer' = FALSE
         /\ UNCHANGED <<queue, retryCount, down>>

\* Mutant: the acknowledgement's id is not compared.
HandleAckOfAny ==
    /\ up # <<>> /\ up' = Tail(up)
    /\ IF inFlight = None
       THEN UNCHANGED <<queue, inFlight, retryCount, resendTimer, down>>
       ELSE Acknowledged
    /\ UNCHANGED <<sent, nextSeq, idOf, link, received, connects>>

HandleReliableAck ==
    /\ up # <<>> /\ up' = Tail(up)
    /\ IF inFlight = None \/ idOf[inFlight] # Head(up)
       THEN UNCHANGED <<queue, inFlight, retryCount, resendTimer, down>>
       ELSE Acknowledged
    /\ UNCHANGED <<sent, nextSeq, idOf, link, received, connects>>

\* Mutant: one retry too many.
ResendTickOnceMore ==
    /\ resendTimer /\ UNCHANGED up
    /\ IF inFlight = None \/ retryCount > MaxResend
       THEN resendTimer' = FALSE /\ UNCHANGED <<retryCount, down>>
       ELSE /\ socket \in {"open", "dead"}
            /\ Transmit(socket, inFlight)
            /\ retryCount' = retryCount + 1
            /\ UNCHANGED resendTimer
    /\ UNCHANGED <<sent, nextSeq, idOf, queue, inFlight, link, received, connects>>

\* The interval timer of startResendTimer, the interval since the last sending over.
ResendTick ==
    /\ resendTimer /\ UNCHANGED up
    /\ IF inFlight = None \/ retryCount >= MaxResend
       THEN resendTimer' = FALSE /\ UNCHANGED <<retryCount, down>>
       ELSE /\ socket \in {"open", "dead"}
            /\ Transmit(socket, inFlight)
            /\ retryCount' = retryCount + 1
            /\ UNCHANGED resendTimer
    /\ UNCHANGED <<sent, nextSeq, idOf, queue, inFlight, link, received, connects>>

-----------------------------------------------------------------------------
(* The client acknowledges every copy, and recognises the ones it has.     *)

ClientReceives ==
    /\ down # <<>> /\ down' = Tail(down)
    /\ up' = Append(up, idOf[Head(down)])
    /\ received' = IF Contains(received, Head(down)) THEN received
                   ELSE Append(received, Head(down))
    /\ UNCHANGED <<sent, state, link, connects>>

-----------------------------------------------------------------------------
(* Connections                                                             *)

CutWire == down' = <<>> /\ up' = <<>>

WireDies ==
    /\ socket = "open" /\ socket' = "dead"
    /\ CutWire
    /\ UNCHANGED <<sent, state, grace, received, connects>>

\* handleClientsDisconnect, when the registered or a stray socket is closed.
HandleClientsDisconnect ==
    /\ socket \in {"open", "dead", "stray"} /\ socket' = "missing"
    /\ grace' = TRUE
    /\ CutWire
    /\ UNCHANGED <<sent, state, received, connects>>

\* handleClientsDisconnect for a socket that was replaced: the map is keyed by
\* user, so the entry of the new one goes.
StaleDisconnect ==
    /\ socket = "open" /\ socket' = "stray"
    /\ grace' = TRUE
    /\ UNCHANGED <<sent, state, wire, received, connects>>

\* Mutant: nothing is sent when a connection is registered.
AddClientConnectionSilent ==
    /\ connects < MaxConnects /\ connects' = connects + 1
    /\ socket' \in {"open", "closed"} /\ grace' = FALSE
    /\ up' = <<>> /\ down' = <<>>
    /\ UNCHANGED <<sent, state, received>>

\* The last step of addClientConnection, and trySendNextReliable on it.  The old
\* socket is gone by now; the new one may be closed already.  The client has
\* given up what came on the old one.
AddClientConnection ==
    /\ connects < MaxConnects /\ connects' = connects + 1
    /\ socket' \in {"open", "closed"} /\ grace' = FALSE
    /\ up' = <<>>
    /\ LET m == IF inFlight = None /\ queue # <<>> THEN Head(queue) ELSE inFlight IN
       /\ down' = IF socket' = "open" /\ m # None THEN <<m>> ELSE <<>>
       /\ inFlight' = m
       /\ queue' = IF inFlight = None /\ queue # <<>> THEN Tail(queue) ELSE queue
       /\ resendTimer' = (resendTimer \/ m # None)
       /\ retryCount' = IF inFlight = None THEN 0 ELSE retryCount
    /\ UNCHANGED <<sent, nextSeq, idOf, received>>

\* clearReliableState: the grace period is over without a registered socket.  What
\* was under way has arrived in these 60 seconds, or never will.
ClearReliableState ==
    /\ grace /\ grace' = FALSE
    /\ down = <<>> /\ up = <<>>
    /\ nextSeq' = 0 /\ queue' = <<>> /\ inFlight' = None
    /\ retryCount' = 0 /\ resendTimer' = FALSE
    /\ UNCHANGED <<sent, idOf, socket, wire, received, connects>>

-----------------------------------------------------------------------------
Next ==
    \/ SendReliable \/ HandleReliableAck \/ ResendTick \/ ClientReceives
    \/ WireDies \/ HandleClientsDisconnect \/ StaleDisconnect
    \/ AddClientConnection \/ ClearReliableState

Spec == Init /\ [][Next]_vars

\* Timers fire, and what is on a wire that stays up arrives.
Fairness == WF_vars(ResendTick) /\ WF_vars(ClientReceives) /\ WF_vars(HandleReliableAck)

FairSpec == Spec /\ Fairness

-----------------------------------------------------------------------------
\* The messages refine ReliableChannel: received in order, none skipped, none
\* dropped for the acknowledgement of another one, none lost but by the grace
\* period.
Undelivered ==
    (IF inFlight = None \/ Contains(received, inFlight) THEN <<>> ELSE <<inFlight>>) \o queue

Channel == INSTANCE ReliableChannel WITH waiting <- Undelivered
InOrder == Channel!Spec

\* Whatever copies, acknowledgements and connections were lost before: once the
\* user has a connection that stays, every message is received.
ArrivesOnceConnected ==
    <>[](socket = "open") =>
        \A m \in Messages : Contains(Undelivered, m) ~> ~Contains(Undelivered, m)

=============================================================================
