------------------------------ MODULE SessionChat ------------------------------
(***************************************************************************)
(* The chat of a session on its whole way: a client's reliable message,    *)
(* the acknowledgement and the test for repetitions in handleIncoming      *)
(* (messageProtocol.ts), the handler that stores it and routes it to the   *)
(* other members (chatService.ts), and their receipt, with connections     *)
(* that break and a server that restarts.  WsPresence decides which socket *)
(* is registered, ReliableDelivery brings a queued message to its client.  *)
(*                                                                         *)
(* The client is not in the repository: it is taken to number its messages *)
(* in order, to keep its numbering, and to resend in order what it has no  *)
(* acknowledgement for, on a new connection before anything else; and not  *)
(* before that connection's CONNECTION_OK, since a message that comes when *)
(* nobody listens yet is lost, and one behind it is taken.                 *)
(***************************************************************************)
EXTENDS Integers, FiniteSets, Sequences

CONSTANTS
    Users,          \* users who may be members of the session
    Texts,          \* Texts[u]: how many messages u writes
    WireBound,      \* bound on the copies under way from a client
    MaxCuts,        \* bound on the connections that break
    MaxRestarts     \* bound on the restarts of the server

ASSUME ChatAssumption ==
    /\ Texts \in [Users -> Nat]
    /\ {WireBound, MaxCuts, MaxRestarts} \subseteq Nat

VARIABLES
    next,           \* next[u]: the sequence number the client sends next
    acked,          \* acked[u]: how many of them the client has acknowledgements for
    wire,           \* wire[u]: numbers on their way to the server
    acks,           \* acks[u]: acked[u] with those on their way back
    lastProcessed,  \* lastProcessed[u]: clients.get(sessionId).lastProcessedSeq
    handlers,       \* running calls of storeAndRouteIncomingMessage
    rows,           \* rows[m]: rows of the message in chat_message
    members,        \* user_uuid of the rows of matching_session_users
    queued,         \* queued[u]: messages in u's reliable queue or in flight
    received,       \* received[u]: messages u's client has
    lost,           \* history: messages promised and not delivered at a restart
    cuts, restarts

vars == <<next, acked, wire, acks, lastProcessed, handlers, rows, members, queued,
          received, lost, cuts, restarts>>
client == <<next, acked>>
faults == <<lost, cuts, restarts>>

Numbers(u) == 0..(Texts[u] - 1)
Messages == UNION {{u} \X Numbers(u) : u \in Users}
Handlers == [message : Messages, at : {"store", "route"}]

\* What a client takes for sent.
Promised == {m \in Messages : m[2] < acked[m[1]]}

Others(m) == members \ {m[1]}
Handled(m) == \E h \in handlers : h.message = m

\* The kinds of values of the chat's state.
TypeOK ==
    /\ next \in [Users -> Nat] /\ acked \in [Users -> Nat] /\ acks \in [Users -> Nat]
    /\ wire \in [Users -> Seq(Nat)] /\ lastProcessed \in [Users -> Int]
    /\ \A u \in Users :
           /\ next[u] <= Texts[u] /\ acked[u] <= acks[u] /\ acks[u] <= Texts[u]
           /\ wire[u] \in Seq(Numbers(u)) /\ lastProcessed[u] \in -1..(Texts[u] - 1)
    /\ handlers \subseteq Handlers /\ rows \in [Messages -> Nat]
    /\ members \subseteq Users /\ lost \subseteq Messages
    /\ queued \in [Users -> SUBSET Messages] /\ received \in [Users -> SUBSET Messages]
    /\ cuts \in 0..MaxCuts /\ restarts \in 0..MaxRestarts

Init ==
    /\ next = [u \in Users |-> 0] /\ acked = [u \in Users |-> 0]
    /\ wire = [u \in Users |-> <<>>] /\ acks = [u \in Users |-> 0]
    /\ lastProcessed = [u \in Users |-> -1]
    /\ handlers = {} /\ rows = [m \in Messages |-> 0]
    /\ members = Users
    /\ queued = [u \in Users |-> {}] /\ received = [u \in Users |-> {}]
    /\ lost = {} /\ cuts = 0 /\ restarts = 0

-----------------------------------------------------------------------------
(* The client                                                              *)

ClientSends(u) ==
    /\ next[u] < Texts[u] /\ Len(wire[u]) < WireBound
    /\ wire' = [wire EXCEPT ![u] = Append(@, next[u])]
    /\ next' = [next EXCEPT ![u] = @ + 1]
    /\ UNCHANGED <<acked, acks, lastProcessed, handlers, rows, members, queued,
                   received, faults>>

\* From the first number without an acknowledgement on, everything is sent again.
ClientGoesBack(u) ==
    /\ acked[u] < next[u]
    /\ next' = [next EXCEPT ![u] = acked[u]]
    /\ UNCHANGED <<acked, wire, acks, lastProcessed, handlers, rows, members, queued,
                   received, faults>>

\* Acknowledgements come in the order of the messages, one or more at a time.
ClientIsAcked(u) ==
    /\ \E n \in (acked[u] + 1)..acks[u] : acked' = [acked EXCEPT ![u] = n]
    /\ UNCHANGED <<next, wire, acks, lastProcessed, handlers, rows, members, queued,
                   received, faults>>

-----------------------------------------------------------------------------
(* The server                                                              *)

\* Mutant: only the message that follows the last one is taken.
IsFollowing(u, sequence) == sequence = lastProcessed[u] + 1

\* getState, and the test for a repetition.
IsNew(u, sequence) == sequence > lastProcessed[u]

\* The handler runs to its first await, the transaction that stores the message;
\* dispatch does not wait for it.
Dispatch(m) == handlers' = handlers \cup {[message |-> m, at |-> "store"]}

\* handleIncoming, up to the first await of the handler it dispatches to: the
\* acknowledgement goes out before the message is known to be new.
HandleIncoming(u) ==
    /\ wire[u] # <<>>
    /\ wire' = [wire EXCEPT ![u] = Tail(@)]
    /\ acks' = [acks EXCEPT ![u] = IF Head(wire[u]) < @ THEN @ ELSE Head(wire[u]) + 1]
    /\ LET n == Head(wire[u]) IN
       IF IsNew(u, n)
       THEN /\ lastProcessed' = [lastProcessed EXCEPT ![u] = n]
            /\ Dispatch(<<u, n>>)
       ELSE UNCHANGED <<lastProcessed, handlers>>
    /\ UNCHANGED <<client, rows, members, queued, received, faults>>

\* The transaction of storeChatMessage commits.
StoreChatMessage(h) ==
    /\ h.at = "store"
    /\ rows' = [rows EXCEPT ![h.message] = @ + 1]
    /\ handlers' = (handlers \ {h}) \cup {[h EXCEPT !.at = "route"]}
    /\ UNCHANGED <<client, wire, acks, lastProcessed, members, queued, received,
                   faults>>

\* Mutant: the sender's own client gets the message, another member does not.
RouteToSenderToo(h) ==
    /\ h.at = "route"
    /\ handlers' = handlers \ {h}
    /\ queued' = [u \in Users |->
           IF u = h.message[1] THEN queued[u] \cup {h.message} ELSE queued[u]]
    /\ UNCHANGED <<client, wire, acks, lastProcessed, rows, members, received, faults>>

\* The members are read, and with no other callback in between a reliable message
\* is sent to each but the sender.
RouteMessage(h) ==
    /\ h.at = "route"
    /\ handlers' = handlers \ {h}
    /\ queued' = [u \in Users |->
           IF u \in Others(h.message) THEN queued[u] \cup {h.message} ELSE queued[u]]
    /\ UNCHANGED <<client, wire, acks, lastProcessed, rows, members, received, faults>>

\* What ReliableDelivery promises: a queued message arrives.
Deliver(u) ==
    \E m \in queued[u] :
        /\ queued' = [queued EXCEPT ![u] = @ \ {m}]
        /\ received' = [received EXCEPT ![u] = @ \cup {m}]
        /\ UNCHANGED <<client, wire, acks, lastProcessed, handlers, rows, members,
                       faults>>

\* The row of a member is deleted; what the former member still sends is taken.
Leave(u) ==
    /\ u \in members /\ members' = members \ {u}
    /\ UNCHANGED <<client, wire, acks, lastProcessed, handlers, rows, queued, received,
                   faults>>

-----------------------------------------------------------------------------
(* Faults                                                                  *)

\* A connection breaks and the client connects again: lastProcessedSeq stays.
Reconnect(u) ==
    /\ cuts < MaxCuts /\ cuts' = cuts + 1
    /\ wire' = [wire EXCEPT ![u] = <<>>] /\ acks' = [acks EXCEPT ![u] = acked[u]]
    /\ next' = [next EXCEPT ![u] = acked[u]]
    /\ UNCHANGED <<acked, lastProcessed, handlers, rows, members, queued, received,
                   lost, restarts>>

\* The process ends and starts again, with an empty map of clients and empty queues; a
\* transaction that was asked to commit may have done so.  A rejected query of a
\* client's message does this too: nobody catches it.
Restart ==
    /\ restarts < MaxRestarts /\ restarts' = restarts + 1
    /\ \E committed \in SUBSET {h \in handlers : h.at = "store"} :
           rows' = [m \in Messages |->
               IF \E h \in committed : h.message = m THEN rows[m] + 1 ELSE rows[m]]
    /\ handlers' = {} /\ lastProcessed' = [u \in Users |-> -1]
    /\ queued' = [u \in Users |-> {}]
    /\ wire' = [u \in Users |-> <<>>] /\ acks' = acked /\ next' = acked
    /\ lost' = lost \cup {m \in Promised :
                  Handled(m) \/ \E u \in Others(m) : m \notin received[u]}
    /\ UNCHANGED <<acked, members, received, cuts>>

-----------------------------------------------------------------------------
Next ==
    \/ \E u \in Users : \/ ClientSends(u) \/ ClientGoesBack(u) \/ ClientIsAcked(u)
                        \/ HandleIncoming(u) \/ Deliver(u) \/ Leave(u) \/ Reconnect(u)
    \/ \E h \in handlers : StoreChatMessage(h) \/ RouteMessage(h)
    \/ Restart

Spec == Init /\ [][Next]_vars

\* Clients send, resend and take acknowledgements; what arrives is handled; queries
\* are answered; and queued messages arrive.
Fairness ==
    /\ \A u \in Users : /\ WF_vars(ClientSends(u)) /\ WF_vars(ClientGoesBack(u))
                        /\ WF_vars(ClientIsAcked(u)) /\ WF_vars(HandleIncoming(u))
    /\ WF_vars(\E h \in handlers : StoreChatMessage(h) \/ RouteMessage(h))
    /\ WF_vars(\E u \in Users : Deliver(u))

FairSpec == Spec /\ Fairness

-----------------------------------------------------------------------------
InHand(m) == \E h \in handlers : h.message = m /\ h.at = "store"

\* An acknowledgement is sent before its message is handled, and still the message
\* is stored or about to be, except for what a restart interrupted; and for all the
\* resending, a second row of it takes a restart.
AcknowledgedHandledOnce ==
    /\ \A m \in Promised : rows[m] > 0 \/ InHand(m) \/ m \in lost
    /\ \A m \in Messages : rows[m] <= 1 + restarts

\* However often connections break and the server restarts, every message reaches
\* every other member who stays, unless it had been acknowledged when the server
\* went down.
ReachesEveryone ==
    \A u \in Users : \A m \in {k \in Messages : k[1] # u} :
        <>(m \in received[u] \/ m \in lost \/ u \notin members)

=============================================================================
