-------------------------- MODULE SessionChat_proofs --------------------------
(* Type correctness and AcknowledgedHandledOnce of SessionChat, for any     *)
(* members, messages, broken connections and restarts.                      *)
EXTENDS SessionChat, TLAPS

\* What the server has not forgotten of, or a restart is to blame for.
Kept(m) == rows[m] > 0 \/ InHand(m) \/ m \in lost

\* What was acknowledged or counted as processed is kept.
ProcessedKept ==
    \A u \in Users : \A n \in Numbers(u) :
        n < acks[u] \/ n <= lastProcessed[u] => Kept(<<u, n>>)

\* The client leaves no gap: before a number on the wire, and before the one it
\* sends next, come all the ones that are not kept.
WireInOrder ==
    \A u \in Users : \A i \in 1..Len(wire[u]) : \A k \in Numbers(u) :
        k < wire[u][i] => Kept(<<u, k>>) \/ \E j \in 1..(i - 1) : wire[u][j] = k

NothingSkipped ==
    \A u \in Users : \A k \in Numbers(u) :
        k < next[u] => Kept(<<u, k>>) \/ \E j \in 1..Len(wire[u]) : wire[u][j] = k

\* Handlers are of messages counted as processed, and until one has stored its
\* message there is no row of it from this life of the server.
OneRowPerLife ==
    /\ \A h \in handlers : h.message[2] <= lastProcessed[h.message[1]]
    /\ \A m \in Messages :
          /\ rows[m] <= restarts + 1
          /\ InHand(m) \/ m[2] > lastProcessed[m[1]] => rows[m] <= restarts

IInv == TypeOK /\ ProcessedKept /\ WireInOrder /\ NothingSkipped /\ OneRowPerLife

-----------------------------------------------------------------------------
\* A message is a pair of a user and a number.
LEMMA MessageParts ==
    /\ \A m \in Messages : /\ m[1] \in Users /\ m[2] \in Numbers(m[1])
                           /\ m = <<m[1], m[2]>>
    /\ \A u \in Users : \A n \in Numbers(u) : <<u, n>> \in Messages
<1>1. ASSUME NEW m \in Messages
      PROVE  m[1] \in Users /\ m[2] \in Numbers(m[1]) /\ m = <<m[1], m[2]>>
  <2>1. PICK u \in Users : m \in {u} \X Numbers(u)
    BY DEF Messages
  <2> QED BY <2>1
<1>2. ASSUME NEW u \in Users, NEW n \in Numbers(u) PROVE <<u, n>> \in Messages
  <2>1. <<u, n>> \in {u} \X Numbers(u)
    OBVIOUS
  <2> QED BY <2>1 DEF Messages
<1> QED BY <1>1, <1>2

LEMMA NumbersAreNatural == \A u \in Users : Numbers(u) \subseteq Nat /\ Texts[u] \in Nat
  BY ChatAssumption DEF Numbers

\* The elements of a queue, when its head is taken or something is added.
LEMMA QueueHead ==
    ASSUME NEW S, NEW s \in Seq(S), s # <<>>
    PROVE  /\ Head(s) \in S /\ Head(s) = s[1] /\ Tail(s) \in Seq(S) /\ Len(s) \in Nat \ {0}
           /\ Len(Tail(s)) = Len(s) - 1
           /\ \A i \in 1..(Len(s) - 1) : Tail(s)[i] = s[i + 1]
  OBVIOUS

LEMMA QueueAppend ==
    ASSUME NEW S, NEW s \in Seq(S), NEW x \in S
    PROVE  /\ Append(s, x) \in Seq(S) /\ Len(s) \in Nat
           /\ Len(Append(s, x)) = Len(s) + 1
           /\ Append(s, x)[Len(s) + 1] = x
           /\ \A i \in 1..Len(s) : Append(s, x)[i] = s[i]
  OBVIOUS

-----------------------------------------------------------------------------
LEMMA TypeInit == Init => TypeOK
<1> SUFFICES ASSUME Init PROVE TypeOK
  OBVIOUS
<1>1. \A u \in Users : /\ next[u] = 0 /\ acked[u] = 0 /\ acks[u] = 0
                       /\ wire[u] = <<>> /\ lastProcessed[u] = -1
  BY DEF Init
<1>2. /\ next \in [Users -> Nat] /\ acked \in [Users -> Nat] /\ acks \in [Users -> Nat]
      /\ wire \in [Users -> Seq(Nat)] /\ lastProcessed \in [Users -> Int]
  BY DEF Init
<1>3. \A u \in Users :
          /\ next[u] <= Texts[u] /\ acked[u] <= acks[u] /\ acks[u] <= Texts[u]
          /\ wire[u] \in Seq(Numbers(u)) /\ lastProcessed[u] \in -1..(Texts[u] - 1)
  <2> TAKE u \in Users
  <2>1. Texts[u] \in Nat
    BY NumbersAreNatural
  <2>2. <<>> \in Seq(Numbers(u))
    OBVIOUS
  <2>3. wire[u] \in Seq(Numbers(u))
    BY <1>1, <2>2
  <2>4. lastProcessed[u] \in -1..(Texts[u] - 1)
    BY <1>1, <2>1
  <2> QED BY <1>1, <2>1, <2>3, <2>4
<1>4. /\ handlers \subseteq Handlers /\ rows \in [Messages -> Nat]
      /\ members \subseteq Users /\ lost \subseteq Messages
      /\ queued \in [Users -> SUBSET Messages] /\ received \in [Users -> SUBSET Messages]
      /\ cuts \in 0..MaxCuts /\ restarts \in 0..MaxRestarts
  BY ChatAssumption DEF Init
<1> QED BY <1>2, <1>3, <1>4 DEF TypeOK

\* The acknowledgement of the number h after a numbers of t were acknowledged.
LEMMA NextAck ==
    ASSUME NEW t \in Nat, NEW a \in Nat, NEW k \in Nat, NEW h \in 0..(t - 1), k <= a, a <= t
    PROVE  LET n == IF h < a THEN a ELSE h + 1 IN n \in Nat /\ k <= n /\ n <= t
OBVIOUS

LEMMA TypeStep == TypeOK /\ [Next]_vars => TypeOK'
<1> SUFFICES ASSUME TypeOK, [Next]_vars PROVE TypeOK'
  OBVIOUS
<1> USE DEF TypeOK, client, faults
<1> USE NumbersAreNatural
<1>n. \A u \in Users : Texts[u] \in Nat
  OBVIOUS
<1>1. ASSUME NEW u \in Users, ClientSends(u) PROVE TypeOK'
  <2>1. next[u] \in Numbers(u)
    BY <1>1 DEF ClientSends, Numbers
  <2>2. wire'[u] \in Seq(Numbers(u)) /\ wire'[u] \in Seq(Nat)
    BY <1>1, <2>1, QueueAppend DEF ClientSends
  <2>3. wire' \in [Users -> Seq(Nat)] /\ \A v \in Users : wire'[v] \in Seq(Numbers(v))
    BY <1>1, <2>2 DEF ClientSends
  <2>4. next' \in [Users -> Nat] /\ \A v \in Users : next'[v] <= Texts[v]
    <3>1. next' = [next EXCEPT ![u] = next[u] + 1] /\ next[u] + 1 <= Texts[u]
      BY <1>1, <1>n DEF ClientSends
    <3> QED BY <3>1, SMTT(60)
  <2> QED BY <1>1, <2>3, <2>4 DEF ClientSends
<1>2. ASSUME NEW u \in Users, ClientGoesBack(u) PROVE TypeOK'
  BY <1>2, SMTT(60) DEF ClientGoesBack
<1>3. ASSUME NEW u \in Users, ClientIsAcked(u) PROVE TypeOK'
  <2>1. PICK n \in (acked[u] + 1)..acks[u] : acked' = [acked EXCEPT ![u] = n]
    BY <1>3 DEF ClientIsAcked
  <2>2. acked' \in [Users -> Nat] /\ \A v \in Users : acked'[v] <= acks[v]
    BY <2>1
  <2> QED BY <1>3, <2>2 DEF ClientIsAcked
<1>4. ASSUME NEW u \in Users, HandleIncoming(u) PROVE TypeOK'
  <2>1. Head(wire[u]) \in Numbers(u) /\ Tail(wire[u]) \in Seq(Numbers(u))
    BY <1>4, QueueHead DEF HandleIncoming
  <2>2. Tail(wire[u]) \in Seq(Nat)
    BY <1>4, QueueHead DEF HandleIncoming
  <2>3. Head(wire[u]) \in 0..(Texts[u] - 1)
    BY <2>1 DEF Numbers
  <2>4. handlers' \subseteq Handlers
    BY <1>4, <2>1, MessageParts DEF HandleIncoming, Dispatch, Handlers
  <2>5. lastProcessed' \in [Users -> Int] /\ \A v \in Users : lastProcessed'[v] \in -1..(Texts[v] - 1)
    <3>1. \/ lastProcessed' = lastProcessed
          \/ lastProcessed' = [lastProcessed EXCEPT ![u] = Head(wire[u])]
      BY <1>4 DEF HandleIncoming
    <3>2. Head(wire[u]) \in Int /\ Head(wire[u]) \in -1..(Texts[u] - 1)
      BY <2>3
    <3> QED BY <3>1, <3>2
  <2>6. /\ acks' \in [Users -> Nat]
        /\ \A v \in Users : acked[v] <= acks'[v] /\ acks'[v] <= Texts[v]
    <3> DEFINE n == IF Head(wire[u]) < acks[u] THEN acks[u] ELSE Head(wire[u]) + 1
    <3>1. acks' = [acks EXCEPT ![u] = n]
      BY <1>4 DEF HandleIncoming
    <3>2. /\ Texts[u] \in Nat /\ acks[u] \in Nat /\ acked[u] \in Nat
          /\ acked[u] <= acks[u] /\ acks[u] <= Texts[u]
      BY <1>n
    <3>3. n \in Nat /\ acked[u] <= n /\ n <= Texts[u]
      BY <2>3, <3>2, NextAck, SMTT(60)
    <3> HIDE DEF n
    <3> QED BY <3>1, <3>2, <3>3
  <2>7. wire' \in [Users -> Seq(Nat)] /\ \A v \in Users : wire'[v] \in Seq(Numbers(v))
    BY <1>4, <2>1, <2>2 DEF HandleIncoming
  <2> QED BY <1>4, <2>4, <2>5, <2>6, <2>7 DEF HandleIncoming
<1>5. ASSUME NEW u \in Users, Deliver(u) PROVE TypeOK'
  BY <1>5, SMTT(60) DEF Deliver
<1>6. ASSUME NEW u \in Users, Leave(u) PROVE TypeOK'
  BY <1>6 DEF Leave
<1>7. ASSUME NEW u \in Users, Reconnect(u) PROVE TypeOK'
  <2>1. cuts' \in 0..MaxCuts
    BY <1>7, ChatAssumption DEF Reconnect
  <2>2. /\ acks' \in [Users -> Nat] /\ next' \in [Users -> Nat]
        /\ \A v \in Users : /\ next'[v] <= Texts[v]
                              /\ acked[v] <= acks'[v] /\ acks'[v] <= Texts[v]
    BY <1>7, SMTT(60) DEF Reconnect
  <2>3. <<>> \in Seq(Numbers(u)) /\ <<>> \in Seq(Nat)
    OBVIOUS
  <2>4. wire' \in [Users -> Seq(Nat)] /\ \A v \in Users : wire'[v] \in Seq(Numbers(v))
    BY <1>7, <2>3 DEF Reconnect
  <2> QED BY <1>7, <2>1, <2>2, <2>4 DEF Reconnect
<1>8. ASSUME NEW h \in handlers, StoreChatMessage(h) PROVE TypeOK'
  <2>1. handlers' \subseteq Handlers
    BY <1>8 DEF StoreChatMessage, Handlers
  <2>2. rows' \in [Messages -> Nat]
    <3>1. h.message \in Messages /\ rows[h.message] + 1 \in Nat
      BY DEF Handlers
    <3>2. rows' = [rows EXCEPT ![h.message] = rows[h.message] + 1]
      BY <1>8 DEF StoreChatMessage
    <3> QED BY <3>1, <3>2
  <2> QED BY <1>8, <2>1, <2>2 DEF StoreChatMessage
<1>9. ASSUME NEW h \in handlers, RouteMessage(h) PROVE TypeOK'
  BY <1>9 DEF RouteMessage, Handlers
<1>10. ASSUME Restart PROVE TypeOK'
  <2>1. restarts' \in 0..MaxRestarts
    BY <1>10, ChatAssumption DEF Restart
  <2>2. rows' \in [Messages -> Nat]
    BY <1>10 DEF Restart
  <2>3. lost' \subseteq Messages
    BY <1>10 DEF Restart, Promised
  <2> QED BY <1>10, <2>1, <2>2, <2>3 DEF Restart
<1>11. CASE UNCHANGED vars
  BY <1>11 DEF vars
<1> QED
  BY <1>1, <1>2, <1>3, <1>4, <1>5, <1>6, <1>7, <1>8, <1>9, <1>10, <1>11 DEF Next

\* Type correctness of the chat.
THEOREM TypeCorrect == Spec => []TypeOK
  BY TypeInit, TypeStep, PTL DEF Spec

-----------------------------------------------------------------------------
LEMMA InvInit == Init => IInv
<1> SUFFICES ASSUME Init PROVE IInv
  OBVIOUS
<1>1. TypeOK
  BY TypeInit
<1>2. \A u \in Users : /\ next[u] = 0 /\ acks[u] = 0 /\ lastProcessed[u] = -1
                       /\ wire[u] = <<>>
  BY DEF Init
<1>3. ProcessedKept /\ NothingSkipped /\ WireInOrder
  BY <1>2, NumbersAreNatural DEF ProcessedKept, NothingSkipped, WireInOrder, Numbers
<1>4. OneRowPerLife
  BY DEF Init, OneRowPerLife, InHand
<1> QED BY <1>1, <1>3, <1>4 DEF IInv

\* Only a restart makes the server forget.
LEMMA KeptStays ==
    ASSUME TypeOK,
           \/ \E u \in Users : \/ ClientSends(u) \/ ClientGoesBack(u) \/ ClientIsAcked(u)
                               \/ HandleIncoming(u) \/ Deliver(u) \/ Leave(u) \/ Reconnect(u)
           \/ \E h \in handlers : StoreChatMessage(h) \/ RouteMessage(h)
           \/ UNCHANGED vars
    PROVE  \A m \in Messages : Kept(m) => Kept(m)'
<1> USE DEF Kept, InHand, client, faults
<1>1. ASSUME NEW u \in Users, HandleIncoming(u)
      PROVE  rows' = rows /\ lost' = lost /\ handlers \subseteq handlers'
  BY <1>1 DEF HandleIncoming, Dispatch
<1>2. ASSUME NEW h \in handlers, StoreChatMessage(h)
      PROVE  \A m \in Messages : Kept(m) => Kept(m)'
  <2> SUFFICES ASSUME NEW m \in Messages, Kept(m) PROVE Kept(m)'
    OBVIOUS
  <2>1. CASE h.message = m
    BY <1>2, <2>1 DEF StoreChatMessage, TypeOK
  <2>2. CASE h.message # m
    BY <1>2, <2>2 DEF StoreChatMessage, TypeOK
  <2> QED BY <2>1, <2>2
<1>3. ASSUME NEW h \in handlers, RouteMessage(h)
      PROVE  \A m \in Messages : Kept(m) => Kept(m)'
  BY <1>3 DEF RouteMessage
<1> QED BY <1>1, <1>2, <1>3
        DEF ClientSends, ClientGoesBack, ClientIsAcked, Deliver, Leave, Reconnect, vars

\* What the invariant says is about numbers and positions.
LEMMA ChatNumbers ==
    ASSUME TypeOK, NEW u \in Users
    PROVE  /\ Numbers(u) \subseteq Nat /\ Texts[u] \in Nat
           /\ next[u] \in Nat /\ acked[u] \in Nat /\ acks[u] \in Nat
           /\ acked[u] <= acks[u] /\ lastProcessed[u] \in Int
           /\ wire[u] \in Seq(Numbers(u)) /\ Len(wire[u]) \in Nat
           /\ \A i \in 1..Len(wire[u]) : wire[u][i] \in Numbers(u) /\ wire[u][i] \in Nat
<1>1. Numbers(u) \subseteq Nat /\ Texts[u] \in Nat
  BY NumbersAreNatural
<1>2. wire[u] \in Seq(Numbers(u))
  BY DEF TypeOK
<1>3. Len(wire[u]) \in Nat /\ \A i \in 1..Len(wire[u]) : wire[u][i] \in Numbers(u)
  BY <1>2
<1> QED BY <1>1, <1>2, <1>3 DEF TypeOK

\* A client adds the next number to the wire.
LEMMA SendKeepsOrder ==
    ASSUME IInv, NEW u \in Users, ClientSends(u)
    PROVE  (ProcessedKept /\ WireInOrder /\ NothingSkipped)'
<1> USE DEF IInv
<1>k. \A m \in Messages : Kept(m) => Kept(m)'
  BY KeptStays
<1>m. \A v \in Users : \A n \in Numbers(v) : <<v, n>> \in Messages
  BY MessageParts
<1>w. next[u] \in Numbers(u)
  BY ChatNumbers DEF ClientSends, Numbers
<1>a. /\ Len(wire'[u]) = Len(wire[u]) + 1 /\ wire'[u][Len(wire[u]) + 1] = next[u]
      /\ \A i \in 1..Len(wire[u]) : wire'[u][i] = wire[u][i]
      /\ \A v \in Users \ {u} : wire'[v] = wire[v] /\ next'[v] = next[v]
      /\ next'[u] = next[u] + 1
  <2>1. wire' = [wire EXCEPT ![u] = Append(wire[u], next[u])] /\ next' = [next EXCEPT ![u] = next[u] + 1]
    BY DEF ClientSends
  <2>2. wire'[u] = Append(wire[u], next[u]) /\ next'[u] = next[u] + 1
    BY <2>1 DEF TypeOK
  <2>3. \A v \in Users \ {u} : wire'[v] = wire[v] /\ next'[v] = next[v]
    BY <2>1 DEF TypeOK
  <2>4. wire[u] \in Seq(Numbers(u))
    BY ChatNumbers
  <2> QED BY <2>2, <2>3, <2>4, <1>w, QueueAppend
<1>1. ProcessedKept'
  BY <1>k, <1>m DEF ClientSends, ProcessedKept
<1>2. WireInOrder'
  <2> SUFFICES ASSUME NEW v \in Users, NEW i \in 1..Len(wire'[v]), NEW k \in Numbers(v),
                      k < wire'[v][i]
               PROVE  Kept(<<v, k>>)' \/ \E j \in 1..(i - 1) : wire'[v][j] = k
    BY DEF WireInOrder
  <2>1. CASE v # u
    BY <2>1, <1>a, <1>k, <1>m, SMTT(60) DEF WireInOrder
  <2>2. CASE v = u /\ i \in 1..Len(wire[u])
    <3>1. Kept(<<u, k>>) \/ \E j \in 1..(i - 1) : wire[u][j] = k
      BY <2>2, <1>a DEF WireInOrder
    <3>2. ASSUME NEW j \in 1..(i - 1), wire[u][j] = k PROVE wire'[u][j] = k
      <4>1. Len(wire[u]) \in Nat
        BY ChatNumbers
      <4>2. j \in 1..Len(wire[u])
        BY <4>1, <2>2
      <4> QED BY <4>2, <3>2, <1>a
    <3> QED BY <3>1, <3>2, <2>2, <1>k, <1>m
  <2>3. CASE v = u /\ i = Len(wire[u]) + 1
    <3>1. Kept(<<u, k>>) \/ \E j \in 1..Len(wire[u]) : wire[u][j] = k
      BY <2>3, <1>a DEF NothingSkipped
    <3>2. ASSUME NEW j \in 1..Len(wire[u]), wire[u][j] = k
          PROVE  j \in 1..(i - 1) /\ wire'[u][j] = k
      BY <3>2, <2>3, <1>a, ChatNumbers
    <3> QED BY <3>1, <3>2, <2>3, <1>k, <1>m
  <2> QED BY <2>1, <2>2, <2>3, <1>a, ChatNumbers
<1>3. NothingSkipped'
  <2> SUFFICES ASSUME NEW v \in Users, NEW k \in Numbers(v), k < next'[v]
               PROVE  Kept(<<v, k>>)' \/ \E j \in 1..Len(wire'[v]) : wire'[v][j] = k
    BY DEF NothingSkipped
  <2>1. CASE v # u
    BY <2>1, <1>a, <1>k, <1>m DEF NothingSkipped
  <2>2. CASE v = u /\ k < next[u]
    <3>1. Kept(<<u, k>>) \/ \E j \in 1..Len(wire[u]) : wire[u][j] = k
      BY <2>2 DEF NothingSkipped
    <3>2. ASSUME NEW j \in 1..Len(wire[u]), wire[u][j] = k
          PROVE  j \in 1..Len(wire'[u]) /\ wire'[u][j] = k
      BY <3>2, <1>a, ChatNumbers
    <3> QED BY <3>1, <3>2, <2>2, <1>k, <1>m
  <2>3. CASE v = u /\ k = next[u]
    <3>1. Len(wire[u]) + 1 \in 1..Len(wire'[u])
      BY <1>a, ChatNumbers
    <3> QED BY <3>1, <2>3, <1>a
  <2>4. k \in Int /\ next[v] \in Int
    BY ChatNumbers
  <2> QED BY <2>1, <2>2, <2>3, <2>4, <1>a
<1> QED BY <1>1, <1>2, <1>3

\* The server takes the head of the wire: before it nothing is missing.
LEMMA HandlingKeepsOrder ==
    ASSUME IInv, NEW u \in Users, HandleIncoming(u)
    PROVE  (ProcessedKept /\ WireInOrder /\ NothingSkipped)'
<1> USE DEF IInv
<1>k. \A m \in Messages : Kept(m) => Kept(m)'
  BY KeptStays
<1>m. \A v \in Users : \A x \in Numbers(v) : <<v, x>> \in Messages
  BY MessageParts
<1>w. wire[u] \in Seq(Numbers(u)) /\ wire[u] # <<>>
  BY ChatNumbers DEF HandleIncoming
<1>q. PICK n \in Numbers(u) : n = wire[u][1] /\ n = Head(wire[u])
  BY <1>w, QueueHead
<1>h. n \in Nat /\ Len(wire[u]) \in Nat \ {0}
  BY <1>w, QueueHead, ChatNumbers
<1>a. /\ Len(wire'[u]) = Len(wire[u]) - 1
      /\ \A i \in 1..(Len(wire[u]) - 1) : wire'[u][i] = wire[u][i + 1]
      /\ \A v \in Users \ {u} : wire'[v] = wire[v] /\ acks'[v] = acks[v]
      /\ acks'[u] = IF n < acks[u] THEN acks[u] ELSE n + 1
      /\ next' = next
  <2>1. /\ wire' = [wire EXCEPT ![u] = Tail(wire[u])]
        /\ acks' = [acks EXCEPT ![u] = IF n < acks[u] THEN acks[u] ELSE n + 1]
        /\ next' = next
    BY <1>q DEF HandleIncoming, client
  <2>2. wire'[u] = Tail(wire[u]) /\ \A v \in Users \ {u} : wire'[v] = wire[v]
    BY <2>1 DEF TypeOK
  <2>3. /\ acks'[u] = IF n < acks[u] THEN acks[u] ELSE n + 1
        /\ \A v \in Users \ {u} : acks'[v] = acks[v]
    BY <2>1 DEF TypeOK
  <2>4. /\ Len(Tail(wire[u])) = Len(wire[u]) - 1
        /\ \A i \in 1..(Len(wire[u]) - 1) : Tail(wire[u])[i] = wire[u][i + 1]
    BY <1>w, QueueHead
  <2> QED BY <2>1, <2>2, <2>3, <2>4
<1>l. /\ \A v \in Users \ {u} : lastProcessed'[v] = lastProcessed[v]
      /\ lastProcessed'[u] \in {lastProcessed[u], n}
  BY <1>q DEF HandleIncoming, TypeOK
<1>n. Kept(<<u, n>>)'
  <2>1. CASE n > lastProcessed[u]
    <3>1. [message |-> <<u, n>>, at |-> "store"] \in handlers'
      BY <2>1, <1>q DEF HandleIncoming, IsNew, Dispatch
    <3>2. \E h \in handlers' : h.message = <<u, n>> /\ h.at = "store"
      BY <3>1
    <3> QED BY <3>2 DEF Kept, InHand
  <2>2. CASE ~(n > lastProcessed[u])
    <3>1. n <= lastProcessed[u]
      BY <2>2, <1>h, ChatNumbers
    <3> QED BY <3>1, <1>h, <1>k, <1>m DEF ProcessedKept
  <2> QED BY <2>1, <2>2
<1>b. \A k \in Numbers(u) : k < n => Kept(<<u, k>>)'
  <2> SUFFICES ASSUME NEW k \in Numbers(u), k < n PROVE Kept(<<u, k>>)
    BY <1>k, <1>m
  <2>1. 1 \in 1..Len(wire[u]) /\ ~ \E j \in 1..(1 - 1) : wire[u][j] = k
    BY <1>h
  <2>2. Kept(<<u, k>>) \/ \E j \in 1..(1 - 1) : wire[u][j] = k
    BY <2>1, <1>q DEF WireInOrder
  <2> QED BY <2>1, <2>2
<1>1. ProcessedKept'
  <2> SUFFICES ASSUME NEW v \in Users, NEW k \in Numbers(v),
                      k < acks'[v] \/ k <= lastProcessed'[v]
               PROVE  Kept(<<v, k>>)'
    BY DEF ProcessedKept
  <2>1. CASE v # u
    BY <2>1, <1>a, <1>l, <1>k, <1>m DEF ProcessedKept
  <2>2. CASE v = u /\ (k < acks[u] \/ k <= lastProcessed[u])
    BY <2>2, <1>k, <1>m DEF ProcessedKept
  <2>3. CASE v = u /\ ~(k < acks[u] \/ k <= lastProcessed[u])
    <3>1. k \in Nat /\ acks[u] \in Nat
      BY ChatNumbers
    <3>2. k = n \/ k < n
      BY <3>1, <2>3, <1>a, <1>l, <1>h
    <3> QED BY <3>2, <2>3, <1>n, <1>b
  <2> QED BY <2>1, <2>2, <2>3
<1>2. WireInOrder'
  <2> SUFFICES ASSUME NEW v \in Users, NEW i \in 1..Len(wire'[v]), NEW k \in Numbers(v),
                      k < wire'[v][i], ~ Kept(<<v, k>>)'
               PROVE  \E j \in 1..(i - 1) : wire'[v][j] = k
    BY DEF WireInOrder
  <2>1. CASE v # u
    BY <2>1, <1>a, <1>k, <1>m DEF WireInOrder
  <2>2. CASE v = u
    <3>1. i \in Nat /\ i + 1 \in 1..Len(wire[u]) /\ wire'[u][i] = wire[u][i + 1]
      BY <2>2, <1>a, <1>h
    <3>2. PICK j \in 1..((i + 1) - 1) : wire[u][j] = k
      BY <3>1, <2>2, <1>k, <1>m DEF WireInOrder
    <3>3. j # 1
      BY <3>2, <2>2, <1>n, <1>q
    <3>4. j - 1 \in 1..(i - 1) /\ j - 1 \in 1..(Len(wire[u]) - 1) /\ (j - 1) + 1 = j
      BY <3>1, <3>3, <1>h
    <3>5. wire'[u][j - 1] = k
      BY <3>4, <3>2, <1>a
    <3> QED BY <3>4, <3>5, <2>2
  <2> QED BY <2>1, <2>2
<1>3. NothingSkipped'
  <2> SUFFICES ASSUME NEW v \in Users, NEW k \in Numbers(v), k < next'[v],
                      ~ Kept(<<v, k>>)'
               PROVE  \E j \in 1..Len(wire'[v]) : wire'[v][j] = k
    BY DEF NothingSkipped
  <2>1. CASE v # u
    BY <2>1, <1>a, <1>k, <1>m DEF NothingSkipped
  <2>2. CASE v = u
    <3>1. PICK j \in 1..Len(wire[u]) : wire[u][j] = k
      BY <2>2, <1>a, <1>k, <1>m DEF NothingSkipped
    <3>2. j # 1
      BY <3>1, <2>2, <1>n, <1>q
    <3>3. j - 1 \in 1..(Len(wire[u]) - 1) /\ (j - 1) + 1 = j
      BY <3>2, <1>h
    <3>4. wire'[u][j - 1] = k /\ j - 1 \in 1..Len(wire'[u])
      BY <3>3, <3>1, <1>a
    <3> QED BY <3>4, <2>2
  <2> QED BY <2>1, <2>2
<1> QED BY <1>1, <1>2, <1>3

\* An empty wire and a client that goes back leave no gap.
LEMMA BackKeepsOrder ==
    ASSUME IInv,
           \A v \in Users : \/ wire'[v] = wire[v] /\ acks'[v] = acks[v] /\ next'[v] = next[v]
                            \/ wire'[v] = wire[v] /\ acks'[v] = acks[v] /\ next'[v] = acked[v]
                            \/ wire'[v] = <<>> /\ acks'[v] = acked[v] /\ next'[v] = acked[v],
           lastProcessed' = lastProcessed,
           \A m \in Messages : Kept(m) => Kept(m)'
    PROVE  (ProcessedKept /\ WireInOrder /\ NothingSkipped)'
<1> USE DEF IInv
<1>m. \A v \in Users : \A x \in Numbers(v) : <<v, x>> \in Messages
  BY MessageParts
<1>a. \A v \in Users : \A k \in Numbers(v) : k < acked[v] => k < acks[v]
  <2> TAKE v \in Users
  <2>1. Numbers(v) \subseteq Nat /\ acked[v] \in Nat /\ acks[v] \in Nat /\ acked[v] <= acks[v]
    BY ChatNumbers
  <2> QED BY <2>1
<1>1. ProcessedKept'
  BY <1>m, <1>a DEF ProcessedKept
<1>2. WireInOrder'
  BY <1>m DEF WireInOrder
<1>3. NothingSkipped'
  BY <1>m, <1>a DEF NothingSkipped, ProcessedKept
<1> QED BY <1>1, <1>2, <1>3

\* After a restart everything acknowledged is stored, or lost to the restart.
LEMMA RestartKeepsOrder ==
    ASSUME IInv, Restart
    PROVE  (ProcessedKept /\ WireInOrder /\ NothingSkipped)'
<1> USE DEF IInv
<1>1. /\ acks' = acked /\ next' = acked
      /\ \A v \in Users : wire'[v] = <<>> /\ lastProcessed'[v] = -1
  BY DEF Restart
<1>2. ASSUME NEW v \in Users, NEW k \in Numbers(v), k < acked[v] PROVE Kept(<<v, k>>)'
  <2> DEFINE m == <<v, k>>
  <2>1. m \in Messages /\ m \in Promised
    BY <1>2, MessageParts DEF Promised
  <2>2. k \in Nat /\ acked[v] \in Nat /\ acks[v] \in Nat /\ acked[v] <= acks[v]
    BY ChatNumbers
  <2>3. Kept(m)
    BY <1>2, <2>2 DEF ProcessedKept
  <2>4. CASE rows[m] > 0
    BY <2>1, <2>4 DEF Restart, Kept, TypeOK
  <2>5. CASE InHand(m)
    BY <2>1, <2>5 DEF Restart, Kept, InHand, Handled
  <2>6. CASE m \in lost
    BY <2>6 DEF Restart, Kept
  <2> QED BY <2>3, <2>4, <2>5, <2>6 DEF Kept
<1>3. ProcessedKept'
  <2> SUFFICES ASSUME NEW v \in Users, NEW k \in Numbers(v), ~(k < acks'[v])
               PROVE  ~(k <= lastProcessed'[v])
    BY <1>1, <1>2 DEF ProcessedKept
  <2> QED BY <1>1, ChatNumbers
<1>4. WireInOrder'
  BY <1>1 DEF WireInOrder
<1>5. NothingSkipped'
  BY <1>1, <1>2 DEF NothingSkipped
<1> QED BY <1>3, <1>4, <1>5

-----------------------------------------------------------------------------
LEMMA RowsStep ==
    ASSUME IInv, Next PROVE OneRowPerLife'
<1> USE DEF IInv, client, faults
<1>t. rows \in [Messages -> Nat] /\ restarts \in Nat /\ handlers \subseteq Handlers
  BY ChatAssumption DEF TypeOK
<1>1. ASSUME NEW u \in Users, HandleIncoming(u) PROVE OneRowPerLife'
  <2>1. PICK n \in Numbers(u) : n = Head(wire[u])
    <3>1. wire[u] \in Seq(Numbers(u)) /\ wire[u] # <<>>
      BY <1>1, ChatNumbers DEF HandleIncoming
    <3> QED BY <3>1, QueueHead
  <2>2. rows' = rows /\ restarts' = restarts
    BY <1>1 DEF HandleIncoming
  <2>3. CASE n > lastProcessed[u]
    <3>1. /\ lastProcessed' = [lastProcessed EXCEPT ![u] = n]
          /\ handlers' = handlers \cup {[message |-> <<u, n>>, at |-> "store"]}
      BY <1>1, <2>1, <2>3 DEF HandleIncoming, IsNew, Dispatch
    <3>2. lastProcessed'[u] = n /\ \A v \in Users \ {u} : lastProcessed'[v] = lastProcessed[v]
      BY <3>1 DEF TypeOK
    <3>3. \A m \in Messages : m[2] \in Int /\ lastProcessed[m[1]] \in Int /\ m[1] \in Users
      BY MessageParts, ChatNumbers
    <3>4. n \in Int /\ lastProcessed[u] \in Int /\ <<u, n>> \in Messages
      BY MessageParts, ChatNumbers
    <3>5. \A h \in handlers' : h.message[2] <= lastProcessed'[h.message[1]]
      <4> TAKE h \in handlers'
      <4>1. CASE h \in handlers
        <5>1. h.message \in Messages /\ h.message[2] <= lastProcessed[h.message[1]]
          BY <4>1, <1>t DEF Handlers, OneRowPerLife
        <5> QED BY <5>1, <3>2, <3>3, <3>4, <2>3
      <4>2. CASE h = [message |-> <<u, n>>, at |-> "store"]
        BY <4>2, <3>2, <3>4
      <4> QED BY <4>1, <4>2, <3>1
    <3>6. ASSUME NEW m \in Messages, InHand(m)' \/ m[2] > lastProcessed'[m[1]]
          PROVE  rows[m] <= restarts
      <4>1. CASE m[2] > lastProcessed'[m[1]]
        <5>1. m[2] > lastProcessed[m[1]]
          BY <4>1, <3>2, <3>3, <3>4, <2>3
        <5> QED BY <5>1 DEF OneRowPerLife
      <4>2. CASE InHand(m)'
        <5>1. InHand(m) \/ m = <<u, n>>
          BY <4>2, <3>1 DEF InHand
        <5>2. m = <<u, n>> => m[2] > lastProcessed[m[1]]
          BY <2>3
        <5> QED BY <5>1, <5>2 DEF OneRowPerLife
      <4> QED BY <3>6, <4>1, <4>2
    <3> QED BY <2>2, <3>5, <3>6 DEF OneRowPerLife
  <2>4. CASE ~(n > lastProcessed[u])
    BY <1>1, <2>1, <2>2, <2>4 DEF HandleIncoming, IsNew, OneRowPerLife, InHand
  <2> QED BY <2>3, <2>4
<1>2. ASSUME NEW h \in handlers, StoreChatMessage(h) PROVE OneRowPerLife'
  <2> DEFINE next_h == [h EXCEPT !.at = "route"]
  <2>1. /\ h.message \in Messages /\ h = [message |-> h.message, at |-> "store"]
        /\ rows[h.message] <= restarts
    BY <1>2, <1>t DEF StoreChatMessage, Handlers, OneRowPerLife, InHand
  <2>2. /\ rows' = [rows EXCEPT ![h.message] = rows[h.message] + 1]
        /\ handlers' = (handlers \ {h}) \cup {next_h}
        /\ lastProcessed' = lastProcessed /\ restarts' = restarts
    BY <1>2 DEF StoreChatMessage
  <2>3. next_h.message = h.message /\ next_h.at = "route"
    BY <1>t DEF Handlers
  <2>4. \A k \in handlers' : k.message[2] <= lastProcessed'[k.message[1]]
    BY <2>2, <2>3 DEF OneRowPerLife
  <2>5. ~ InHand(h.message)'
    <3> SUFFICES ASSUME NEW k \in handlers', k.message = h.message, k.at = "store"
                 PROVE  FALSE
      BY DEF InHand
    <3>1. k \in handlers /\ k # h
      BY <2>2, <2>3
    <3>2. k = [message |-> h.message, at |-> "store"]
      BY <3>1, <1>t DEF Handlers
    <3> QED BY <3>1, <3>2, <2>1
  <2>6. ASSUME NEW m \in Messages, m # h.message, InHand(m)' PROVE InHand(m)
    BY <2>6, <2>2, <2>3 DEF InHand
  <2>7. h.message[2] <= lastProcessed[h.message[1]]
    BY DEF OneRowPerLife
  <2>8. h.message[2] \in Int /\ lastProcessed[h.message[1]] \in Int
    BY <2>1, MessageParts, ChatNumbers
  <2>9. ASSUME NEW m \in Messages
        PROVE  /\ rows'[m] <= restarts + 1
               /\ InHand(m)' \/ m[2] > lastProcessed'[m[1]] => rows'[m] <= restarts
    <3>1. CASE m = h.message
      <4>1. rows'[m] = rows[m] + 1
        BY <3>1, <2>2, <1>t
      <4> QED BY <4>1, <3>1, <2>1, <2>2, <2>5, <2>7, <2>8, <1>t
    <3>2. CASE m # h.message
      BY <3>2, <2>2, <2>6, <1>t DEF OneRowPerLife
    <3> QED BY <3>1, <3>2
  <2> QED BY <2>2, <2>4, <2>9 DEF OneRowPerLife
<1>3. ASSUME Restart PROVE OneRowPerLife'
  <2>1. /\ handlers' = {} /\ restarts' = restarts + 1
        /\ \A m \in Messages : /\ rows[m] <= restarts + 1
                               /\ rows'[m] # rows[m] => InHand(m) /\ rows'[m] = rows[m] + 1
    BY <1>3, <1>t DEF Restart, OneRowPerLife, InHand
  <2>2. \A m \in Messages : rows'[m] <= restarts + 1
    BY <2>1, <1>t DEF OneRowPerLife
  <2>3. restarts + 1 <= restarts' + 1 /\ restarts + 1 = restarts'
    BY <2>1, <1>t
  <2>4. \A m \in Messages : rows'[m] \in Nat
    BY <1>3, TypeStep DEF TypeOK
  <2> QED BY <2>1, <2>2, <2>3, <2>4, <1>t DEF OneRowPerLife
<1>4. ASSUME NEW h \in handlers, RouteMessage(h) PROVE OneRowPerLife'
  <2>1. /\ handlers' \subseteq handlers /\ rows' = rows /\ lastProcessed' = lastProcessed
        /\ restarts' = restarts
    BY <1>4 DEF RouteMessage
  <2> QED BY <2>1 DEF OneRowPerLife, InHand
<1>5. ASSUME NEW u \in Users,
             \/ ClientSends(u) \/ ClientGoesBack(u) \/ ClientIsAcked(u)
             \/ Deliver(u) \/ Leave(u) \/ Reconnect(u)
      PROVE  OneRowPerLife'
  <2>1. /\ handlers' = handlers /\ rows' = rows /\ lastProcessed' = lastProcessed
        /\ restarts' = restarts
    BY <1>5 DEF ClientSends, ClientGoesBack, ClientIsAcked, Deliver, Leave, Reconnect
  <2> QED BY <2>1 DEF OneRowPerLife, InHand
<1> QED BY <1>1, <1>2, <1>3, <1>4, <1>5 DEF Next

LEMMA InvStep == IInv /\ [Next]_vars => IInv'
<1> SUFFICES ASSUME IInv, [Next]_vars PROVE IInv'
  OBVIOUS
<1> USE DEF client, faults
<1>1. TypeOK'
  BY TypeStep DEF IInv
<1>2. CASE Next
  <2>1. OneRowPerLife'
    BY <1>2, RowsStep
  <2>2. ASSUME NEW u \in Users, ClientSends(u)
        PROVE  (ProcessedKept /\ WireInOrder /\ NothingSkipped)'
    BY <2>2, SendKeepsOrder
  <2>3. ASSUME NEW u \in Users, HandleIncoming(u)
        PROVE  (ProcessedKept /\ WireInOrder /\ NothingSkipped)'
    BY <2>3, HandlingKeepsOrder
  <2>4. ASSUME Restart PROVE (ProcessedKept /\ WireInOrder /\ NothingSkipped)'
    BY <2>4, RestartKeepsOrder
  <2>5. ASSUME \/ \E u \in Users : ClientIsAcked(u) \/ Deliver(u) \/ Leave(u)
               \/ \E h \in handlers : StoreChatMessage(h) \/ RouteMessage(h)
        PROVE  (ProcessedKept /\ WireInOrder /\ NothingSkipped)'
    <3>1. \A m \in Messages : Kept(m) => Kept(m)'
      BY <2>5, KeptStays DEF IInv
    <3>2. wire' = wire /\ acks' = acks /\ next' = next /\ lastProcessed' = lastProcessed
      BY <2>5 DEF ClientIsAcked, Deliver, Leave, StoreChatMessage, RouteMessage
    <3> QED BY <3>1, <3>2, BackKeepsOrder
  <2>6. ASSUME NEW u \in Users, ClientGoesBack(u) \/ Reconnect(u)
        PROVE  (ProcessedKept /\ WireInOrder /\ NothingSkipped)'
    <3>1. \A m \in Messages : Kept(m) => Kept(m)'
      BY <2>6, KeptStays DEF IInv
    <3>2. /\ lastProcessed' = lastProcessed
          /\ \A v \in Users : \/ wire'[v] = wire[v] /\ acks'[v] = acks[v] /\ next'[v] = next[v]
                              \/ wire'[v] = wire[v] /\ acks'[v] = acks[v] /\ next'[v] = acked[v]
                              \/ wire'[v] = <<>> /\ acks'[v] = acked[v] /\ next'[v] = acked[v]
      BY <2>6 DEF ClientGoesBack, Reconnect, IInv, TypeOK
    <3> QED BY <3>1, <3>2, BackKeepsOrder
  <2> QED BY <1>1, <1>2, <2>1, <2>2, <2>3, <2>4, <2>5, <2>6 DEF Next, IInv
<1>3. CASE UNCHANGED vars
  <2>1. \A m : Kept(m)' <=> Kept(m)
    BY <1>3 DEF vars, Kept, InHand
  <2>2. ProcessedKept' /\ WireInOrder' /\ NothingSkipped'
    BY <1>3, <2>1 DEF vars, IInv, ProcessedKept, WireInOrder, NothingSkipped
  <2>3. OneRowPerLife'
    BY <1>3 DEF vars, IInv, OneRowPerLife, InHand
  <2> QED BY <1>1, <2>2, <2>3 DEF IInv
<1> QED BY <1>2, <1>3

LEMMA InvImplies == IInv => AcknowledgedHandledOnce
<1> SUFFICES ASSUME IInv PROVE AcknowledgedHandledOnce
  OBVIOUS
<1>1. ASSUME NEW m \in Promised PROVE rows[m] > 0 \/ InHand(m) \/ m \in lost
  <2>1. /\ m \in Messages /\ m[1] \in Users /\ m[2] \in Numbers(m[1])
        /\ m = <<m[1], m[2]>> /\ m[2] < acked[m[1]]
    BY MessageParts DEF Promised
  <2>2. m[2] \in Nat /\ acked[m[1]] \in Nat /\ acks[m[1]] \in Nat /\ acked[m[1]] <= acks[m[1]]
    BY <2>1, ChatNumbers DEF IInv
  <2>3. m[2] < acks[m[1]]
    BY <2>1, <2>2
  <2>4. Kept(<<m[1], m[2]>>)
    BY <2>1, <2>3 DEF IInv, ProcessedKept
  <2> QED BY <2>1, <2>4 DEF Kept
<1>2. \A m \in Messages : rows[m] <= 1 + restarts
  BY ChatAssumption DEF IInv, OneRowPerLife, TypeOK
<1> QED BY <1>1, <1>2 DEF AcknowledgedHandledOnce

\* For any members, messages, broken connections and restarts: what is acknowledged
\* is stored or about to be, unless a restart is to blame, and stored at most once
\* in each life of the server.
THEOREM AcknowledgedHandledOnceHolds == Spec => []AcknowledgedHandledOnce
<1>1. Spec => []IInv
  BY InvInit, InvStep, PTL DEF Spec
<1> QED BY <1>1, InvImplies, PTL

=============================================================================
