----------------------- MODULE ReliableDelivery_proofs -----------------------
(* Type correctness of ReliableDelivery, and that it implements the channel *)
(* of ReliableChannel, for any number of messages, retries, connections and *)
(* copies under way.                                                        *)
EXTENDS ReliableDelivery, TLAPS

\* The messages sent since the sequence numbers last began at 0.
Forgotten == sent - nextSeq
Current == {m \in Messages : Forgotten < m /\ m <= sent}

Received(m) == Contains(received, m)

\* Ids are distinct as long as their messages are current.
IdInv ==
    /\ nextSeq <= sent
    /\ \A m \in Current : idOf[m] = m - Forgotten - 1

\* What waits is current and in order, and was not received but for its first.
QueueInv ==
    /\ \A i \in 1..Len(queue) : queue[i] \in Current /\ ~Received(queue[i])
    /\ \A i, j \in 1..Len(queue) : i < j => queue[i] < queue[j]
    /\ inFlight # None => /\ inFlight \in Current
                          /\ \A i \in 1..Len(queue) : inFlight < queue[i]

\* Copies under way are of the message in flight or were received before, and
\* acknowledgements are of received messages.
WireInv ==
    /\ \A k \in 1..Len(down) : down[k] \in Current /\ (Received(down[k]) \/ down[k] = inFlight)
    /\ \A k \in 1..Len(up) : \E m \in Current : up[k] = idOf[m] /\ Received(m)
    /\ \A m \in Messages : Received(m) => m <= sent

IInv == TypeOK /\ IdInv /\ QueueInv /\ WireInv

-----------------------------------------------------------------------------
(* Sequences. *)

LEMMA ContainsAppend ==
    ASSUME NEW S, NEW s \in Seq(S), NEW e \in S, NEW x
    PROVE  Contains(Append(s, e), x) <=> Contains(s, x) \/ x = e
<1>1. /\ Len(Append(s, e)) = Len(s) + 1 /\ Len(s) \in Nat
      /\ \A i \in 1..Len(s) : Append(s, e)[i] = s[i]
      /\ Append(s, e)[Len(s) + 1] = e
  OBVIOUS
<1>2. \A i : i \in 1..(Len(s) + 1) <=> i \in 1..Len(s) \/ i = Len(s) + 1
  BY <1>1
<1> QED BY <1>1, <1>2 DEF Contains

LEMMA SameSequence ==
    ASSUME NEW S, NEW s \in Seq(S), NEW t \in Seq(S), Len(s) = Len(t),
           \A i \in 1..Len(s) : s[i] = t[i]
    PROVE  s = t
OBVIOUS

LEMMA Prefixed ==
    ASSUME NEW S, NEW h \in S, NEW q \in Seq(S)
    PROVE  /\ <<h>> \o q \in Seq(S) /\ Len(<<h>> \o q) = Len(q) + 1 /\ Len(q) \in Nat
           /\ (<<h>> \o q)[1] = h
           /\ \A i \in 2..(Len(q) + 1) : (<<h>> \o q)[i] = q[i - 1]
           /\ <<h>> \o q # <<>> /\ Head(<<h>> \o q) = h /\ <<>> \o q = q
<1>1. /\ <<h>> \in Seq(S) /\ Len(<<h>>) = 1 /\ Len(q) \in Nat /\ <<h>>[1] = h
  OBVIOUS
<1>2. /\ <<h>> \o q \in Seq(S) /\ Len(<<h>> \o q) = Len(q) + 1
  BY <1>1
<1>3. (<<h>> \o q)[1] = h
  BY <1>1
<1>4. \A i \in 2..(Len(q) + 1) : (<<h>> \o q)[i] = q[i - 1]
  BY <1>1
<1>5. <<h>> \o q # <<>> /\ Head(<<h>> \o q) = h
  BY <1>1, <1>2, <1>3
<1>6. <<>> \o q = q
  <2>1. /\ <<>> \o q \in Seq(S) /\ Len(<<>> \o q) = Len(q)
        /\ \A i \in 1..Len(q) : (<<>> \o q)[i] = q[i]
    OBVIOUS
  <2> QED BY <2>1, SameSequence
<1> QED BY <1>1, <1>2, <1>3, <1>4, <1>5, <1>6

LEMMA TailOfPrefixed ==
    ASSUME NEW S, NEW h \in S, NEW q \in Seq(S)
    PROVE  Tail(<<h>> \o q) = q
<1> DEFINE t == <<h>> \o q
<1>1. /\ t \in Seq(S) /\ Len(t) = Len(q) + 1 /\ Len(q) \in Nat /\ t # <<>>
      /\ \A i \in 2..(Len(q) + 1) : t[i] = q[i - 1]
  BY Prefixed
<1> HIDE DEF t
<1>2. /\ Tail(t) \in Seq(S) /\ Len(Tail(t)) = Len(q)
      /\ \A i \in 1..Len(q) : Tail(t)[i] = t[i + 1]
  BY <1>1
<1>3. \A i \in 1..Len(q) : Tail(t)[i] = q[i]
  BY <1>1, <1>2
<1>4. Tail(t) = q
  BY <1>2, <1>3, SameSequence
<1> QED BY <1>4 DEF t

LEMMA AppendToPrefixed ==
    ASSUME NEW S, NEW h \in S, NEW q \in Seq(S), NEW e \in S
    PROVE  <<h>> \o Append(q, e) = Append(<<h>> \o q, e)
<1> DEFINE a == Append(q, e)
           l == <<h>> \o a
           p == <<h>> \o q
           r == Append(p, e)
<1>1. /\ a \in Seq(S) /\ Len(a) = Len(q) + 1 /\ Len(q) \in Nat
      /\ a[Len(q) + 1] = e /\ \A i \in 1..Len(q) : a[i] = q[i]
  OBVIOUS
<1>2. /\ p \in Seq(S) /\ Len(p) = Len(q) + 1 /\ p[1] = h
      /\ \A i \in 2..(Len(q) + 1) : p[i] = q[i - 1]
  BY Prefixed
<1> HIDE DEF a, p
<1>3. /\ l \in Seq(S) /\ Len(l) = Len(q) + 2 /\ l[1] = h
      /\ \A i \in 2..(Len(q) + 2) : l[i] = a[i - 1]
  BY <1>1, Prefixed
<1>4. /\ r \in Seq(S) /\ Len(r) = Len(q) + 2 /\ r[Len(q) + 2] = e
      /\ \A i \in 1..(Len(q) + 1) : r[i] = p[i]
  BY <1>1, <1>2
<1> HIDE DEF l, r
<1>5. \A i \in 1..(Len(q) + 2) : l[i] = r[i]
  <2>1. SUFFICES ASSUME NEW i \in 1..(Len(q) + 2) PROVE l[i] = r[i]
    OBVIOUS
  <2>2. CASE i = 1
    BY <1>1, <1>2, <1>3, <1>4, <2>2
  <2>3. CASE i \in 2..(Len(q) + 1)
    <3>1. i - 1 \in 1..Len(q) /\ i \in 2..(Len(q) + 2) /\ i \in 1..(Len(q) + 1)
      BY <1>1, <2>3
    <3>2. l[i] = q[i - 1]
      BY <1>1, <1>3, <3>1
    <3>3. r[i] = q[i - 1]
      BY <1>2, <1>4, <2>3, <3>1
    <3> QED BY <3>2, <3>3
  <2>4. CASE i = Len(q) + 2
    BY <1>1, <1>3, <1>4, <2>4
  <2> QED BY <1>1, <2>1, <2>2, <2>3, <2>4
<1>6. l = r
  BY <1>3, <1>4, <1>5, SameSequence
<1> QED BY <1>6 DEF l, r, a, p

LEMMA HeadTail ==
    ASSUME NEW S, NEW s \in Seq(S), s # <<>>
    PROVE  /\ Head(s) = s[1] /\ Head(s) \in S /\ Tail(s) \in Seq(S) /\ Len(s) \in Nat \ {0}
           /\ Len(Tail(s)) = Len(s) - 1 /\ 1 \in 1..Len(s)
           /\ \A i \in 1..Len(Tail(s)) : Tail(s)[i] = s[i + 1] /\ i + 1 \in 1..Len(s)
           /\ <<Head(s)>> \o Tail(s) = s
<1>1. /\ Head(s) = s[1] /\ Head(s) \in S /\ Tail(s) \in Seq(S) /\ Len(s) \in Nat \ {0}
      /\ Len(Tail(s)) = Len(s) - 1
  OBVIOUS
<1>2. 1 \in 1..Len(s)
  BY <1>1
<1>3. \A i \in 1..Len(Tail(s)) : Tail(s)[i] = s[i + 1] /\ i + 1 \in 1..Len(s)
  BY <1>1
<1>4. <<Head(s)>> \o Tail(s) = s
  <2> DEFINE h == Head(s)
             q == Tail(s)
  <2>1. /\ h = s[1] /\ h \in S /\ q \in Seq(S) /\ Len(q) = Len(s) - 1
        /\ \A i \in 1..Len(q) : q[i] = s[i + 1]
    BY <1>1, <1>3
  <2> HIDE DEF h, q
  <2> DEFINE t == <<h>> \o q
  <2>2. /\ t \in Seq(S) /\ Len(t) = Len(q) + 1 /\ t[1] = h
        /\ \A i \in 2..(Len(q) + 1) : t[i] = q[i - 1]
    BY <2>1, Prefixed
  <2> HIDE DEF t
  <2>3. /\ t \in Seq(S) /\ Len(t) = Len(s) /\ t[1] = s[1]
        /\ \A i \in 2..Len(s) : t[i] = s[i]
    <3>1. t \in Seq(S) /\ Len(t) = Len(s) /\ t[1] = s[1]
      BY <1>1, <2>1, <2>2
    <3>2. ASSUME NEW i \in 2..Len(s) PROVE t[i] = s[i]
      <4>1. i \in 2..(Len(q) + 1) /\ i - 1 \in 1..Len(q) /\ (i - 1) + 1 = i
        BY <1>1, <2>1
      <4>2. t[i] = q[i - 1]
        BY <2>2, <4>1
      <4> QED BY <2>1, <4>1, <4>2
    <3> QED BY <3>1, <3>2
  <2>4. \A i \in 1..Len(s) : t[i] = s[i]
    BY <1>1, <2>3
  <2>5. t = s
    BY <2>3, <2>4, SameSequence
  <2> QED BY <2>5 DEF t, h, q
<1> QED BY <1>1, <1>2, <1>3, <1>4

LEMMA Appended ==
    ASSUME NEW S, NEW s \in Seq(S), NEW e \in S
    PROVE  /\ Append(s, e) \in Seq(S) /\ Len(Append(s, e)) = Len(s) + 1 /\ Len(s) \in Nat
           /\ \A i \in 1..Len(s) : Append(s, e)[i] = s[i]
           /\ Append(s, e)[Len(s) + 1] = e /\ Append(s, e) # <<>>
           /\ \A i \in 1..Len(Append(s, e)) : i \in 1..Len(s) \/ i = Len(s) + 1
<1>1. /\ Append(s, e) \in Seq(S) /\ Len(Append(s, e)) = Len(s) + 1 /\ Len(s) \in Nat
      /\ Append(s, e)[Len(s) + 1] = e
  OBVIOUS
<1>2. \A i \in 1..Len(s) : Append(s, e)[i] = s[i]
  OBVIOUS
<1>3. Append(s, e) # <<>>
  BY <1>1
<1>4. \A i \in 1..Len(Append(s, e)) : i \in 1..Len(s) \/ i = Len(s) + 1
  BY <1>1
<1> QED BY <1>1, <1>2, <1>3, <1>4

\* A queue of messages of C that were not received, in the order they were sent.
Queued(q, C) ==
    /\ q \in Seq(Messages)
    /\ \A i \in 1..Len(q) : q[i] \in C /\ ~Received(q[i])
    /\ \A i, j \in 1..Len(q) : i < j => q[i] < q[j]

\* m comes before all of q.
Before(m, q) == \A i \in 1..Len(q) : m < q[i]

LEMMA TakeHead ==
    ASSUME NEW q, NEW C, Queued(q, C), q # <<>>
    PROVE  /\ Head(q) \in Messages /\ Head(q) \in C /\ ~Received(Head(q))
           /\ Queued(Tail(q), C) /\ Before(Head(q), Tail(q))
           /\ <<Head(q)>> \o Tail(q) = q
<1>1. q \in Seq(Messages)
  BY DEF Queued
<1>2. /\ Head(q) = q[1] /\ Head(q) \in Messages /\ Tail(q) \in Seq(Messages)
      /\ Len(q) \in Nat \ {0} /\ Len(Tail(q)) = Len(q) - 1 /\ 1 \in 1..Len(q)
      /\ \A i \in 1..Len(Tail(q)) : Tail(q)[i] = q[i + 1] /\ i + 1 \in 1..Len(q)
      /\ <<Head(q)>> \o Tail(q) = q
  BY <1>1, HeadTail
<1>3. \A i, j \in 1..Len(Tail(q)) : i < j => Tail(q)[i] < Tail(q)[j]
  BY <1>2 DEF Queued
<1>4. \A i \in 1..Len(Tail(q)) : /\ Tail(q)[i] \in C /\ ~Received(Tail(q)[i])
                                 /\ Head(q) < Tail(q)[i]
  BY <1>2 DEF Queued
<1> QED BY <1>2, <1>3, <1>4 DEF Queued, Before

LEMMA ElementOfSeq ==
    ASSUME NEW S, NEW s \in Seq(S), NEW k \in 1..Len(s)
    PROVE  s[k] \in S
OBVIOUS

LEMMA Facts ==
    ASSUME IInv
    PROVE  /\ Queued(queue, Current) /\ None \notin Messages /\ Messages \subseteq Nat
           /\ sent \in Nat /\ nextSeq \in Nat /\ Current \subseteq Messages
           /\ Forgotten \in Nat
           /\ inFlight # None => inFlight \in Current /\ inFlight \in Messages /\ Before(inFlight, queue)
BY DeliveryAssumption DEF IInv, TypeOK, QueueInv, IdInv, Queued, Before, Messages, Current, Forgotten

\* An acknowledgement with the id of the message in flight is of that message.
LEMMA AckIsOwn ==
    ASSUME IInv, up # <<>>, inFlight # None, idOf[inFlight] = Head(up)
    PROVE  Received(inFlight)
<1>1. up \in Seq(Nat)
  BY DEF IInv, TypeOK
<1>2. Head(up) = up[1] /\ 1 \in 1..Len(up)
  BY <1>1, HeadTail
<1>3. PICK m \in Current : up[1] = idOf[m] /\ Received(m)
  BY <1>2 DEF IInv, WireInv
<1>4. m = inFlight
  BY <1>2, <1>3, Facts DEF IInv, IdInv, QueueInv
<1> QED BY <1>3, <1>4

-----------------------------------------------------------------------------
(* Occasions to send: whatever is taken from the queue is in flight.        *)

LEMMA Transmitted ==
    ASSUME NEW conn, NEW m \in Messages, down \in Seq(Messages), Transmit(conn, m)
    PROVE  /\ down' \in Seq(Messages)
           /\ \A k \in 1..Len(down') : \/ down'[k] = m
                                       \/ k \in 1..Len(down) /\ down'[k] = down[k]
<1>1. CASE conn = "open"
  BY <1>1, Appended DEF Transmit
<1>2. CASE conn # "open"
  BY <1>2 DEF Transmit
<1> QED BY <1>1, <1>2


\* A message or none, as the sequence of those there are.
Line(m) == IF m = None THEN <<>> ELSE <<m>>

LEMMA Sending ==
    ASSUME NEW conn, NEW q, NEW w, NEW C,
           TrySendNext(conn, q, w), Queued(q, C), None \notin Messages,
           w = None \/ (w \in Messages /\ w \in C /\ Before(w, q)),
           down \in Seq(Messages)
    PROVE  /\ inFlight' = None \/ (inFlight' \in Messages /\ inFlight' \in C /\ Before(inFlight', queue'))
           /\ Queued(queue', C)
           /\ down' \in Seq(Messages)
           /\ \A k \in 1..Len(down') : \/ down'[k] = inFlight'
                                       \/ k \in 1..Len(down) /\ down'[k] = down[k]
           /\ retryCount' \in {0, retryCount} /\ resendTimer' \in {TRUE, resendTimer}
           /\ w # None => inFlight' = w /\ queue' = q
           /\ w = None => /\ Line(inFlight') \o queue' = q
                          /\ inFlight' # None => ~Received(inFlight')
<1>1. CASE w # None
  BY <1>1, Transmitted DEF TrySendNext
<1>2. CASE w = None /\ q # <<>>
  <2>1. Transmit(conn, Head(q)) /\ inFlight' = Head(q) /\ queue' = Tail(q)
        /\ retryCount' = 0 /\ resendTimer' = TRUE
    BY <1>2 DEF TrySendNext
  <2>2. /\ Head(q) \in Messages /\ Head(q) \in C /\ ~Received(Head(q))
        /\ Queued(Tail(q), C) /\ Before(Head(q), Tail(q))
        /\ <<Head(q)>> \o Tail(q) = q
    BY <1>2, TakeHead
  <2>3. /\ down' \in Seq(Messages)
        /\ \A k \in 1..Len(down') : \/ down'[k] = Head(q)
                                    \/ k \in 1..Len(down) /\ down'[k] = down[k]
    BY <2>1, <2>2, Transmitted
  <2> QED BY <1>2, <2>1, <2>2, <2>3 DEF Line
<1>3. CASE w = None /\ q = <<>>
  <2>1. inFlight' = None /\ queue' = q /\ UNCHANGED <<down, retryCount, resendTimer>>
    BY <1>3 DEF TrySendNext
  <2>2. q \in Seq(Messages) /\ <<>> \o q = q
    BY <1>3
  <2> QED BY <1>3, <2>1, <2>2 DEF Line
<1> QED BY <1>1, <1>2, <1>3

-----------------------------------------------------------------------------
(* What the steps leave to prove, once the wire and the queue are known.    *)

\* The acknowledgements and the first copy are taken off the wire in turn.
LEMMA TakeUp ==
    ASSUME IInv, up # <<>>
    PROVE  /\ Tail(up) \in Seq(Nat)
           /\ \A k \in 1..Len(Tail(up)) : \E m \in Current : Tail(up)[k] = idOf[m] /\ Received(m)
<1>1. up \in Seq(Nat)
  BY DEF IInv, TypeOK
<1>2. /\ Tail(up) \in Seq(Nat)
      /\ \A i \in 1..Len(Tail(up)) : Tail(up)[i] = up[i + 1] /\ i + 1 \in 1..Len(up)
  BY <1>1, HeadTail
<1> QED BY <1>2 DEF IInv, WireInv

LEMMA TakeDown ==
    ASSUME IInv, down # <<>>
    PROVE  /\ Head(down) \in Current /\ Head(down) \in Messages
           /\ Received(Head(down)) \/ Head(down) = inFlight
           /\ Tail(down) \in Seq(Messages)
           /\ \A k \in 1..Len(Tail(down)) : /\ Tail(down)[k] \in Current
                                            /\ Received(Tail(down)[k]) \/ Tail(down)[k] = inFlight
<1>1. down \in Seq(Messages)
  BY DEF IInv, TypeOK
<1>2. /\ Head(down) = down[1] /\ 1 \in 1..Len(down) /\ Head(down) \in Messages
      /\ Tail(down) \in Seq(Messages)
      /\ \A i \in 1..Len(Tail(down)) : Tail(down)[i] = down[i + 1] /\ i + 1 \in 1..Len(down)
  BY <1>1, HeadTail
<1> QED BY <1>2 DEF IInv, WireInv

-----------------------------------------------------------------------------
(* The steps preserve the invariant.                                        *)

LEMMA InvInit == Init => IInv
<1> SUFFICES ASSUME Init PROVE IInv
  OBVIOUS
<1>1. TypeOK
  <2>1. /\ 0 \in 0..MaxSent /\ 0 \in 0..MaxResend /\ 0 \in 0..MaxConnects
    BY DeliveryAssumption
  <2>2. idOf \in [Messages -> Nat]
    BY DEF Init
  <2>3. socket \in Sockets /\ grace \in BOOLEAN /\ resendTimer \in BOOLEAN
    BY DEF Init, Sockets
  <2>4. /\ queue \in Seq(Messages) /\ down \in Seq(Messages) /\ up \in Seq(Nat)
        /\ received \in Seq(Messages) /\ inFlight \in Messages \cup {None}
    BY DEF Init
  <2> QED BY <2>1, <2>2, <2>3, <2>4 DEF Init, TypeOK
<1>2. IdInv
  BY DEF Init, IdInv, Current, Forgotten
<1>3. QueueInv
  BY DEF Init, QueueInv
<1>4. WireInv
  BY DEF Init, WireInv, Received, Contains
<1> QED BY <1>1, <1>2, <1>3, <1>4 DEF IInv

\* A step that numbers no message and lets the client receive none.
LEMMA Carried ==
    ASSUME IInv, UNCHANGED <<sent, nextSeq, idOf, received>>,
           inFlight' = None \/ (inFlight' \in Messages /\ inFlight' \in Current /\ Before(inFlight', queue')),
           Queued(queue', Current),
           retryCount' \in 0..MaxResend, resendTimer' \in BOOLEAN,
           socket' \in Sockets, grace' \in BOOLEAN, connects' \in 0..MaxConnects,
           down' \in Seq(Messages), up' \in Seq(Nat),
           \A k \in 1..Len(down') : /\ down'[k] \in Current
                                    /\ Received(down'[k]) \/ down'[k] = inFlight',
           \A k \in 1..Len(up') : \E m \in Current : up'[k] = idOf[m] /\ Received(m)
    PROVE  IInv'
<1>1. Current' = Current /\ \A m : Received(m)' <=> Received(m)
  BY DEF Current, Forgotten, Received
<1>2. TypeOK'
  BY DEF IInv, TypeOK, Queued
<1>3. IdInv'
  BY <1>1 DEF IInv, IdInv, Forgotten
<1>4. QueueInv'
  BY <1>1 DEF QueueInv, Queued, Before
<1>5. WireInv'
  <2>1. \A k \in 1..Len(down') : down'[k] \in Current' /\ (Received(down[k])' \/ down'[k] = inFlight')
    BY <1>1 DEF Received
  <2>2. \A k \in 1..Len(up') : \E m \in Current' : up'[k] = idOf'[m] /\ Received(m)'
    BY <1>1
  <2>3. \A m \in Messages : Received(m)' => m <= sent'
    BY <1>1 DEF IInv, WireInv
  <2> QED BY <2>1, <2>2, <2>3 DEF WireInv
<1> QED BY <1>2, <1>3, <1>4, <1>5 DEF IInv

LEMMA RetryRange == ASSUME IInv PROVE 0 \in 0..MaxResend /\ retryCount \in 0..MaxResend /\ MaxResend \in Nat
BY DeliveryAssumption DEF IInv, TypeOK

\* A new message is current, and the last of the queue.
LEMMA NewMessage ==
    ASSUME IInv, sent < MaxSent, sent' = sent + 1, nextSeq' = nextSeq + 1
    PROVE  /\ sent' \in Messages /\ ~Received(sent') /\ Forgotten' = Forgotten
           /\ Current' = Current \cup {sent'} /\ sent' \notin Current
           /\ Queued(Append(queue, sent'), Current')
           /\ inFlight # None => Before(inFlight, Append(queue, sent'))
           /\ Append(queue, sent') # <<>>
<1>1. /\ Queued(queue, Current) /\ Messages = 1..MaxSent /\ MaxSent \in Nat /\ sent \in Nat
      /\ nextSeq \in Nat /\ Current \subseteq Messages /\ nextSeq <= sent
      /\ inFlight # None => inFlight \in Current /\ inFlight \in Messages /\ Before(inFlight, queue)
  BY Facts, DeliveryAssumption DEF Messages, IInv, IdInv
<1>2. sent' \in Messages
  BY <1>1
<1>3. ~Received(sent')
  BY <1>1, <1>2 DEF IInv, WireInv
<1>4. Forgotten' = Forgotten /\ Forgotten \in Nat
  BY <1>1 DEF Forgotten
<1>5. Current' = Current \cup {sent'} /\ sent' \notin Current
  BY <1>1, <1>2, <1>4 DEF Current, Forgotten
<1>6. \A m \in Current : m < sent'
  BY <1>1 DEF Current
<1> DEFINE q == Append(queue, sent')
<1>7. /\ q \in Seq(Messages) /\ Len(q) = Len(queue) + 1 /\ Len(queue) \in Nat
      /\ \A i \in 1..Len(queue) : q[i] = queue[i]
      /\ q[Len(queue) + 1] = sent' /\ q # <<>>
      /\ \A i \in 1..Len(q) : i \in 1..Len(queue) \/ i = Len(queue) + 1
  BY <1>1, <1>2, Appended DEF Queued
<1> HIDE DEF q
<1>8. \A i \in 1..Len(q) : q[i] \in Current' /\ ~Received(q[i])
  BY <1>1, <1>3, <1>5, <1>7 DEF Queued
<1>9. ASSUME NEW i \in 1..Len(q), NEW j \in 1..Len(q), i < j PROVE q[i] < q[j]
  <2>1. i \in 1..Len(queue)
    BY <1>7, <1>9
  <2>2. CASE j \in 1..Len(queue)
    BY <1>1, <1>7, <1>9, <2>1, <2>2 DEF Queued
  <2>3. CASE j = Len(queue) + 1
    BY <1>1, <1>6, <1>7, <2>1, <2>3 DEF Queued
  <2> QED BY <1>7, <2>2, <2>3
<1>10. Queued(q, Current')
  BY <1>7, <1>8, <1>9 DEF Queued
<1>11. inFlight # None => Before(inFlight, q)
  BY <1>1, <1>6, <1>7 DEF Before
<1> QED BY <1>2, <1>3, <1>4, <1>5, <1>7, <1>10, <1>11 DEF q

LEMMA InvSendReliable == ASSUME IInv, SendReliable PROVE IInv'
<1>1. /\ sent < MaxSent /\ sent' = sent + 1 /\ nextSeq' = nextSeq + 1
      /\ idOf' = [idOf EXCEPT ![sent'] = nextSeq]
      /\ TrySendNext(socket, Append(queue, sent'), inFlight)
      /\ UNCHANGED <<up, socket, grace, received, connects>>
  BY DEF SendReliable, link
<1>2. /\ sent' \in Messages /\ ~Received(sent') /\ Forgotten' = Forgotten
      /\ Current' = Current \cup {sent'} /\ sent' \notin Current
      /\ Queued(Append(queue, sent'), Current')
      /\ inFlight # None => Before(inFlight, Append(queue, sent'))
  BY <1>1, NewMessage
<1>3. /\ None \notin Messages /\ Current \subseteq Messages /\ sent \in Nat /\ nextSeq \in Nat
      /\ nextSeq <= sent /\ down \in Seq(Messages) /\ idOf \in [Messages -> Nat]
      /\ inFlight # None => inFlight \in Current /\ inFlight \in Messages
      /\ MaxSent \in Nat /\ Messages = 1..MaxSent
  BY Facts, DeliveryAssumption DEF IInv, TypeOK, IdInv, Messages
<1>4. /\ inFlight' = None \/ (inFlight' \in Messages /\ inFlight' \in Current' /\ Before(inFlight', queue'))
      /\ Queued(queue', Current')
      /\ down' \in Seq(Messages)
      /\ \A k \in 1..Len(down') : \/ down'[k] = inFlight'
                                  \/ k \in 1..Len(down) /\ down'[k] = down[k]
      /\ retryCount' \in {0, retryCount} /\ resendTimer' \in {TRUE, resendTimer}
      /\ inFlight # None => inFlight' = inFlight
  BY <1>1, <1>2, <1>3, Sending
<1>5. \A m \in Current : idOf'[m] = idOf[m]
  BY <1>1, <1>2, <1>3
<1>6. \A m : Received(m)' <=> Received(m)
  BY <1>1 DEF Received
<1>7. TypeOK'
  <2>1. sent' \in 0..MaxSent /\ nextSeq' \in 0..MaxSent
    BY <1>1, <1>3
  <2>2. idOf' \in [Messages -> Nat]
    BY <1>1, <1>3
  <2>3. /\ queue' \in Seq(Messages) /\ inFlight' \in Messages \cup {None}
        /\ down' \in Seq(Messages)
    BY <1>4 DEF Queued
  <2>4. retryCount' \in 0..MaxResend /\ resendTimer' \in BOOLEAN
    BY <1>4, RetryRange DEF IInv, TypeOK
  <2>5. /\ socket' \in Sockets /\ grace' \in BOOLEAN /\ connects' \in 0..MaxConnects
        /\ up' \in Seq(Nat) /\ received' \in Seq(Messages)
    BY <1>1 DEF IInv, TypeOK
  <2> QED BY <2>1, <2>2, <2>3, <2>4, <2>5 DEF TypeOK
<1>8. IdInv'
  <2>1. nextSeq' <= sent'
    BY <1>1, <1>3
  <2>2. idOf'[sent'] = sent' - Forgotten' - 1
    BY <1>1, <1>2, <1>3 DEF Forgotten
  <2>3. \A m \in Current : idOf'[m] = m - Forgotten' - 1
    BY <1>2, <1>5 DEF IInv, IdInv
  <2> QED BY <1>2, <2>1, <2>2, <2>3 DEF IdInv
<1>9. QueueInv'
  BY <1>4, <1>6 DEF QueueInv, Queued, Before
<1>10. WireInv'
  <2>1. ASSUME NEW k \in 1..Len(down')
        PROVE  down'[k] \in Current' /\ (Received(down[k])' \/ down'[k] = inFlight')
    <3>1. CASE down'[k] = inFlight'
      BY <1>3, <1>4, <2>1, <3>1, ElementOfSeq
    <3>2. CASE k \in 1..Len(down) /\ down'[k] = down[k]
      <4>1. down[k] \in Current /\ (Received(down[k]) \/ down[k] = inFlight)
        BY <3>2 DEF IInv, WireInv
      <4>2. Received(down'[k]) <=> Received(down[k])'
        BY <1>1 DEF Received
      <4>3. down[k] = inFlight => inFlight' = inFlight
        BY <1>3, <1>4, <4>1
      <4> QED BY <1>2, <3>2, <4>1, <4>2, <4>3
    <3> QED BY <1>4, <2>1, <3>1, <3>2
  <2>2. \A k \in 1..Len(up') : \E m \in Current' : up'[k] = idOf'[m] /\ Received(m)'
    BY <1>1, <1>2, <1>5, <1>6 DEF IInv, WireInv
  <2>3. \A m \in Messages : Received(m)' => m <= sent'
    BY <1>1, <1>3, <1>6 DEF IInv, WireInv
  <2> QED BY <2>1, <2>2, <2>3 DEF WireInv
<1> QED BY <1>7, <1>8, <1>9, <1>10 DEF IInv

LEMMA InvHandleReliableAck == ASSUME IInv, HandleReliableAck PROVE IInv'
<1>1. /\ up # <<>> /\ up' = Tail(up)
      /\ UNCHANGED <<sent, nextSeq, idOf, socket, grace, received, connects>>
  BY DEF HandleReliableAck, link
<1>2. /\ up' \in Seq(Nat)
      /\ \A k \in 1..Len(up') : \E m \in Current : up'[k] = idOf[m] /\ Received(m)
  BY <1>1, TakeUp
<1>3. /\ socket' \in Sockets /\ grace' \in BOOLEAN /\ connects' \in 0..MaxConnects
      /\ down \in Seq(Messages) /\ resendTimer \in BOOLEAN
      /\ \A k \in 1..Len(down) : down[k] \in Current /\ (Received(down[k]) \/ down[k] = inFlight)
  BY <1>1 DEF IInv, TypeOK, WireInv
<1>4. CASE UNCHANGED <<queue, inFlight, retryCount, resendTimer, down>>
  BY <1>1, <1>2, <1>3, <1>4, Facts, RetryRange, Carried
<1>5. CASE inFlight # None /\ idOf[inFlight] = Head(up) /\ Acknowledged
  <2>1. Received(inFlight)
    BY <1>1, <1>5, AckIsOwn
  <2>2. \A k \in 1..Len(down) : down[k] \in Current /\ Received(down[k])
    BY <1>3, <2>1
  <2>3. CASE queue # <<>>
    <3>1. /\ inFlight' = None \/ (inFlight' \in Messages /\ inFlight' \in Current /\ Before(inFlight', queue'))
          /\ Queued(queue', Current)
          /\ down' \in Seq(Messages)
          /\ \A k \in 1..Len(down') : \/ down'[k] = inFlight'
                                      \/ k \in 1..Len(down) /\ down'[k] = down[k]
          /\ retryCount' \in {0, retryCount} /\ resendTimer' \in {TRUE, resendTimer}
      BY <1>3, <1>5, <2>3, Facts, Sending DEF Acknowledged
    <3>2. ASSUME NEW k \in 1..Len(down')
          PROVE  down'[k] \in Current /\ (Received(down'[k]) \/ down'[k] = inFlight')
      BY <2>2, <3>1, <3>2, Facts, ElementOfSeq
    <3> QED BY <1>1, <1>2, <1>3, <3>1, <3>2, RetryRange, Carried
  <2>4. CASE queue = <<>>
    BY <1>1, <1>2, <1>3, <1>5, <2>2, <2>4, Facts, RetryRange, Carried DEF Acknowledged
  <2> QED BY <2>3, <2>4
<1> QED BY <1>4, <1>5 DEF HandleReliableAck

LEMMA InvResendTick == ASSUME IInv, ResendTick PROVE IInv'
<1>1. /\ resendTimer /\ UNCHANGED up
      /\ UNCHANGED <<sent, nextSeq, idOf, queue, inFlight, socket, grace, received, connects>>
  BY DEF ResendTick, link
<1>2. /\ socket' \in Sockets /\ grace' \in BOOLEAN /\ connects' \in 0..MaxConnects
      /\ up' \in Seq(Nat) /\ down \in Seq(Messages)
      /\ \A k \in 1..Len(down) : down[k] \in Current /\ (Received(down[k]) \/ down[k] = inFlight)
      /\ \A k \in 1..Len(up') : \E m \in Current : up'[k] = idOf[m] /\ Received(m)
  BY <1>1 DEF IInv, TypeOK, WireInv
<1>3. CASE resendTimer' = FALSE /\ UNCHANGED <<retryCount, down>>
  BY <1>1, <1>2, <1>3, Facts, RetryRange, Carried
<1>4. CASE /\ inFlight # None /\ ~(retryCount >= MaxResend)
           /\ Transmit(socket, inFlight) /\ retryCount' = retryCount + 1 /\ UNCHANGED resendTimer
  <2>1. retryCount' \in 0..MaxResend
    BY <1>4, RetryRange
  <2>2. /\ down' \in Seq(Messages)
        /\ \A k \in 1..Len(down') : \/ down'[k] = inFlight
                                    \/ k \in 1..Len(down) /\ down'[k] = down[k]
    BY <1>2, <1>4, Facts, Transmitted
  <2>3. \A k \in 1..Len(down') : /\ down'[k] \in Current
                                 /\ Received(down'[k]) \/ down'[k] = inFlight'
    BY <1>1, <1>2, <1>4, <2>2, Facts
  <2>4. resendTimer' \in BOOLEAN
    BY <1>1, <1>4
  <2> QED BY <1>1, <1>2, <2>1, <2>2, <2>3, <2>4, Facts, Carried
<1> QED BY <1>3, <1>4 DEF ResendTick

LEMMA InvClientReceives == ASSUME IInv, ClientReceives PROVE IInv'
<1> DEFINE m == Head(down)
<1>1. /\ down # <<>> /\ down' = Tail(down) /\ up' = Append(up, idOf[m])
      /\ received' = IF Contains(received, m) THEN received ELSE Append(received, m)
      /\ UNCHANGED <<sent, nextSeq, idOf, queue, inFlight, retryCount, resendTimer,
                     socket, grace, connects>>
  BY DEF ClientReceives, state, link
<1>2. /\ m \in Current /\ m \in Messages /\ (Received(m) \/ m = inFlight)
      /\ Tail(down) \in Seq(Messages)
      /\ \A k \in 1..Len(Tail(down)) : /\ Tail(down)[k] \in Current
                                       /\ Received(Tail(down)[k]) \/ Tail(down)[k] = inFlight
  BY <1>1, TakeDown
<1>3. m \in Messages /\ received \in Seq(Messages) /\ up \in Seq(Nat) /\ idOf[m] \in Nat
  BY <1>1, TakeDown DEF IInv, TypeOK
<1> HIDE DEF m
<1>4. received' \in Seq(Messages) /\ \A x : Received(x)' <=> Received(x) \/ x = m
  BY <1>1, <1>3, ContainsAppend DEF Received
<1>5. /\ up' \in Seq(Nat) /\ \A k \in 1..Len(up') : k \in 1..Len(up) \/ k = Len(up) + 1
      /\ \A k \in 1..Len(up) : up'[k] = up[k]
      /\ up'[Len(up) + 1] = idOf[m]
  BY <1>1, <1>3, Appended
<1>6. Current' = Current /\ Forgotten' = Forgotten
  BY <1>1 DEF Current, Forgotten
<1>7. TypeOK'
  BY <1>1, <1>2, <1>4, <1>5 DEF IInv, TypeOK
<1>8. IdInv'
  BY <1>1, <1>6 DEF IInv, IdInv
<1>9. m \in Current
  BY <1>1, TakeDown DEF m
<1>10. \A i \in 1..Len(queue) : queue[i] # m
  BY <1>1, <1>2, Facts DEF Queued, Before, Messages
<1>11. QueueInv'
  BY <1>1, <1>4, <1>6, <1>10 DEF IInv, QueueInv
<1>12. WireInv'
  <2>1. \A k \in 1..Len(down') : down'[k] \in Current' /\ (Received(down[k])' \/ down'[k] = inFlight')
    <3>1. ASSUME NEW k \in 1..Len(down') PROVE Received(down[k])' <=> Received(down'[k]) \/ down'[k] = m
      BY <1>1, <1>3, ContainsAppend DEF Received
    <3> QED BY <1>1, <1>2, <1>6, <3>1
  <2>2. ASSUME NEW k \in 1..Len(up') PROVE \E x \in Current' : up'[k] = idOf'[x] /\ Received(x)'
    <3>1. CASE k \in 1..Len(up)
      <4>1. PICK x \in Current : up[k] = idOf[x] /\ Received(x)
        BY <3>1 DEF IInv, WireInv
      <4> QED BY <1>1, <1>4, <1>5, <1>6, <3>1, <4>1
    <3>2. CASE k = Len(up) + 1
      BY <1>1, <1>4, <1>5, <1>6, <1>9, <3>2
    <3> QED BY <1>5, <2>2, <3>1, <3>2
  <2>3. \A x \in Messages : Received(x)' => x <= sent'
    BY <1>1, <1>4, <1>9, Facts DEF IInv, WireInv, Current
  <2> QED BY <2>1, <2>2, <2>3 DEF WireInv
<1> QED BY <1>7, <1>8, <1>11, <1>12 DEF IInv

\* The wire is cut and the reliable state stays.
LEMMA InvCut ==
    ASSUME IInv, UNCHANGED <<sent, state, received, connects>>, CutWire,
           socket' \in Sockets, grace' \in BOOLEAN
    PROVE  IInv'
<1>1. /\ UNCHANGED <<sent, nextSeq, idOf, queue, inFlight, retryCount, resendTimer, received>>
      /\ connects' \in 0..MaxConnects /\ resendTimer' \in BOOLEAN /\ down' = <<>> /\ up' = <<>>
  BY DEF IInv, TypeOK, state, CutWire
<1>2. /\ down' \in Seq(Messages) /\ up' \in Seq(Nat)
      /\ \A k \in 1..Len(down') : FALSE
      /\ \A k \in 1..Len(up') : FALSE
  BY <1>1
<1> QED BY <1>1, <1>2, Facts, RetryRange, Carried

LEMMA InvStaleDisconnect == ASSUME IInv, StaleDisconnect PROVE IInv'
<1>1. /\ UNCHANGED <<sent, nextSeq, idOf, queue, inFlight, retryCount, resendTimer, down, up,
                     received, connects>>
      /\ socket' = "stray" /\ grace' = TRUE
  BY DEF StaleDisconnect, state, wire
<1>2. Current' = Current /\ Forgotten' = Forgotten
  BY <1>1 DEF Current, Forgotten
<1> QED BY <1>1, <1>2 DEF IInv, TypeOK, Sockets, IdInv, QueueInv, WireInv, Received

LEMMA InvAddClientConnection == ASSUME IInv, AddClientConnection PROVE IInv'
<1> DEFINE m == IF inFlight = None /\ queue # <<>> THEN Head(queue) ELSE inFlight
<1>1. /\ connects < MaxConnects /\ connects' = connects + 1
      /\ socket' \in {"open", "closed"} /\ grace' = FALSE /\ up' = <<>>
      /\ down' = IF socket' = "open" /\ m # None THEN <<m>> ELSE <<>>
      /\ inFlight' = m
      /\ queue' = IF inFlight = None /\ queue # <<>> THEN Tail(queue) ELSE queue
      /\ resendTimer' = (resendTimer \/ m # None)
      /\ retryCount' = IF inFlight = None THEN 0 ELSE retryCount
      /\ UNCHANGED <<sent, nextSeq, idOf, received>>
  BY DEF AddClientConnection
<1>2. /\ m = None \/ (m \in Messages /\ m \in Current /\ Before(m, queue'))
      /\ Queued(queue', Current)
  <2>1. CASE inFlight = None /\ queue # <<>>
    BY <1>1, <2>1, Facts, TakeHead
  <2>2. CASE ~(inFlight = None /\ queue # <<>>)
    BY <1>1, <2>2, Facts
  <2> QED BY <2>1, <2>2
<1> HIDE DEF m
<1>3. /\ down' \in Seq(Messages)
      /\ \A k \in 1..Len(down') : down'[k] \in Current /\ down'[k] = inFlight'
  <2>1. CASE socket' = "open" /\ m # None
    <3>1. down' = <<m>>
      BY <1>1, <2>1
    <3>2. down' \in Seq(Messages) /\ \A k \in 1..Len(down') : down'[k] = m
      BY <1>2, <2>1, <3>1
    <3> QED BY <1>1, <1>2, <2>1, <3>2
  <2>2. CASE ~(socket' = "open" /\ m # None)
    BY <1>1, <2>2
  <2> QED BY <2>1, <2>2
<1>4. up' \in Seq(Nat) /\ \A k \in 1..Len(up') : FALSE
  BY <1>1
<1>5. connects' \in 0..MaxConnects
  BY <1>1, DeliveryAssumption DEF IInv, TypeOK
<1>6. socket' \in Sockets /\ grace' \in BOOLEAN /\ resendTimer' \in BOOLEAN
  BY <1>1 DEF Sockets, IInv, TypeOK
<1>7. retryCount' \in 0..MaxResend
  BY <1>1, RetryRange
<1> QED BY <1>1, <1>2, <1>3, <1>4, <1>5, <1>6, <1>7, Carried

LEMMA InvClearReliableState == ASSUME IInv, ClearReliableState PROVE IInv'
<1>1. /\ grace' = FALSE /\ down' = <<>> /\ up' = <<>>
      /\ nextSeq' = 0 /\ queue' = <<>> /\ inFlight' = None
      /\ retryCount' = 0 /\ resendTimer' = FALSE
      /\ UNCHANGED <<sent, idOf, socket, received, connects>>
  BY DEF ClearReliableState, wire
<1>2. Current' = {}
  BY <1>1, Facts DEF Current, Forgotten
<1>3. TypeOK'
  <2>1. /\ nextSeq' \in 0..MaxSent /\ queue' \in Seq(Messages) /\ down' \in Seq(Messages)
        /\ up' \in Seq(Nat) /\ inFlight' \in Messages \cup {None}
    BY <1>1, DeliveryAssumption
  <2>2. grace' \in BOOLEAN /\ retryCount' \in 0..MaxResend /\ resendTimer' \in BOOLEAN
    BY <1>1, RetryRange
  <2> QED BY <1>1, <2>1, <2>2 DEF IInv, TypeOK
<1>4. IdInv' /\ QueueInv'
  BY <1>1, <1>2, Facts DEF IdInv, QueueInv
<1>5. WireInv'
  BY <1>1 DEF IInv, WireInv, Received
<1> QED BY <1>3, <1>4, <1>5 DEF IInv

LEMMA InvStutter == ASSUME IInv, UNCHANGED vars PROVE IInv'
<1>1. /\ UNCHANGED <<sent, nextSeq, idOf, queue, inFlight, retryCount, resendTimer, socket,
                     grace, down, up, received, connects>>
  BY DEF vars
<1>2. Current' = Current /\ Forgotten' = Forgotten
  BY <1>1 DEF Current, Forgotten
<1> QED BY <1>1, <1>2 DEF IInv, TypeOK, IdInv, QueueInv, WireInv, Received

LEMMA InvNext == ASSUME IInv, [Next]_vars PROVE IInv'
<1>1. CASE WireDies
  BY <1>1, InvCut DEF WireDies, Sockets, IInv, TypeOK
<1>2. CASE HandleClientsDisconnect
  BY <1>2, InvCut DEF HandleClientsDisconnect, Sockets
<1> QED BY <1>1, <1>2, InvSendReliable, InvHandleReliableAck, InvResendTick, InvClientReceives,
           InvStaleDisconnect, InvAddClientConnection, InvClearReliableState, InvStutter DEF Next

LEMMA Invariance == Spec => []IInv
<1>1. Init => IInv
  BY InvInit
<1>2. IInv /\ [Next]_vars => IInv'
  BY InvNext
<1> QED BY <1>1, <1>2, PTL DEF Spec

\* The messages, timers and wires of a user keep their types.
THEOREM TypeCorrect == Spec => []TypeOK
<1>1. IInv => TypeOK
  BY DEF IInv
<1> QED BY <1>1, Invariance, PTL

-----------------------------------------------------------------------------
(* The steps are steps of the channel, or leave it as it is.                *)

\* What was not received of the message in flight, as a sequence.
Pending == IF inFlight = None \/ Received(inFlight) THEN <<>> ELSE <<inFlight>>

LEMMA UndeliveredIs == Undelivered = Pending \o queue
BY DEF Undelivered, Pending, Received

Still == UNCHANGED <<sent, Undelivered, received>>

LEMMA StepSendReliable == ASSUME IInv, SendReliable PROVE Channel!Send
<1>1. /\ sent < MaxSent /\ sent' = sent + 1 /\ nextSeq' = nextSeq + 1
      /\ TrySendNext(socket, Append(queue, sent'), inFlight)
      /\ UNCHANGED received
  BY DEF SendReliable
<1>2. /\ sent' \in Messages /\ Current' = Current \cup {sent'}
      /\ Queued(Append(queue, sent'), Current')
      /\ inFlight # None => Before(inFlight, Append(queue, sent'))
  BY <1>1, NewMessage
<1>3. /\ None \notin Messages /\ queue \in Seq(Messages) /\ down \in Seq(Messages)
      /\ inFlight # None => inFlight \in Current /\ inFlight \in Messages
  BY Facts DEF IInv, TypeOK
<1>4. /\ inFlight # None => inFlight' = inFlight /\ queue' = Append(queue, sent')
      /\ inFlight = None => /\ Line(inFlight') \o queue' = Append(queue, sent')
                            /\ inFlight' # None => ~Received(inFlight')
  BY <1>1, <1>2, <1>3, Sending
<1>5. \A m : Received(m)' <=> Received(m)
  BY <1>1 DEF Received
<1>6. /\ <<>> \o queue = queue /\ <<>> \o Append(queue, sent') = Append(queue, sent')
  BY <1>2, <1>3, Prefixed DEF Queued
<1>7. Pending' \o queue' = Append(Pending \o queue, sent')
  <2>1. CASE inFlight = None
    <3>1. Pending = <<>> /\ Pending' = Line(inFlight')
      BY <1>1, <1>4, <2>1 DEF Pending, Line, Received
    <3> QED BY <1>4, <1>6, <2>1, <3>1
  <2>2. CASE inFlight # None /\ Received(inFlight)
    <3>1. Pending = <<>> /\ Pending' = <<>>
      BY <1>1, <1>4, <2>2 DEF Pending, Received
    <3> QED BY <1>4, <1>6, <2>2, <3>1
  <2>3. CASE inFlight # None /\ ~Received(inFlight)
    <3>1. Pending = <<inFlight>> /\ Pending' = <<inFlight>>
      BY <1>1, <1>4, <2>3 DEF Pending, Received
    <3>2. <<inFlight>> \o Append(queue, sent') = Append(<<inFlight>> \o queue, sent')
      BY <1>2, <1>3, <2>3, AppendToPrefixed
    <3> QED BY <1>4, <2>3, <3>1, <3>2
  <2> QED BY <2>1, <2>2, <2>3
<1>8. Undelivered' = Append(Undelivered, sent')
  BY <1>7, UndeliveredIs DEF Undelivered, Pending, Received
<1> QED BY <1>1, <1>8 DEF Channel!Send

LEMMA StepHandleReliableAck == ASSUME IInv, HandleReliableAck PROVE Still
<1>1. UNCHANGED <<sent, received>> /\ up # <<>>
  BY DEF HandleReliableAck
<1>2. CASE UNCHANGED <<queue, inFlight>>
  BY <1>1, <1>2 DEF Still, Undelivered
<1>3. CASE inFlight # None /\ idOf[inFlight] = Head(up) /\ Acknowledged
  <2>1. Received(inFlight) /\ Pending = <<>>
    BY <1>1, <1>3, AckIsOwn DEF Pending
  <2>2. Queued(queue, Current) /\ None \notin Messages /\ down \in Seq(Messages)
    BY Facts DEF IInv, TypeOK
  <2>3. /\ Line(inFlight') \o queue' = queue
        /\ inFlight' # None => ~Received(inFlight')
    <3>1. CASE queue # <<>>
      BY <1>3, <2>2, <3>1, Sending DEF Acknowledged
    <3>2. CASE queue = <<>>
      BY <1>3, <3>2 DEF Acknowledged, Line
    <3> QED BY <3>1, <3>2
  <2>4. Pending' = Line(inFlight')
    BY <1>1, <2>3 DEF Pending, Line, Received
  <2>5. <<>> \o queue = queue
    BY <2>2 DEF Queued
  <2>6. Undelivered' = Undelivered
    BY <2>1, <2>3, <2>4, <2>5 DEF Undelivered, Pending, Received
  <2> QED BY <1>1, <2>6 DEF Still
<1> QED BY <1>2, <1>3 DEF HandleReliableAck

LEMMA StepClientReceives == ASSUME IInv, ClientReceives PROVE Channel!Receive \/ Still
<1> DEFINE m == Head(down)
<1>1. /\ down # <<>> /\ UNCHANGED <<sent, queue, inFlight>>
      /\ received' = IF Contains(received, m) THEN received ELSE Append(received, m)
  BY DEF ClientReceives, state
<1>2. m \in Messages /\ (Received(m) \/ m = inFlight) /\ received \in Seq(Messages)
      /\ None \notin Messages /\ queue \in Seq(Messages)
  BY <1>1, TakeDown, Facts DEF IInv, TypeOK
<1> HIDE DEF m
<1>3. CASE Received(m)
  BY <1>1, <1>3 DEF Still, Undelivered, Received
<1>4. CASE ~Received(m)
  <2>1. m = inFlight /\ inFlight # None /\ received' = Append(received, inFlight)
    BY <1>1, <1>2, <1>4 DEF Received
  <2>2. Contains(received', inFlight')
    BY <1>1, <1>2, <2>1, ContainsAppend
  <2>3. Undelivered = <<inFlight>> \o queue /\ Undelivered' = <<>> \o queue
    BY <1>1, <1>4, <2>1, <2>2 DEF Undelivered, Received
  <2>4. /\ <<inFlight>> \o queue # <<>> /\ Head(<<inFlight>> \o queue) = inFlight
        /\ <<>> \o queue = queue /\ Tail(<<inFlight>> \o queue) = queue
    BY <1>2, <2>1, Prefixed, TailOfPrefixed
  <2> QED BY <1>1, <2>1, <2>3, <2>4 DEF Channel!Receive
<1> QED BY <1>3, <1>4

LEMMA StepAddClientConnection == ASSUME IInv, AddClientConnection PROVE Still
<1>1. UNCHANGED <<sent, received>>
  BY DEF AddClientConnection
<1>2. CASE inFlight = None /\ queue # <<>>
  <2>1. inFlight' = Head(queue) /\ queue' = Tail(queue)
    BY <1>2 DEF AddClientConnection
  <2>2. /\ Head(queue) \in Messages /\ ~Received(Head(queue)) /\ None \notin Messages
        /\ <<Head(queue)>> \o Tail(queue) = queue
    BY <1>2, Facts, TakeHead
  <2>3. Undelivered = <<>> \o queue /\ Undelivered' = <<Head(queue)>> \o Tail(queue)
    BY <1>1, <1>2, <2>1, <2>2 DEF Undelivered, Received
  <2>4. <<>> \o queue = queue
    BY Facts DEF Queued
  <2> QED BY <1>1, <2>2, <2>3, <2>4 DEF Still
<1>3. CASE ~(inFlight = None /\ queue # <<>>)
  BY <1>1, <1>3 DEF AddClientConnection, Still, Undelivered
<1> QED BY <1>2, <1>3

LEMMA StepClearReliableState == ASSUME IInv, ClearReliableState PROVE Channel!Forget \/ Still
<1>1. UNCHANGED <<sent, received>> /\ inFlight' = None /\ queue' = <<>>
  BY DEF ClearReliableState
<1>2. Undelivered' = <<>>
  BY <1>1 DEF Undelivered
<1> QED BY <1>1, <1>2 DEF Channel!Forget, Still

LEMMA StepOther ==
    ASSUME \/ ResendTick \/ WireDies \/ HandleClientsDisconnect \/ StaleDisconnect
           \/ UNCHANGED vars
    PROVE  Still
BY DEF ResendTick, WireDies, HandleClientsDisconnect, StaleDisconnect, vars, state, Still, Undelivered

LEMMA Step == ASSUME IInv, [Next]_vars PROVE [Channel!Next]_(Channel!channel)
<1>1. Still => UNCHANGED Channel!channel
  BY DEF Still, Channel!channel
<1> QED BY <1>1, StepSendReliable, StepHandleReliableAck, StepClientReceives,
           StepAddClientConnection, StepClearReliableState, StepOther DEF Next, Channel!Next

\* WebSocketManager's messages to a user are received in the order they were
\* sent, each once and none skipped, until the grace period forgets the rest:
\* whatever copies, acknowledgements and connections are lost.
THEOREM ImplementsChannel == Spec => InOrder
<1>1. Init => Channel!Init
  <2>1. Init => Undelivered = <<>> \o <<>> /\ <<>> \o <<>> = <<>>
    BY DEF Init, Undelivered
  <2> QED BY <2>1 DEF Init, Channel!Init
<1>2. IInv /\ [Next]_vars => [Channel!Next]_(Channel!channel)
  BY Step
<1> QED BY <1>1, <1>2, Invariance, PTL DEF Spec, InOrder, Channel!Spec

=============================================================================
