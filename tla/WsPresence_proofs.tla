-------------------------- MODULE WsPresence_proofs --------------------------
(* Type correctness of WsPresence, that whoever is absent is awaited or     *)
(* removed, and that a working connection is the registered one, for any    *)
(* number of connections and every kind of client.                          *)
EXTENDS WsPresence, TLAPS

Live == {"open", "dead", "closing"}

\* What holds of clients that open one connection at a time.
OrderlyInv ==
    /\ \A r, s \in Accepting : r = s
    /\ Accepting # {} => \A s \in Sockets : link[s] = "open" => s \in Accepting
    /\ \A s \in Being(adding) : entry \in {None, existing[s]}
    /\ \A r \in Sockets :
          link[r] \in Live => \/ r \in Accepting \cup {entry}
                              \/ \E s \in Being(adding) : r = existing[s]
    /\ entry # None => \A r \in Sockets : link[r] # "terminated"

IInv == TypeOK /\ AbsentAreAwaitedOrRemoved /\ (client # "hasty" => OrderlyInv)

-----------------------------------------------------------------------------
(* The two queues. *)

LEMMA SocketFacts == Sockets \subseteq Nat /\ None \notin Sockets
BY PresenceAssumption DEF Sockets

\* No socket is in the queues twice: not in one of them, nor in both.
Apart(w, a) ==
    /\ \A i, j \in 1..Len(w) : w[i] = w[j] => i = j
    /\ \A i, j \in 1..Len(a) : a[i] = a[j] => i = j
    /\ \A i \in 1..Len(w), j \in 1..Len(a) : w[i] # a[j]

LEMMA Injective ==
    ASSUME NEW w \in Seq(Sockets), NEW a \in Seq(Sockets)
    PROVE  IsInjective(w \o a) <=> Apart(w, a)
<1> DEFINE c == w \o a
<1>1. /\ Len(w) \in Nat /\ Len(a) \in Nat /\ DOMAIN c = 1..(Len(w) + Len(a))
      /\ \A i \in 1..Len(w) : c[i] = w[i]
      /\ \A j \in 1..Len(a) : c[Len(w) + j] = a[j]
  OBVIOUS
<1>2. /\ \A k \in DOMAIN c : k \in 1..Len(w) \/ \E j \in 1..Len(a) : k = Len(w) + j
      /\ \A i \in 1..Len(w) : i \in DOMAIN c
      /\ \A j \in 1..Len(a) : Len(w) + j \in DOMAIN c /\ Len(w) + j \notin 1..Len(w)
  BY <1>1, SMTT(60)
<1> HIDE DEF c
<1>3. ASSUME IsInjective(c) PROVE Apart(w, a)
  <2>1. \A k, m \in DOMAIN c : c[k] = c[m] => k = m
    BY <1>3 DEF IsInjective
  <2>2. \A i, j \in 1..Len(w) : w[i] = w[j] => i = j
    BY <1>1, <1>2, <2>1
  <2>3. ASSUME NEW i \in 1..Len(a), NEW j \in 1..Len(a), a[i] = a[j] PROVE i = j
    <3>1. Len(w) + i \in DOMAIN c /\ Len(w) + j \in DOMAIN c
      BY <1>2
    <3>2. c[Len(w) + i] = c[Len(w) + j]
      BY <1>1, <2>3
    <3>3. Len(w) + i = Len(w) + j
      BY <2>1, <3>1, <3>2
    <3> QED BY <1>1, <3>3
  <2>4. ASSUME NEW i \in 1..Len(w), NEW j \in 1..Len(a) PROVE w[i] # a[j]
    <3>1. i \in DOMAIN c /\ Len(w) + j \in DOMAIN c /\ Len(w) + j # i
      BY <1>2
    <3>2. c[i] # c[Len(w) + j]
      BY <2>1, <3>1
    <3> QED BY <1>1, <3>2
  <2> QED BY <2>2, <2>3, <2>4 DEF Apart
<1>4. ASSUME Apart(w, a) PROVE IsInjective(c)
  <2> SUFFICES ASSUME NEW k \in DOMAIN c, NEW m \in DOMAIN c, c[k] = c[m] PROVE k = m
    BY DEF IsInjective
  <2> QED BY <1>1, <1>2, <1>4 DEF Apart
<1> QED BY <1>3, <1>4 DEF c

LEMMA BeingOf ==
    ASSUME NEW q \in Seq(Sockets), NEW s \in Sockets
    PROVE  /\ Being(q) = {q[i] : i \in 1..Len(q)} /\ Being(q) \subseteq Sockets
           /\ Being(<<>>) = {} /\ (q = <<>> <=> Being(q) = {})
           /\ Append(q, s) \in Seq(Sockets) /\ Being(Append(q, s)) = Being(q) \cup {s}
<1>1. Being(q) = {q[i] : i \in 1..Len(q)} /\ Being(q) \subseteq Sockets
  BY DEF Being, ToSet
<1>2. Being(<<>>) = {} /\ (q = <<>> <=> Being(q) = {})
  <2>1. q # <<>> => 1 \in DOMAIN q
    OBVIOUS
  <2> QED BY <2>1 DEF Being, ToSet
<1>3. Being(Append(q, s)) = Being(q) \cup {s}
  <2>1. /\ DOMAIN Append(q, s) = DOMAIN q \cup {Len(q) + 1}
        /\ \A i \in DOMAIN q : Append(q, s)[i] = q[i]
        /\ Append(q, s)[Len(q) + 1] = s
    OBVIOUS
  <2> QED BY <2>1 DEF Being, ToSet
<1> QED BY <1>1, <1>2, <1>3

\* Taking the head of a queue takes its element from the set.
LEMMA BeingTail ==
    ASSUME NEW q \in Seq(Sockets), q # <<>>,
           \A i, j \in 1..Len(q) : q[i] = q[j] => i = j
    PROVE  /\ Head(q) \in Sockets /\ Head(q) \in Being(q) /\ Tail(q) \in Seq(Sockets)
           /\ Being(Tail(q)) = Being(q) \ {Head(q)}
<1>1. /\ Head(q) = q[1] /\ Len(q) \in Nat \ {0} /\ Tail(q) \in Seq(Sockets)
      /\ DOMAIN Tail(q) = 1..(Len(q) - 1) /\ DOMAIN q = 1..Len(q)
      /\ \A i \in 1..(Len(q) - 1) : Tail(q)[i] = q[i + 1]
      /\ Head(q) \in Sockets
  OBVIOUS
<1>2. Being(Tail(q)) \subseteq Being(q) \ {Head(q)}
  BY <1>1 DEF Being, ToSet
<1>3. ASSUME NEW i \in DOMAIN q, q[i] # q[1] PROVE q[i] \in Being(Tail(q))
  <2>1. i - 1 \in DOMAIN Tail(q) /\ Tail(q)[i - 1] = q[i]
    BY <1>1, <1>3
  <2> QED BY <2>1 DEF Being, ToSet
<1>4. Head(q) \in Being(q)
  BY <1>1 DEF Being, ToSet
<1>5. Being(q) \ {Head(q)} \subseteq Being(Tail(q))
  BY <1>1, <1>3 DEF Being, ToSet
<1> QED BY <1>1, <1>2, <1>4, <1>5

\* What the steps do to the two queues.
LEMMA Queues ==
    ASSUME NEW w \in Seq(Sockets), NEW a \in Seq(Sockets), IsInjective(w \o a)
    PROVE  /\ Being(w) \cap Being(a) = {}
           /\ \A s \in Sockets \ (Being(w) \cup Being(a)) :
                 IsInjective(Append(w, s) \o a) /\ IsInjective(w \o Append(a, s))
           /\ w # <<>> => /\ Head(w) \in Sockets /\ Head(w) \in Being(w)
                          /\ Tail(w) \in Seq(Sockets)
                          /\ Being(Tail(w)) = Being(w) \ {Head(w)}
                          /\ IsInjective(Tail(w) \o Append(a, Head(w)))
           /\ a # <<>> => /\ Head(a) \in Sockets /\ Head(a) \in Being(a)
                          /\ Tail(a) \in Seq(Sockets)
                          /\ Being(Tail(a)) = Being(a) \ {Head(a)}
                          /\ IsInjective(w \o Tail(a))
<1>1. Apart(w, a)
  BY Injective
<1>2. ASSUME NEW q \in Seq(Sockets)
      PROVE  Being(q) = {q[i] : i \in 1..Len(q)}
  BY <1>2 DEF Being, ToSet
<1>3. Being(w) \cap Being(a) = {}
  BY <1>1, <1>2 DEF Apart
<1>4. ASSUME NEW q \in Seq(Sockets), NEW s \in Sockets
      PROVE  /\ Append(q, s) \in Seq(Sockets) /\ Len(Append(q, s)) = Len(q) + 1
             /\ \A i \in 1..Len(q) : Append(q, s)[i] = q[i]
             /\ Append(q, s)[Len(q) + 1] = s
             /\ Len(q) \in Nat
  BY <1>4
<1>5. ASSUME NEW q \in Seq(Sockets), q # <<>>
      PROVE  /\ Tail(q) \in Seq(Sockets) /\ Len(Tail(q)) = Len(q) - 1
             /\ \A i \in 1..(Len(q) - 1) : Tail(q)[i] = q[i + 1]
             /\ Len(q) \in Nat \ {0} /\ Head(q) = q[1] /\ Head(q) \in Sockets
  BY <1>5
<1>6. ASSUME NEW s \in Sockets \ (Being(w) \cup Being(a))
      PROVE  IsInjective(Append(w, s) \o a) /\ IsInjective(w \o Append(a, s))
  <2>1. (\A i \in 1..Len(w) : w[i] # s) /\ (\A i \in 1..Len(a) : a[i] # s)
    BY <1>2, <1>6
  <2>2. Apart(Append(w, s), a)
    BY <1>1, <1>4, <2>1, SMTT(60) DEF Apart
  <2>3. Apart(w, Append(a, s))
    BY <1>1, <1>4, <2>1, SMTT(60) DEF Apart
  <2> QED BY <1>4, <2>2, <2>3, Injective
<1>7. ASSUME w # <<>>
      PROVE  IsInjective(Tail(w) \o Append(a, Head(w)))
  <2> DEFINE t == Tail(w)
             b == Append(a, Head(w))
  <2>1. /\ Len(t) = Len(w) - 1 /\ Len(w) \in Nat \ {0} /\ \A i \in 1..Len(t) : t[i] = w[i + 1]
        /\ Len(b) = Len(a) + 1 /\ Len(a) \in Nat /\ \A i \in 1..Len(a) : b[i] = a[i]
        /\ b[Len(a) + 1] = w[1]
    BY <1>4, <1>5, <1>7
  <2>2. t \in Seq(Sockets) /\ b \in Seq(Sockets)
    BY <1>4, <1>5, <1>7
  <2> HIDE DEF t, b
  <2>3. \A i, j \in 1..Len(t) : t[i] = t[j] => i = j
    BY <1>1, <2>1 DEF Apart
  <2>4. \A i, j \in 1..Len(b) : b[i] = b[j] => i = j
    BY <1>1, <2>1, SMTT(60) DEF Apart
  <2>5. \A i \in 1..Len(t), j \in 1..Len(b) : t[i] # b[j]
    BY <1>1, <2>1 DEF Apart
  <2>6. IsInjective(t \o b)
    BY <2>2, <2>3, <2>4, <2>5, Injective DEF Apart
  <2> QED BY <2>6 DEF t, b
<1>8. ASSUME a # <<>>
      PROVE  IsInjective(w \o Tail(a))
  <2>1. Apart(w, Tail(a))
    BY <1>1, <1>5, <1>8 DEF Apart
  <2> QED BY <1>5, <1>8, <2>1, Injective
<1>9. w # <<>> => /\ Head(w) \in Sockets /\ Head(w) \in Being(w) /\ Tail(w) \in Seq(Sockets)
                  /\ Being(Tail(w)) = Being(w) \ {Head(w)}
  BY <1>1, BeingTail DEF Apart
<1>10. a # <<>> => /\ Head(a) \in Sockets /\ Head(a) \in Being(a) /\ Tail(a) \in Seq(Sockets)
                   /\ Being(Tail(a)) = Being(a) \ {Head(a)}
  BY <1>1, BeingTail DEF Apart
<1> QED BY <1>3, <1>6, <1>7, <1>8, <1>9, <1>10

-----------------------------------------------------------------------------
(* The steps. *)

LEMMA InvInit == Init => IInv
<1> SUFFICES ASSUME Init PROVE IInv
  OBVIOUS
<1> USE DEF Init
<1>1. Accepting = {} /\ Being(adding) = {}
  BY DEF Accepting, Being, ToSet
<1>2. IsInjective(waiting \o adding)
  BY DEF IsInjective
<1>3. TypeOK
  <2>1. /\ record \in BOOLEAN /\ removed \in BOOLEAN /\ armed \in BOOLEAN
        /\ client \in Clients /\ entry \in Sockets \cup {None}
        /\ earlier \subseteq Sockets /\ fresh \subseteq Sockets
    OBVIOUS
  <2>2. /\ link \in [Sockets -> {"unused", "open", "dead", "closing", "terminated", "closed"}]
        /\ existing \in [Sockets -> Sockets \cup {None}]
        /\ waiting \in Seq(Sockets) /\ adding \in Seq(Sockets)
    OBVIOUS
  <2>3. \A s \in Accepting \cup ({entry} \ {None}) : link[s] # "unused"
    BY <1>1
  <2> QED BY <1>2, <2>1, <2>2, <2>3 DEF TypeOK
<1>4. AbsentAreAwaitedOrRemoved /\ OrderlyInv
  BY <1>1 DEF AbsentAreAwaitedOrRemoved, OrderlyInv, Live
<1> QED BY <1>3, <1>4 DEF IInv

LEMMA InvConnect ==
    ASSUME IInv, NEW s \in Sockets, Connect(s)
    PROVE  IInv'
<1> USE DEF IInv, Connect, grace, heartbeat
<1>1. s \notin Accepting /\ None \notin Sockets
  BY SocketFacts DEF TypeOK
<1>2. CASE entry = None
  <2> USE <1>2 DEF AddClientConnection
  <2>1. /\ waiting' = waiting /\ adding' = Append(adding, s)
        /\ existing' = [existing EXCEPT ![s] = None]
        /\ link' = [link EXCEPT ![s] = "open"]
    <3>1. /\ waiting' = waiting /\ adding' = Append(adding, s)
          /\ existing' = [existing EXCEPT ![s] = None]
      OBVIOUS
    <3>2. link' = [r \in Sockets |-> IF r = s THEN "open" ELSE link[r]]
      BY <1>1
    <3>3. link \in [Sockets -> {"unused", "open", "dead", "closing", "terminated", "closed"}]
      BY DEF TypeOK
    <3>4. link' = [link EXCEPT ![s] = "open"]
      <4> HIDE <1>2 DEF IInv, Connect, AddClientConnection
      <4> QED BY <3>2, <3>3
    <3> QED BY <3>1, <3>4
  <2>2. /\ adding' \in Seq(Sockets) /\ Being(adding') = Being(adding) \cup {s}
        /\ IsInjective(waiting' \o adding') /\ Accepting' = Accepting \cup {s}
    BY <1>1, <2>1, BeingOf, Queues DEF TypeOK, Accepting
  <2>3. TypeOK'
    BY <2>1, <2>2 DEF TypeOK
  <2>4. client # "hasty" => OrderlyInv'
    <3> SUFFICES ASSUME client # "hasty" PROVE OrderlyInv'
      OBVIOUS
    <3>1. Accepting = {} /\ Being(adding) = {} /\ \A r \in Sockets : link[r] # "open"
      BY DEF Accepting
    <3>2. Accepting' = {s} /\ Being(adding') = {s}
      BY <2>2, <3>1
    <3>3. ASSUME NEW r \in Sockets, link'[r] \in Live PROVE r = s
      BY <1>1, <2>1, <3>1, <3>3 DEF OrderlyInv, TypeOK, Live
    <3>4. existing'[s] = None /\ entry' = None
      BY <2>1 DEF TypeOK
    <3>5. \A r \in Sockets : link'[r] = "open" => r = s
      BY <3>3 DEF Live
    <3> QED BY <3>2, <3>3, <3>4, <3>5 DEF OrderlyInv
  <2> QED BY <2>3, <2>4 DEF AbsentAreAwaitedOrRemoved
<1>3. CASE entry # None
  <2>1. /\ waiting' = Append(waiting, s) /\ adding' = adding /\ existing' = existing
        /\ link' = [link EXCEPT ![s] = "open"] /\ entry' = entry
    BY <1>3
  <2>2. /\ waiting' \in Seq(Sockets) /\ Being(waiting') = Being(waiting) \cup {s}
        /\ IsInjective(waiting' \o adding') /\ Accepting' = Accepting \cup {s}
    BY <1>1, <2>1, BeingOf, Queues DEF TypeOK, Accepting
  <2>3. TypeOK'
    BY <2>1, <2>2 DEF TypeOK
  <2>4. client # "hasty" => OrderlyInv'
    <3> SUFFICES ASSUME client # "hasty" PROVE OrderlyInv'
      OBVIOUS
    <3>1. Accepting = {} /\ Being(adding) = {} /\ \A r \in Sockets : link[r] # "open"
      BY DEF Accepting
    <3>2. Accepting' = {s} /\ Being(adding') = {}
      BY <2>1, <2>2, <3>1
    <3>3. \A r \in Sockets : r # s => link'[r] = link[r]
      BY <2>1 DEF TypeOK
    <3>4. \A r \in Sockets : link'[r] \in Live => r \in {s, entry}
      BY <3>1, <3>3 DEF OrderlyInv
    <3>5. /\ \A r \in Sockets : link'[r] = "open" => r = s
          /\ \A r \in Sockets : link'[r] # "terminated"
      BY <1>3, <2>1, <3>1, <3>3 DEF OrderlyInv, TypeOK
    <3> QED BY <2>1, <3>2, <3>4, <3>5 DEF OrderlyInv
  <2> QED BY <2>1, <2>3, <2>4 DEF AbsentAreAwaitedOrRemoved
<1> QED BY <1>2, <1>3

LEMMA InvFinishWait ==
    ASSUME IInv, FinishWait
    PROVE  IInv'
<1> USE DEF IInv, FinishWait, grace, heartbeat
<1> DEFINE s == Head(waiting)
<1>1. /\ s \in Sockets /\ s \in Being(waiting) /\ waiting' \in Seq(Sockets)
      /\ Being(waiting') = Being(waiting) \ {s} /\ Being(waiting) \cap Being(adding) = {}
      /\ IsInjective(waiting' \o Append(adding, s)) /\ None \notin Sockets
  BY Queues, SocketFacts DEF TypeOK
<1>2. AddClientConnection(s) /\ entry' = entry
  OBVIOUS
<1> HIDE DEF s
<1>3. /\ adding' = Append(adding, s) /\ existing' = [existing EXCEPT ![s] = entry]
      /\ link[s] # "unused"
  BY <1>1, <1>2 DEF AddClientConnection, TypeOK, Accepting
<1>4. link' = [r \in Sockets |-> IF r = entry /\ link[r] \in {"open", "dead"}
                                 THEN "closing" ELSE link[r]]
  BY <1>2, <1>3 DEF AddClientConnection
<1>5. /\ adding' \in Seq(Sockets) /\ Being(adding') = Being(adding) \cup {s}
      /\ Accepting' = Accepting
  BY <1>1, <1>3, BeingOf DEF TypeOK, Accepting
<1>6. TypeOK'
  <2>1. /\ link' \in [Sockets -> {"unused", "open", "dead", "closing", "terminated", "closed"}]
        /\ \A r \in Sockets : link[r] # "unused" => link'[r] # "unused"
    BY <1>4 DEF TypeOK
  <2>2. existing' \in [Sockets -> Sockets \cup {None}]
    BY <1>1, <1>3 DEF TypeOK
  <2>3. Accepting \cup ({entry} \ {None}) \subseteq Sockets
    BY BeingOf DEF TypeOK, Accepting
  <2>4. \A r \in Accepting' \cup ({entry'} \ {None}) : link'[r] # "unused"
    BY <1>2, <1>5, <2>1, <2>3 DEF TypeOK
  <2> QED BY <1>1, <1>2, <1>3, <1>5, <2>1, <2>2, <2>4 DEF TypeOK
<1>7. client # "hasty" => OrderlyInv'
  <2> SUFFICES ASSUME client # "hasty" PROVE OrderlyInv'
    OBVIOUS
  <2>1. Accepting = {s} /\ Being(adding) = {} /\ Being(adding') = {s}
    BY <1>1, <1>5 DEF OrderlyInv, Accepting
  <2>2. existing'[s] = entry
    BY <1>1, <1>3 DEF TypeOK
  <2>3. \A r \in Sockets : /\ link'[r] \in Live <=> link[r] \in Live
                           /\ link'[r] = "open" => link[r] = "open"
                           /\ link'[r] = "terminated" => link[r] = "terminated"
    BY <1>4 DEF Live
  <2>4. \A r \in Sockets : link'[r] \in Live => r \in {s, entry}
    BY <2>1, <2>3 DEF OrderlyInv
  <2> QED BY <1>2, <1>5, <2>1, <2>2, <2>3, <2>4 DEF OrderlyInv
<1> QED BY <1>2, <1>6, <1>7 DEF AbsentAreAwaitedOrRemoved

LEMMA InvFinishAdd ==
    ASSUME IInv, FinishAdd
    PROVE  IInv'
<1> USE DEF IInv, FinishAdd
<1> DEFINE s == Head(adding)
<1>1. /\ s \in Sockets /\ s \in Being(adding) /\ adding' \in Seq(Sockets)
      /\ Being(adding') = Being(adding) \ {s} /\ Being(waiting) \cap Being(adding) = {}
      /\ IsInjective(waiting \o adding') /\ None \notin Sockets
  BY Queues, SocketFacts DEF TypeOK
<1>2. /\ existing[s] # None => link[existing[s]] = "closed"
      /\ \A r \in Sockets : link[r] # "terminated"
      /\ entry' = s /\ fresh' = fresh \cup {s}
  OBVIOUS
<1> HIDE DEF s
<1>3. Accepting' \subseteq Accepting /\ link[s] # "unused"
  BY <1>1 DEF TypeOK, Accepting
<1>4. TypeOK'
  BY <1>1, <1>2, <1>3 DEF TypeOK
<1>5. client # "hasty" => OrderlyInv'
  <2> SUFFICES ASSUME client # "hasty" PROVE OrderlyInv'
    OBVIOUS
  <2>1. Accepting = {s} /\ Being(adding) = {s} /\ Accepting' = {} /\ Being(adding') = {}
    BY <1>1 DEF OrderlyInv, Accepting
  <2>2. ASSUME NEW r \in Sockets, link[r] \in Live PROVE r = s
    <3>1. r \in {s, entry, existing[s]} /\ entry \in {None, existing[s]}
      BY <2>1, <2>2 DEF OrderlyInv
    <3>2. r = s \/ r = existing[s]
      BY <1>1, <3>1
    <3>3. r # existing[s]
      BY <1>1, <1>2, <2>2 DEF Live
    <3> QED BY <3>2, <3>3
  <2> QED BY <1>2, <2>1, <2>2 DEF OrderlyInv
<1> QED BY <1>1, <1>2, <1>4, <1>5 DEF AbsentAreAwaitedOrRemoved

\* A late close event cannot take the entry of a connection that replaced it: with
\* that one registered, or about to be, the old one has closed.
LEMMA InvCloses ==
    ASSUME IInv, NEW s \in Sockets, Closes(s)
    PROVE  IInv'
<1> USE DEF IInv, Closes, accepting, grace, heartbeat
<1>1. /\ link' = [link EXCEPT ![s] = "closed"] /\ waiting' = waiting /\ adding' = adding
      /\ existing' = existing /\ client' = client /\ None \notin Sockets
      /\ entry' \in {entry, None}
      /\ s \notin Being(waiting) => entry' = None
      /\ link[s] \in {"open", "dead", "closing", "terminated"}
  BY SocketFacts DEF HandleClientsDisconnect
<1>2. /\ Accepting' = Accepting /\ Being(adding') = Being(adding)
      /\ \A r \in Sockets : link'[r] = IF r = s THEN "closed" ELSE link[r]
  BY <1>1 DEF Accepting, TypeOK
<1>3. /\ record' \in BOOLEAN /\ earlier' \subseteq Sockets /\ removed' = removed
      /\ s \notin Being(waiting) => record' = TRUE
      /\ s \in Being(waiting) => record' = record /\ entry' = entry
  BY BeingOf DEF HandleClientsDisconnect, TypeOK, Accepting
<1>4. TypeOK'
  BY <1>1, <1>2, <1>3 DEF TypeOK
<1>5. AbsentAreAwaitedOrRemoved'
  BY <1>1, <1>3 DEF AbsentAreAwaitedOrRemoved
<1>6. client # "hasty" => OrderlyInv'
  <2> SUFFICES ASSUME client # "hasty" PROVE OrderlyInv'
    OBVIOUS
  <2>1. ASSUME NEW r \in Sockets, link'[r] \in Live
        PROVE  r \in Accepting' \cup {entry'} \/ \E q \in Being(adding') : r = existing'[q]
    <3>1. r # s /\ link[r] \in Live
      BY <1>2, <2>1 DEF Live
    <3>2. CASE r = entry /\ s \notin Being(waiting)
      <4>1. link[s] \in Live
        BY <1>1, <3>2 DEF OrderlyInv, Live
      <4>2. s \in Accepting \/ \E q \in Being(adding) : s = existing[q]
        BY <3>1, <3>2, <4>1 DEF OrderlyInv
      <4>3. CASE s \in Accepting
        <5>1. s \in Being(adding)
          BY <3>2, <4>3 DEF Accepting
        <5>2. entry \in {None, existing[s]}
          BY <5>1 DEF OrderlyInv
        <5> QED BY <1>1, <1>2, <3>2, <5>1, <5>2
      <4>4. CASE \E q \in Being(adding) : s = existing[q]
        BY <1>1, <3>1, <3>2, <4>4 DEF OrderlyInv
      <4> QED BY <4>2, <4>3, <4>4
    <3>3. CASE r # entry \/ s \in Being(waiting)
      BY <1>1, <1>2, <1>3, <3>1, <3>3 DEF OrderlyInv
    <3> QED BY <3>2, <3>3
  <2> QED BY <1>1, <1>2, <2>1 DEF OrderlyInv
<1> QED BY <1>4, <1>5, <1>6, <1>1

LEMMA InvWireDies ==
    ASSUME IInv, NEW s \in Sockets, WireDies(s)
    PROVE  IInv'
<1> USE DEF IInv, WireDies, accepting, grace, heartbeat
<1>1. /\ Accepting' = Accepting /\ Being(adding') = Being(adding)
      /\ \A r \in Sockets : link'[r] = IF r = s THEN "dead" ELSE link[r]
  BY DEF Accepting, TypeOK
<1>2. TypeOK'
  BY <1>1 DEF TypeOK
<1>3. client # "hasty" => OrderlyInv'
  BY <1>1 DEF OrderlyInv, Live
<1> QED BY <1>2, <1>3 DEF AbsentAreAwaitedOrRemoved

LEMMA InvTimers ==
    ASSUME IInv,
           \/ GraceTimeout \/ (\E s \in Sockets : HandleHeartbeat(s)) \/ UNCHANGED vars
    PROVE  IInv'
<1> USE DEF IInv, accepting, grace, heartbeat, vars
<1>1. /\ UNCHANGED <<client, link, waiting, adding, existing, entry, earlier>>
      /\ Accepting' = Accepting /\ Being(adding') = Being(adding)
  BY DEF GraceTimeout, HandleHeartbeat, Accepting
<1>2. /\ record' \in BOOLEAN /\ removed' \in BOOLEAN /\ armed' \in BOOLEAN
      /\ fresh' \subseteq Sockets
  BY DEF GraceTimeout, HandleHeartbeat, TypeOK
<1>3. TypeOK'
  BY <1>1, <1>2 DEF TypeOK
<1>4. AbsentAreAwaitedOrRemoved'
  BY <1>1 DEF GraceTimeout, HandleHeartbeat, AbsentAreAwaitedOrRemoved, TypeOK
<1>5. client # "hasty" => OrderlyInv'
  BY <1>1 DEF OrderlyInv
<1> QED BY <1>1, <1>3, <1>4, <1>5

LEMMA InvHeartbeatTimeout ==
    ASSUME IInv, HandleHeartbeatTimeout
    PROVE  IInv'
<1> USE DEF IInv, HandleHeartbeatTimeout, accepting, grace, heartbeat
<1>1. CASE entry = None \/ entry \in fresh
  <2>1. /\ UNCHANGED <<client, link, waiting, adding, existing, entry, earlier, record,
                       removed, fresh>>
        /\ Accepting' = Accepting /\ Being(adding') = Being(adding)
    BY <1>1 DEF Accepting
  <2>2. TypeOK'
    BY <2>1 DEF TypeOK
  <2> QED BY <2>1, <2>2 DEF AbsentAreAwaitedOrRemoved, OrderlyInv
<1>2. CASE ~(entry = None \/ entry \in fresh)
  <2>1. /\ entry' = None /\ waiting' = waiting /\ adding' = adding /\ existing' = existing
        /\ client' = client /\ fresh' = fresh /\ removed' = removed /\ record' = TRUE
        /\ link' = [link EXCEPT ![entry] = IF @ = "closed" THEN @ ELSE "terminated"]
        /\ Accepting' = Accepting /\ Being(adding') = Being(adding)
    BY <1>2 DEF HandleClientsDisconnect, TypeOK, Accepting
  <2>2. earlier' \subseteq Sockets
    BY <1>2, BeingOf DEF HandleClientsDisconnect, TypeOK, Accepting
  <2>3. entry \in Sockets
    BY <1>2 DEF TypeOK
  <2>4. \A r \in Sockets : link'[r] = IF r # entry \/ link[r] = "closed" THEN link[r]
                                      ELSE "terminated"
    BY <2>1, <2>3 DEF TypeOK
  <2>5. TypeOK'
    <3>1. link' \in [Sockets -> {"unused", "open", "dead", "closing", "terminated", "closed"}]
      BY <2>1, <2>4 DEF TypeOK
    <3>2. \A r \in Accepting' \cup ({entry'} \ {None}) : link'[r] # "unused"
      BY <2>1, <2>4, BeingOf DEF TypeOK, Accepting
    <3> QED BY <2>1, <2>2, <3>1, <3>2 DEF TypeOK
  <2>6. client # "hasty" => OrderlyInv'
    BY <2>1, <2>4 DEF OrderlyInv, Live
  <2> QED BY <2>1, <2>5, <2>6 DEF AbsentAreAwaitedOrRemoved
<1> QED BY <1>1, <1>2

LEMMA InvNext == IInv /\ [Next]_vars => IInv'
<1> SUFFICES ASSUME IInv, [Next]_vars PROVE IInv'
  OBVIOUS
<1>1. ASSUME NEW s \in Sockets, Connect(s) \/ Closes(s) \/ WireDies(s) PROVE IInv'
  BY <1>1, InvConnect, InvCloses, InvWireDies
<1>2. CASE GraceTimeout \/ (\E s \in Sockets : HandleHeartbeat(s)) \/ UNCHANGED vars
  BY <1>2, InvTimers
<1>3. CASE FinishWait
  BY <1>3, InvFinishWait
<1>4. CASE FinishAdd
  BY <1>4, InvFinishAdd
<1>5. CASE HandleHeartbeatTimeout
  BY <1>5, InvHeartbeatTimeout
<1> QED BY <1>1, <1>2, <1>3, <1>4, <1>5 DEF Next

-----------------------------------------------------------------------------
(* The theorems. *)

\* The strengthening holds in every state of the connections.
THEOREM Invariance == Spec => []IInv
BY InvInit, InvNext, PTL DEF Spec

\* Every variable has its type, and no socket waits or is added twice.
THEOREM TypeCorrect == Spec => []TypeOK
BY Invariance, PTL DEF IInv

\* No order of replacements, late close events and timeouts forgets a user.
THEOREM AbsentAccounted == Spec => []AbsentAreAwaitedOrRemoved
BY Invariance, PTL DEF IInv

\* For a client that opens one connection at a time, the one that works is the one
\* registered: whatever it replaced has closed by then.
THEOREM LiveRegistered == Spec => []LiveClientRegistered
<1>1. IInv => LiveClientRegistered
  <2> SUFFICES ASSUME IInv, client # "hasty", NEW s \in Sockets \ Accepting, link[s] = "open"
               PROVE  entry = s
    BY DEF LiveClientRegistered
  <2>1. OrderlyInv
    BY DEF IInv
  <2>2. Accepting = {} /\ Being(adding) = {}
    BY <2>1 DEF OrderlyInv, Accepting
  <2> QED BY <2>1, <2>2 DEF OrderlyInv, Live
<1> QED BY <1>1, Invariance, PTL
=============================================================================
