-------------------------- MODULE VotingRound_proofs --------------------------
(* What late ballots can spoil, nothing else can: until one is counted, a   *)
(* round is resolved once, and with everybody's ballot, its winner is       *)
(* liked and announced once; and of a terminated session nothing is left.   *)
(* For any members, items and handlers at once, and any number of rounds.   *)
(* And what the matching engine decides and how it ranks, for any logs.     *)
EXTENDS VotingRound, MCMatchingEngine, FiniteSetTheorems, WellFoundedInduction, TLAPS

\* What the arguments need of the types; the votes themselves do not matter.
Types ==
    /\ cached \in BOOLEAN /\ pending \in BOOLEAN
    /\ connected \subseteq Members /\ hasDeck \subseteq Members
    /\ recording \subseteq Members /\ snapshot \in [Members -> Nat]
    /\ results \in Seq(Members) /\ size \in Nat
    /\ at \in [Handlers -> Awaits]
    /\ recipients \in [Handlers -> SUBSET Members]

\* While a round is being resolved no connected member has a ballot still to come.
TurnInv ==
    /\ \A h \in Handlers : Resolving(h) => (hasDeck \cup recording) \cap connected = {}
    /\ \A h1, h2 \in Handlers : Resolving(h1) /\ Resolving(h2) => h1 = h2

\* Each member is in the pending round once, and it counted all who are connected.
BallotInv ==
    pending =>
        /\ Cardinality(ToSet(results)) = Len(results)
        /\ (hasDeck \cup recording) \cap connected \cap ToSet(results) = {}
        /\ Cardinality(connected \cup ToSet(results)) <= size

\* Whose ballot is in hand has no deck, and its snapshot counted all who are connected.
HandInv ==
    /\ hasDeck \cap recording \cap connected = {}
    /\ \A u \in recording : Cardinality(connected) <= snapshot[u]

\* After a match no ballot is to come: its handler ends the session.
MatchInv ==
    \/ announced = <<>>
    \/ /\ Len(announced) = 1
       /\ recording \cap connected = {}
       /\ cached => \E h \in Handlers : at[h] = "storeMatch"

Orderly == TurnInv /\ BallotInv /\ HandInv /\ MatchInv
RoundInv == Types /\ ("left" \notin late => Orderly)

\* A session that ended without a match is cleared, or is about to be.
EndInv ==
    /\ at \in [Handlers -> Awaits] /\ cached \in BOOLEAN
    /\ \A h \in Handlers : at[h] = "storeMatch" => announced # <<>>
    /\ ~cached /\ announced = <<>> =>
          \/ \E h \in Handlers : at[h] = "writeBroken"
          \/ ~pending /\ rounds = 0 /\ votes = <<>>
          \/ "ended" \in late

-----------------------------------------------------------------------------
(* Ballots: sequences of members, their sets and how many they are.         *)

LEMMA MembersFinite == ASSUME NEW S, S \subseteq Members PROVE IsFiniteSet(S) /\ Cardinality(S) \in Nat
<1>1. IsFiniteSet(S)
  BY EngineAssumption, FS_Subset
<1> QED BY <1>1, FS_CardinalityType

LEMMA OneBallot ==
    ASSUME NEW u \in Members
    PROVE  /\ <<u>> \in Seq(Members) /\ ToSet(<<u>>) = {u}
           /\ Cardinality(ToSet(<<u>>)) = Len(<<u>>)
<1>1. <<u>> \in Seq(Members) /\ Len(<<u>>) = 1 /\ DOMAIN <<u>> = {1} /\ <<u>>[1] = u
  OBVIOUS
<1>2. ToSet(<<u>>) = {u}
  BY <1>1 DEF ToSet
<1> QED BY <1>1, <1>2, FS_Singleton

LEMMA AnotherBallot ==
    ASSUME NEW s \in Seq(Members), NEW u \in Members, u \notin ToSet(s),
           Cardinality(ToSet(s)) = Len(s)
    PROVE  /\ Append(s, u) \in Seq(Members) /\ ToSet(Append(s, u)) = ToSet(s) \cup {u}
           /\ Cardinality(ToSet(Append(s, u))) = Len(Append(s, u))
<1>1. /\ Append(s, u) \in Seq(Members) /\ Len(Append(s, u)) = Len(s) + 1 /\ Len(s) \in Nat
      /\ DOMAIN s = 1..Len(s) /\ DOMAIN Append(s, u) = 1..(Len(s) + 1)
      /\ \A i \in 1..Len(s) : Append(s, u)[i] = s[i]
      /\ Append(s, u)[Len(s) + 1] = u
  OBVIOUS
<1>2. 1..(Len(s) + 1) = 1..Len(s) \cup {Len(s) + 1}
  BY <1>1
<1>3. ToSet(Append(s, u)) = ToSet(s) \cup {u}
  <2> DEFINE b == Append(s, u)
  <2> HIDE DEF b
  <2>1. /\ DOMAIN b = 1..Len(s) \cup {Len(s) + 1} /\ DOMAIN s = 1..Len(s)
        /\ (\A i \in 1..Len(s) : b[i] = s[i]) /\ b[Len(s) + 1] = u
    BY <1>1, <1>2 DEF b
  <2>2. {b[i] : i \in DOMAIN b} = {s[i] : i \in DOMAIN s} \cup {u}
    BY <2>1
  <2> QED BY <2>2 DEF ToSet, b
<1>4. ToSet(s) \subseteq Members
  BY DEF ToSet
<1>5. IsFiniteSet(ToSet(s))
  BY <1>4, MembersFinite
<1>6. Cardinality(ToSet(s) \cup {u}) = Cardinality(ToSet(s)) + 1
  BY <1>5, FS_AddElement
<1> QED BY <1>1, <1>3, <1>6

LEMMA VotersAreMembers == ASSUME NEW s \in Seq(Members) PROVE ToSet(s) \subseteq Members
BY DEF ToSet

\* As many ballots as there are members who are in or may still come in: all are in.
LEMMA AllIn ==
    ASSUME NEW s \in Seq(Members), NEW C, C \subseteq Members, NEW n \in Nat,
           Cardinality(ToSet(s)) = Len(s), Cardinality(C \cup ToSet(s)) <= n, Len(s) >= n
    PROVE  C \subseteq ToSet(s)
<1>1. C \cup ToSet(s) \subseteq Members /\ ToSet(s) \subseteq C \cup ToSet(s)
  BY VotersAreMembers
<1>2. /\ IsFiniteSet(C \cup ToSet(s)) /\ Cardinality(C \cup ToSet(s)) \in Nat
      /\ Cardinality(ToSet(s)) \in Nat
  BY <1>1, MembersFinite
<1>3. Cardinality(ToSet(s)) >= Cardinality(C \cup ToSet(s))
  BY <1>2
<1>4. ToSet(s) = C \cup ToSet(s)
  <2>1. Cardinality(ToSet(s)) <= Cardinality(C \cup ToSet(s))
    BY <1>1, <1>2, FS_Subset
  <2>2. Cardinality(ToSet(s)) = Cardinality(C \cup ToSet(s))
    BY <1>2, <1>3, <2>1
  <2> QED BY <1>1, <1>2, <2>2, FS_Subset
<1> QED BY <1>4

LEMMA Sequences ==
    ASSUME NEW S
    PROVE  /\ <<>> \in Seq(S)
           /\ \A n \in Nat : \A f \in [1..n -> S] : f \in Seq(S)
           /\ \A s, t \in Seq(S) : s \o t \in Seq(S)
           /\ \A s \in Seq(S) : \A i \in S : Append(s, i) \in Seq(S)
           /\ \A s \in Seq(S) : \A k \in DOMAIN s : s[k] \in S
OBVIOUS

-----------------------------------------------------------------------------
(* The steps.                                                               *)

\* A handler goes on to an await at which it resolves no round, and nothing else
\* begins: no deck is dealt, no ballot comes in, nobody connects.
Quiet(h, await) ==
    /\ await \in Awaits \ {"requestNextData", "storeMatch"}
    /\ \E users \in SUBSET Members : Awaiting(h, await, users)
    /\ cached' \in BOOLEAN /\ (cached' => cached /\ at[h] # "storeMatch")
    /\ connected' \subseteq connected /\ recording' \subseteq recording
    /\ snapshot' \in [Members -> Nat] /\ \A u \in recording' : snapshot'[u] = snapshot[u]
    /\ \/ UNCHANGED <<pending, size, results>>
       \/ pending' = FALSE /\ size' \in Nat /\ results' \in Seq(Members)
    /\ UNCHANGED <<hasDeck, announced, late>>

LEMMA InvQuiet ==
    ASSUME RoundInv, NEW h \in Handlers, NEW await, Quiet(h, await) PROVE RoundInv'
<1>1. Types
  BY DEF RoundInv
<1>2. /\ at' = [at EXCEPT ![h] = await] /\ await \in Awaits /\ ~(await \in {"requestNextData", "storeMatch"})
      /\ recipients' \in [Handlers -> SUBSET Members]
  BY <1>1 DEF Quiet, Awaiting, Types
<1>3. /\ at' \in [Handlers -> Awaits]
      /\ \A g \in Handlers : Resolving(g)' => Resolving(g) /\ g # h
      /\ \A g \in Handlers : g # h => at'[g] = at[g]
  BY <1>1, <1>2 DEF Types, Resolving
<1>4. Types'
  <2>1. /\ cached' \in BOOLEAN /\ connected' \subseteq Members /\ hasDeck' \subseteq Members
        /\ recording' \subseteq Members /\ snapshot' \in [Members -> Nat]
    BY <1>1 DEF Quiet, Types
  <2>2. pending' \in BOOLEAN /\ results' \in Seq(Members) /\ size' \in Nat
    BY <1>1 DEF Quiet, Types
  <2> QED BY <1>2, <1>3, <2>1, <2>2 DEF Types
<1>5. ASSUME Orderly PROVE Orderly'
  <2>1. /\ connected' \subseteq connected /\ recording' \subseteq recording
        /\ UNCHANGED <<hasDeck, announced>>
    BY DEF Quiet
  <2>2. TurnInv'
    BY <1>3, <1>5, <2>1 DEF Orderly, TurnInv
  <2>3. connected \subseteq Members /\ results \in Seq(Members) /\ size \in Nat
    BY <1>1 DEF Types
  <2>4. BallotInv'
    <3>1. CASE ~pending'
      BY <3>1 DEF BallotInv
    <3>2. CASE pending'
      <4>1. UNCHANGED <<pending, size, results>>
        BY <3>2 DEF Quiet
      <4>2. /\ Cardinality(ToSet(results)) = Len(results)
            /\ (hasDeck \cup recording) \cap connected \cap ToSet(results) = {}
            /\ Cardinality(connected \cup ToSet(results)) <= size
        BY <1>5, <3>2, <4>1 DEF Orderly, BallotInv
      <4>3. /\ connected' \cup ToSet(results) \subseteq connected \cup ToSet(results)
            /\ connected \cup ToSet(results) \subseteq Members
        BY <2>1, <2>3, VotersAreMembers
      <4>4. /\ Cardinality(connected' \cup ToSet(results)) <= Cardinality(connected \cup ToSet(results))
            /\ Cardinality(connected' \cup ToSet(results)) \in Nat
            /\ Cardinality(connected \cup ToSet(results)) \in Nat
        BY <4>3, MembersFinite, FS_Subset
      <4>5. Cardinality(connected' \cup ToSet(results')) <= size'
        BY <2>3, <4>1, <4>2, <4>4
      <4>6. (hasDeck' \cup recording') \cap connected' \cap ToSet(results') = {}
        BY <2>1, <4>1, <4>2
      <4> QED BY <4>1, <4>2, <4>5, <4>6 DEF BallotInv
    <3> QED BY <3>1, <3>2
  <2>5. HandInv'
    <3>1. hasDeck' \cap recording' \cap connected' = {}
      BY <1>5, <2>1 DEF Orderly, HandInv
    <3>2. /\ Cardinality(connected') <= Cardinality(connected)
          /\ Cardinality(connected') \in Nat /\ Cardinality(connected) \in Nat
      BY <2>1, <2>3, MembersFinite, FS_Subset
    <3>3. ASSUME NEW u \in recording' PROVE Cardinality(connected') <= snapshot'[u]
      <4>1. u \in recording /\ snapshot'[u] = snapshot[u] /\ u \in Members
        BY <1>1, <2>1 DEF Quiet, Types
      <4>2. Cardinality(connected) <= snapshot[u] /\ snapshot[u] \in Nat
        BY <1>1, <1>5, <4>1 DEF Orderly, HandInv, Types
      <4> QED BY <3>2, <4>1, <4>2
    <3> QED BY <3>1, <3>3 DEF HandInv
  <2>6. MatchInv'
    <3>1. CASE announced = <<>>
      BY <2>1, <3>1 DEF MatchInv
    <3>2. CASE announced # <<>>
      <4>1. /\ Len(announced) = 1 /\ recording \cap connected = {}
            /\ cached => \E g \in Handlers : at[g] = "storeMatch"
        BY <1>5, <3>2 DEF Orderly, MatchInv
      <4>2. cached' => \E g \in Handlers : at'[g] = "storeMatch"
        BY <1>3, <4>1 DEF Quiet
      <4> QED BY <2>1, <4>1, <4>2 DEF MatchInv
    <3> QED BY <3>1, <3>2
  <2> QED BY <2>2, <2>4, <2>5, <2>6 DEF Orderly
<1> QED BY <1>4, <1>5 DEF RoundInv, Quiet

\* Whether the session was in the cache or not, it is not when this is over.
LEMMA Terminated ==
    ASSUME Types, NEW h \in Handlers, Terminate(h)
    PROVE  /\ \E await \in {"idle", "writeBroken"} : Awaiting(h, await, {})
           /\ cached' = FALSE
<1>1. CASE cached
  BY <1>1 DEF Terminate
<1>2. CASE ~cached
  BY <1>2 DEF Terminate, Ends, Types
<1> QED BY <1>1, <1>2

LEMMA HandlersQuiet ==
    ASSUME RoundInv, NEW h \in Handlers,
           \/ Handler(h) /\ ~NextData(h)
           \/ TerminateSession(h)
           \/ \E u \in Members : Disconnect(h, u) \/ VoteFails(h, u)
    PROVE  \E await : Quiet(h, await)
<1>1. Types /\ {} \in SUBSET Members
  BY DEF RoundInv
<1>2. /\ "idle" \in Awaits \ {"requestNextData", "storeMatch"}
      /\ "writeBroken" \in Awaits \ {"requestNextData", "storeMatch"}
      /\ "writeDisconnected" \in Awaits \ {"requestNextData", "storeMatch"}
  BY DEF Awaits
<1>3. ASSUME Terminate(h), UNCHANGED <<connected, round, hasDeck, announced, late>>,
             recording' \subseteq recording, snapshot' \in [Members -> Nat],
             \A u \in recording' : snapshot'[u] = snapshot[u]
      PROVE  \E await : Quiet(h, await)
  BY <1>1, <1>2, <1>3, Terminated DEF Quiet, round
<1>4. ASSUME Terminate(h), UNCHANGED <<connected, round, inHand, hasDeck, announced, late>>
      PROVE  \E await : Quiet(h, await)
  BY <1>1, <1>3, <1>4 DEF inHand, Types
<1>5. CASE NextDataRefused(h)
  <2>1. at[h] = "requestNextData" /\ Awaiting(h, "idle", {})
        /\ UNCHANGED <<cached, connected, round, inHand, hasDeck, announced, late>>
    BY <1>5 DEF NextDataRefused, Suspended, Ends
  <2>2. Quiet(h, "idle")
    BY <1>1, <1>2, <2>1 DEF Quiet, round, inHand, Types
  <2> QED BY <2>2
<1>6. CASE ResolutionFails(h)
  BY <1>4, <1>6 DEF ResolutionFails
<1>7. CASE EndSessionWithMatch(h)
  <2>1. cached' = FALSE /\ Awaiting(h, "idle", {})
        /\ UNCHANGED <<connected, round, inHand, hasDeck, announced, late>>
    BY <1>7 DEF EndSessionWithMatch, Ends
  <2>2. Quiet(h, "idle")
    BY <1>1, <1>2, <2>1 DEF Quiet, round, inHand, Types
  <2> QED BY <2>2
<1>8. CASE ClearAllSessionData(h)
  <2>1. /\ at[h] = "writeBroken" /\ Awaiting(h, "idle", {})
        /\ pending' = FALSE /\ size' = 0 /\ results' = <<>>
        /\ UNCHANGED <<cached, connected, inHand, hasDeck, announced, late>>
    BY <1>8 DEF ClearAllSessionData, Suspended, Ends
  <2>2. size' \in Nat /\ results' \in Seq(Members)
    BY <2>1
  <2>3. Quiet(h, "idle")
    BY <1>1, <1>2, <2>1, <2>2 DEF Quiet, inHand, Types
  <2> QED BY <2>3
<1>9. CASE Disconnected(h)
  <2>1. CASE Terminate(h)
    BY <1>4, <1>9, <2>1 DEF Disconnected
  <2>2. CASE Ends(h) /\ UNCHANGED cached
    <3>1. /\ at[h] = "writeDisconnected" /\ Awaiting(h, "idle", {})
          /\ UNCHANGED <<cached, connected, round, inHand, hasDeck, announced, late>>
      BY <1>9, <2>2 DEF Disconnected, Suspended, Ends
    <3>2. Quiet(h, "idle")
      BY <1>1, <1>2, <3>1 DEF Quiet, round, inHand, Types
    <3> QED BY <3>2
  <2> QED BY <1>9, <2>1, <2>2 DEF Disconnected
<1>10. CASE TerminateSession(h)
  BY <1>4, <1>10 DEF TerminateSession
<1>11. ASSUME NEW u \in Members, Disconnect(h, u) PROVE \E await : Quiet(h, await)
  <2>1. /\ at[h] = "idle" /\ Awaiting(h, "writeDisconnected", {}) /\ connected' = connected \ {u}
        /\ UNCHANGED <<cached, round, inHand, hasDeck, announced, late>> /\ cached
    BY <1>11 DEF Disconnect, Suspended
  <2>2. Quiet(h, "writeDisconnected")
    BY <1>1, <1>2, <2>1 DEF Quiet, round, inHand, Types
  <2> QED BY <2>2
<1>12. ASSUME NEW u \in Members, VoteFails(h, u) PROVE \E await : Quiet(h, await)
  <2>1. /\ Terminate(h) /\ UNCHANGED <<connected, round, hasDeck, announced, late>>
        /\ recording' = recording \ {u} /\ snapshot' = [snapshot EXCEPT ![u] = 0]
    BY <1>12 DEF VoteFails, Recorded
  <2>2. /\ recording' \subseteq recording /\ snapshot' \in [Members -> Nat]
        /\ \A v \in recording' : snapshot'[v] = snapshot[v]
    BY <1>1, <2>1 DEF Types
  <2> QED BY <1>3, <2>1, <2>2
<1> QED BY <1>5, <1>6, <1>7, <1>8, <1>9, <1>10, <1>11, <1>12 DEF Handler

LEMMA InvFinishDeck == ASSUME RoundInv, NEW u \in Members, FinishDeck(u) PROVE RoundInv'
<1>1. /\ cached /\ u \in hasDeck /\ u \notin recording
      /\ hasDeck' = hasDeck \ {u} /\ recording' = recording \cup {u}
      /\ snapshot' = [snapshot EXCEPT ![u] = Cardinality(connected)]
      /\ UNCHANGED <<cached, connected, pending, size, results, at, recipients, announced, late>>
  BY DEF FinishDeck, round
<1>2. Types
  BY DEF RoundInv
<1>3. Cardinality(connected) \in Nat
  BY <1>2, MembersFinite DEF Types
<1>4. snapshot' \in [Members -> Nat]
  BY <1>1, <1>2, <1>3 DEF Types
<1>5. Types'
  BY <1>1, <1>2, <1>4 DEF Types
<1>6. ASSUME Orderly PROVE Orderly'
  <2>1. hasDeck' \cup recording' = hasDeck \cup recording
    BY <1>1
  <2>2. TurnInv'
    BY <1>1, <1>6, <2>1 DEF Orderly, TurnInv, Resolving
  <2>3. BallotInv'
    BY <1>1, <1>6, <2>1 DEF Orderly, BallotInv
  <2>4. HandInv'
    <3>1. hasDeck' \cap recording' \cap connected' = {}
      BY <1>1, <1>6 DEF Orderly, HandInv
    <3>2. ASSUME NEW v \in recording' PROVE Cardinality(connected) <= snapshot'[v]
      <4>1. CASE v = u
        BY <1>1, <1>2, <1>3, <4>1 DEF Types
      <4>2. CASE v # u
        <5>1. v \in recording /\ v \in Members /\ snapshot'[v] = snapshot[v]
          BY <1>1, <1>2, <4>2 DEF Types
        <5> QED BY <1>6, <5>1 DEF Orderly, HandInv
      <4> QED BY <4>1, <4>2
    <3> QED BY <1>1, <3>1, <3>2 DEF HandInv
  <2>5. MatchInv'
    <3>1. CASE announced = <<>>
      BY <1>1, <3>1 DEF MatchInv
    <3>2. CASE announced # <<>>
      <4>1. /\ Len(announced) = 1 /\ recording \cap connected = {}
            /\ \E h \in Handlers : at[h] = "storeMatch"
        BY <1>1, <1>6, <3>2 DEF Orderly, MatchInv
      <4>2. hasDeck \cap connected = {}
        BY <1>6, <4>1 DEF Orderly, TurnInv, Resolving
      <4> QED BY <1>1, <4>1, <4>2 DEF MatchInv
    <3> QED BY <3>1, <3>2
  <2> QED BY <2>2, <2>3, <2>4, <2>5 DEF Orderly
<1> QED BY <1>1, <1>5, <1>6 DEF RoundInv

LEMMA InvNextData == ASSUME RoundInv, NEW h \in Handlers, NextData(h) PROVE RoundInv'
<1>1. /\ pending' = FALSE /\ hasDeck' = hasDeck \cup recipients[h] /\ at[h] = "requestNextData"
      /\ at' = [at EXCEPT ![h] = "idle"] /\ recipients' = [recipients EXCEPT ![h] = {}]
      /\ UNCHANGED <<cached, connected, size, results, recording, snapshot, announced, late>>
  BY DEF NextData, Suspended, Ends, Awaiting, inHand
<1>2. Types
  BY DEF RoundInv
<1>3. Types'
  <2>1. hasDeck' \subseteq Members /\ pending' \in BOOLEAN
    BY <1>1, <1>2 DEF Types
  <2>2. at' \in [Handlers -> Awaits] /\ recipients' \in [Handlers -> SUBSET Members]
    BY <1>1, <1>2 DEF Types, Awaits
  <2> QED BY <1>1, <1>2, <2>1, <2>2 DEF Types
<1>4. ASSUME Orderly PROVE Orderly'
  <2>1. /\ \A g \in Handlers : ~Resolving(g)'
        /\ \A g \in Handlers : at[g] # "storeMatch"
    <3>1. Resolving(h)
      BY <1>1 DEF Resolving
    <3>2. \A g \in Handlers : Resolving(g) => g = h
      BY <1>4, <3>1 DEF Orderly, TurnInv
    <3> QED BY <1>1, <1>2, <3>2 DEF Resolving, Types
  <2>2. recording \cap connected = {}
    BY <1>1, <1>4 DEF Orderly, TurnInv, Resolving
  <2>3. TurnInv' /\ BallotInv'
    BY <1>1, <2>1 DEF TurnInv, BallotInv
  <2>4. HandInv'
    BY <1>1, <1>4, <2>2 DEF Orderly, HandInv
  <2>5. MatchInv'
    <3>1. announced = <<>> \/ (Len(announced) = 1 /\ ~cached)
      BY <1>4, <2>1 DEF Orderly, MatchInv
    <3> QED BY <1>1, <2>2, <3>1 DEF MatchInv
  <2> QED BY <2>3, <2>4, <2>5 DEF Orderly
<1> QED BY <1>1, <1>3, <1>4 DEF RoundInv

-----------------------------------------------------------------------------
(* A ballot that is counted.                                                *)

\* What a completed round leaves to its handler.
LEMMA Resolved ==
    ASSUME NEW h \in Handlers, Types, Resolve(h), results' \in Seq(Members)
    PROVE  \/ /\ \E i : announced' = Append(announced, i)
              /\ pending' = FALSE /\ Awaiting(h, "storeMatch", {})
           \/ /\ UNCHANGED announced
              /\ pending' = TRUE
              /\ \E users \in SUBSET Members : Awaiting(h, "requestNextData", users)
<1>1. connected \in SUBSET Members /\ ToSet(results') \in SUBSET Members
  BY VotersAreMembers DEF Types
<1> QED BY <1>1 DEF Resolve

\* The ballot, without what it leads to.
LEMMA Counted ==
    ASSUME Types, NEW h \in Handlers, NEW u \in Members, NEW b \in Ballots, EvaluateVote(h, u, b)
    PROVE  /\ at[h] = "idle" /\ u \in recording /\ recording' = recording \ {u}
           /\ UNCHANGED <<cached, connected, hasDeck>>
           /\ snapshot' \in [Members -> Nat]
           /\ \A v \in recording' : snapshot'[v] = snapshot[v]
           /\ results' \in Seq(Members) /\ size' \in Nat
           /\ pending => results' = Append(results, u) /\ size' = size
           /\ ~pending => results' = <<u>> /\ size' = snapshot[u]
<1>1. /\ at[h] = "idle" /\ u \in recording /\ recording' = recording \ {u}
      /\ snapshot' = [snapshot EXCEPT ![u] = 0]
      /\ UNCHANGED <<cached, connected, hasDeck>>
      /\ IF pending THEN JoinRound(u) ELSE OpenRound(u)
  BY DEF EvaluateVote, Suspended, Recorded
<1>2. snapshot' \in [Members -> Nat] /\ \A v \in recording' : snapshot'[v] = snapshot[v]
  BY <1>1 DEF Types
<1>3. pending => results' = Append(results, u) /\ size' = size
  BY <1>1 DEF JoinRound
<1>4. ~pending => results' = <<u>> /\ size' = snapshot[u]
  BY <1>1 DEF OpenRound
<1>5. results' \in Seq(Members) /\ size' \in Nat
  <2>1. /\ results \in Seq(Members) /\ size \in Nat /\ snapshot \in [Members -> Nat]
        /\ \A s \in Seq(Members) : Append(s, u) \in Seq(Members)
    BY Sequences DEF Types
  <2>2. CASE pending
    BY <1>3, <2>1, <2>2
  <2>3. CASE ~pending
    <3>1. results' \in Seq(Members)
      BY <1>4, <2>3, OneBallot
    <3>2. size' \in Nat
      BY <1>4, <2>1, <2>3
    <3> QED BY <3>1, <3>2
  <2> QED BY <2>2, <2>3
<1> QED BY <1>1, <1>2, <1>3, <1>4, <1>5

LEMMA NotLate ==
    ASSUME NEW h \in Handlers, NEW u \in Members, NEW b \in Ballots, EvaluateVote(h, u, b),
           "left" \notin late'
    PROVE  "left" \notin late /\ u \in connected
<1>1. late' = late \cup Lateness(u)
  BY DEF EvaluateVote
<1>2. u \notin connected => "left" \in Lateness(u)
  BY DEF Lateness
<1> QED BY <1>1, <1>2

\* A ballot that is not late: nobody is resolving, and the round has no other of its
\* voter and none of those who have a deck.
LEMMA Ballot ==
    ASSUME RoundInv, NEW h \in Handlers, NEW u \in Members, NEW b \in Ballots,
           EvaluateVote(h, u, b), "left" \notin late'
    PROVE  /\ Orderly /\ announced = <<>>
           /\ \A g \in Handlers : ~Resolving(g)
           /\ Cardinality(ToSet(results')) = Len(results')
           /\ (hasDeck' \cup recording') \cap connected' \cap ToSet(results') = {}
           /\ Cardinality(connected' \cup ToSet(results')) <= size'
<1>1. Types /\ Orderly /\ u \in connected
  BY NotLate DEF RoundInv
<1>2. /\ u \in recording /\ recording' = recording \ {u}
      /\ UNCHANGED <<cached, connected, hasDeck>>
      /\ pending => results' = Append(results, u) /\ size' = size
      /\ ~pending => results' = <<u>> /\ size' = snapshot[u]
  BY <1>1, Counted
<1>3. /\ announced = <<>> /\ u \notin hasDeck
      /\ \A g \in Handlers : ~Resolving(g)
  BY <1>1, <1>2 DEF Orderly, MatchInv, HandInv, TurnInv
<1>4. results \in Seq(Members) /\ size \in Nat /\ connected \subseteq Members
  BY <1>1 DEF Types
<1>5. CASE pending
  <2>1. /\ Cardinality(ToSet(results)) = Len(results) /\ u \notin ToSet(results)
        /\ (hasDeck \cup recording) \cap connected \cap ToSet(results) = {}
        /\ Cardinality(connected \cup ToSet(results)) <= size
    BY <1>1, <1>2, <1>5 DEF Orderly, BallotInv
  <2>2. /\ ToSet(results') = ToSet(results) \cup {u}
        /\ Cardinality(ToSet(results')) = Len(results')
    BY <1>2, <1>4, <1>5, <2>1, AnotherBallot
  <2>3. connected' \cup ToSet(results') = connected \cup ToSet(results)
    BY <1>1, <1>2, <2>2
  <2>4. (hasDeck' \cup recording') \cap connected' \cap ToSet(results') = {}
    BY <1>2, <1>3, <2>1, <2>2
  <2>5. Cardinality(connected' \cup ToSet(results')) <= size'
    BY <1>2, <1>5, <2>1, <2>3
  <2> QED BY <1>1, <1>3, <2>2, <2>4, <2>5
<1>6. CASE ~pending
  <2>1. ToSet(results') = {u} /\ Cardinality(ToSet(results')) = Len(results')
    BY <1>2, <1>6, OneBallot
  <2>2. connected' \cup ToSet(results') = connected
    BY <1>1, <1>2, <2>1
  <2>3. Cardinality(connected) <= snapshot[u]
    BY <1>1, <1>2 DEF Orderly, HandInv
  <2>4. (hasDeck' \cup recording') \cap connected' \cap ToSet(results') = {}
    BY <1>2, <1>3, <2>1
  <2>5. Cardinality(connected' \cup ToSet(results')) <= size'
    BY <1>2, <1>6, <2>2, <2>3
  <2> QED BY <1>1, <1>3, <2>1, <2>4, <2>5
<1> QED BY <1>5, <1>6

\* A round that is resolved has a ballot of every connected member.
LEMMA CompleteHasAll ==
    ASSUME RoundInv, NEW h \in Handlers, NEW u \in Members, NEW b \in Ballots,
           EvaluateVote(h, u, b), "left" \notin late', Complete
    PROVE  connected \subseteq ToSet(results')
<1>1. /\ Cardinality(ToSet(results')) = Len(results')
      /\ Cardinality(connected' \cup ToSet(results')) <= size'
  BY Ballot
<1>2. Types
  BY DEF RoundInv
<1>3. UNCHANGED connected /\ results' \in Seq(Members) /\ size' \in Nat
  BY <1>2, Counted
<1>4. connected' \subseteq Members
  BY <1>2, <1>3 DEF Types
<1>5. connected' \subseteq ToSet(results')
  BY <1>1, <1>3, <1>4, AllIn DEF Complete
<1> QED BY <1>3, <1>5

LEMMA InvVote ==
    ASSUME RoundInv, NEW h \in Handlers, NEW u \in Members, NEW b \in Ballots,
           EvaluateVote(h, u, b)
    PROVE  RoundInv'
<1>1. Types
  BY DEF RoundInv
<1>2. /\ at[h] = "idle" /\ recording' = recording \ {u}
      /\ UNCHANGED <<cached, connected, hasDeck>>
      /\ snapshot' \in [Members -> Nat] /\ \A v \in recording' : snapshot'[v] = snapshot[v]
      /\ results' \in Seq(Members) /\ size' \in Nat
  BY <1>1, Counted
<1>3. \/ /\ ~Complete /\ pending' = TRUE /\ UNCHANGED <<at, recipients, announced>>
      \/ /\ Complete /\ pending' = FALSE /\ \E i : announced' = Append(announced, i)
         /\ Awaiting(h, "storeMatch", {})
      \/ /\ Complete /\ pending' = TRUE /\ UNCHANGED announced
         /\ \E users \in SUBSET Members : Awaiting(h, "requestNextData", users)
  BY <1>1, <1>2, Resolved DEF EvaluateVote
<1>4. /\ pending' \in BOOLEAN /\ at' \in [Handlers -> Awaits]
      /\ recipients' \in [Handlers -> SUBSET Members]
  <2>1. "storeMatch" \in Awaits /\ "requestNextData" \in Awaits /\ {} \in SUBSET Members
    BY DEF Awaits
  <2>2. CASE UNCHANGED <<at, recipients>>
    BY <1>1, <1>3, <2>2 DEF Types
  <2>3. CASE \E await \in Awaits, users \in SUBSET Members : Awaiting(h, await, users)
    BY <1>1, <1>3, <2>3 DEF Types, Awaiting
  <2> QED BY <1>3, <2>1, <2>2, <2>3
<1>5. Types'
  BY <1>1, <1>2, <1>4 DEF Types
<1>6. ASSUME "left" \notin late' PROVE Orderly'
  <2>1. /\ Orderly /\ announced = <<>>
        /\ \A g \in Handlers : ~Resolving(g)
        /\ Cardinality(ToSet(results')) = Len(results')
        /\ (hasDeck' \cup recording') \cap connected' \cap ToSet(results') = {}
        /\ Cardinality(connected' \cup ToSet(results')) <= size'
    BY <1>6, Ballot
  <2>2. BallotInv'
    BY <2>1 DEF BallotInv
  <2>3. HandInv'
    <3>1. hasDeck' \cap recording' \cap connected' = {}
      BY <1>2, <2>1 DEF Orderly, HandInv
    <3>2. \A v \in recording' : Cardinality(connected') <= snapshot'[v]
      BY <1>2, <2>1 DEF Orderly, HandInv
    <3> QED BY <3>1, <3>2 DEF HandInv
  <2>4. CASE ~Complete
    <3>1. UNCHANGED <<at, announced>>
      BY <1>3, <2>4
    <3>2. TurnInv' /\ MatchInv'
      BY <2>1, <3>1 DEF TurnInv, MatchInv, Resolving
    <3> QED BY <2>2, <2>3, <3>2 DEF Orderly
  <2>5. CASE Complete
    <3>1. (hasDeck' \cup recording') \cap connected' = {}
      BY <1>2, <1>6, <2>1, <2>5, CompleteHasAll
    <3>2. \E await \in {"storeMatch", "requestNextData"} : at' = [at EXCEPT ![h] = await]
      BY <1>3, <2>5 DEF Awaiting
    <3>3. \A g \in Handlers : Resolving(g)' => g = h
      BY <1>1, <2>1, <3>2 DEF Types, Resolving
    <3>4. TurnInv'
      BY <3>1, <3>3 DEF TurnInv
    <3>5. MatchInv'
      <4>1. CASE UNCHANGED announced
        BY <2>1, <4>1 DEF MatchInv
      <4>2. CASE Awaiting(h, "storeMatch", {}) /\ \E i : announced' = Append(announced, i)
        <5>1. at'[h] = "storeMatch"
          BY <1>1, <4>2 DEF Types, Awaiting
        <5>2. Len(announced') = 1
          <6>1. PICK i : announced' = Append(<<>>, i)
            BY <2>1, <4>2
          <6>2. announced' = <<i>>
            BY <6>1
          <6> QED BY <6>2
        <5> QED BY <3>1, <5>1, <5>2 DEF MatchInv
      <4> QED BY <1>3, <2>5, <4>1, <4>2
    <3> QED BY <2>2, <2>3, <3>4, <3>5 DEF Orderly
  <2> QED BY <2>4, <2>5
<1> QED BY <1>5, <1>6 DEF RoundInv

-----------------------------------------------------------------------------
(* All of it.                                                               *)

LEMMA InvNext == ASSUME RoundInv, [Next]_vars PROVE RoundInv'
<1>1. CASE UNCHANGED vars
  BY <1>1 DEF vars, round, inHand, RoundInv, Types, Orderly, TurnInv, BallotInv, HandInv, MatchInv,
              Resolving
<1>2. ASSUME NEW h \in Handlers,
             \/ Handler(h) /\ ~NextData(h)
             \/ TerminateSession(h)
             \/ \E u \in Members : Disconnect(h, u) \/ VoteFails(h, u)
      PROVE  RoundInv'
  BY <1>2, HandlersQuiet, InvQuiet
<1>3. ASSUME NEW h \in Handlers, NEW u \in Members, Vote(h, u) PROVE RoundInv'
  BY <1>3, InvVote DEF Vote
<1> QED BY <1>1, <1>2, <1>3, InvFinishDeck, InvNextData DEF Next

LEMMA InvInit == Init => RoundInv
<1> SUFFICES ASSUME Init PROVE RoundInv
  OBVIOUS
<1>1. /\ connected \in SUBSET Members /\ hasDeck = connected /\ results = <<>> /\ size = 0
      /\ cached = TRUE /\ pending = FALSE /\ recording = {} /\ announced = <<>>
      /\ snapshot = [u \in Members |-> 0]
  BY DEF Init
<1>2. results \in Seq(Members) /\ size \in Nat /\ snapshot \in [Members -> Nat]
  BY <1>1
<1>3. at \in [Handlers -> Awaits] /\ recipients \in [Handlers -> SUBSET Members]
  BY DEF Init, Awaits
<1>4. \A h \in Handlers : ~Resolving(h)
  BY DEF Init, Resolving
<1>5. Types
  BY <1>1, <1>2, <1>3 DEF Types
<1>6. Orderly
  BY <1>1, <1>4 DEF Orderly, TurnInv, BallotInv, HandInv, MatchInv
<1> QED BY <1>5, <1>6 DEF RoundInv

LEMMA InvAlways == Spec => []RoundInv
BY InvInit, InvNext, PTL DEF Spec

\* Until the ballot of a member who had left is counted, no round is resolved twice,
\* whatever is suspended meanwhile, and one match is announced at most.
THEOREM RoundResolvedOnce == Spec => []ResolvedOnce
<1>1. RoundInv => ResolvedOnce
  <2> SUFFICES ASSUME RoundInv, "left" \notin late
               PROVE  /\ \A h1, h2 \in Handlers : Resolving(h1) /\ Resolving(h2) => h1 = h2
                      /\ Len(announced) <= 1
    BY DEF ResolvedOnce
  <2>1. TurnInv /\ MatchInv
    BY DEF RoundInv, Orderly
  <2>2. Len(<<>>) = 0
    OBVIOUS
  <2>3. Len(announced) = 0 \/ Len(announced) = 1
    BY <2>1, <2>2, Zenon DEF MatchInv
  <2>4. \A n : n = 0 \/ n = 1 => n <= 1
    OBVIOUS
  <2>5. Len(announced) <= 1
    BY <2>3, <2>4, Zenon
  <2> QED BY <2>1, <2>5 DEF TurnInv
<1> QED BY <1>1, InvAlways, PTL

\* Only a counted ballot leads to a request or a match.
LEMMA OnlyVotesResolve ==
    ASSUME RoundInv, [Next]_vars, NEW h \in Handlers, ~Resolving(h), Resolving(h)'
    PROVE  \E u \in Members, b \in Ballots : EvaluateVote(h, u, b) /\ Complete
<1>1. Types
  BY DEF RoundInv
<1>2. at'[h] # at[h]
  BY DEF Resolving
<1>3. ASSUME NEW g \in Handlers, NEW await, Quiet(g, await) PROVE FALSE
  <2>1. at' = [at EXCEPT ![g] = await] /\ ~(await \in {"requestNextData", "storeMatch"})
    BY <1>3 DEF Quiet, Awaiting
  <2> QED BY <1>1, <1>2, <2>1 DEF Types, Resolving
<1>4. ASSUME NEW g \in Handlers, NextData(g) PROVE FALSE
  BY <1>1, <1>2, <1>4 DEF NextData, Ends, Awaiting, Types, Resolving
<1>5. ASSUME NEW u \in Members, FinishDeck(u) PROVE FALSE
  BY <1>2, <1>5 DEF FinishDeck
<1>6. ~UNCHANGED vars
  BY <1>2 DEF vars
<1>7. PICK g \in Handlers, u \in Members : Vote(g, u)
  BY <1>3, <1>4, <1>5, <1>6, HandlersQuiet DEF Next
<1>8. PICK b \in Ballots : EvaluateVote(g, u, b)
  BY <1>7 DEF Vote
<1>9. Complete
  BY <1>2, <1>8 DEF EvaluateVote
<1>10. g = h
  BY <1>1, <1>2, <1>8, <1>9 DEF EvaluateVote, Resolve, Awaiting, Types
<1> QED BY <1>8, <1>9, <1>10

\* Until the ballot of a member who had left is counted, a round is resolved with the
\* ballots of all who are connected then, whoever left in the meantime.
THEOREM ResolvedByAll == Spec => AllVotedWhenResolved
<1> DEFINE A == \A h \in Handlers :
                    ~Resolving(h) /\ Resolving(h)' /\ "left" \notin late'
                       => connected \subseteq ToSet(results')
<1>1. RoundInv /\ [Next]_vars => A
  BY OnlyVotesResolve, CompleteHasAll
<1> QED BY <1>1, InvAlways, PTL DEF Spec, AllVotedWhenResolved

-----------------------------------------------------------------------------
(* The end of a session.                                                    *)

LEMMA EndInit == Init => EndInv
<1> SUFFICES ASSUME Init PROVE EndInv
  OBVIOUS
<1>1. at \in [Handlers -> Awaits]
  BY DEF Init, Awaits
<1> QED BY <1>1 DEF Init, EndInv

\* A step of a handler that clears nothing, unless it ends.
LEMMA EndAwaiting ==
    ASSUME EndInv, NEW h \in Handlers, NEW await \in Awaits, NEW users, Awaiting(h, await, users)
    PROVE  /\ at' \in [Handlers -> Awaits] /\ at'[h] = await
           /\ \A g \in Handlers : g # h => at'[g] = at[g]
BY DEF EndInv, Awaiting

LEMMA EndTerminate ==
    ASSUME EndInv, NEW h \in Handlers, Terminate(h),
           UNCHANGED <<pending, rounds, votes, announced, late>>, at[h] # "writeBroken"
    PROVE  EndInv'
<1>1. CASE cached
  BY <1>1, EndAwaiting DEF Terminate, EndInv, Awaits
<1>2. CASE ~cached
  BY <1>2, EndAwaiting DEF Terminate, Ends, EndInv, Awaits
<1> QED BY <1>1, <1>2

\* A ballot that is counted when all is over is late.
LEMMA EndVote ==
    ASSUME EndInv, NEW h \in Handlers, NEW u \in Members, NEW b \in Ballots,
           EvaluateVote(h, u, b)
    PROVE  EndInv'
<1>1. at[h] = "idle" /\ UNCHANGED cached /\ late' = late \cup Lateness(u)
  BY DEF EvaluateVote, Suspended
<1>2. Gone => "ended" \in late'
  BY <1>1 DEF Lateness
<1>3. ~cached => (\E g \in Handlers : at[g] = "writeBroken") \/ "ended" \in late'
  BY <1>2 DEF Gone
<1>4. CASE ~Complete
  <2>1. UNCHANGED <<at, announced>>
    BY <1>4 DEF EvaluateVote
  <2> QED BY <1>1, <1>3, <2>1 DEF EndInv
<1>5. CASE Complete
  <2>1. Resolve(h)
    BY <1>5 DEF EvaluateVote
  <2>2. CASE Awaiting(h, "storeMatch", {}) /\ announced' # <<>>
    BY <1>1, <2>2, EndAwaiting DEF EndInv, Awaits
  <2>3. CASE UNCHANGED announced /\ \E users : Awaiting(h, "requestNextData", users)
    <3>1. /\ at' \in [Handlers -> Awaits] /\ at'[h] = "requestNextData"
          /\ \A g \in Handlers : g # h => at'[g] = at[g]
      BY <2>3, EndAwaiting DEF Awaits
    <3> QED BY <1>1, <1>3, <2>3, <3>1 DEF EndInv
  <2>4. CASE \E i : announced' = Append(announced, i) /\ Awaiting(h, "storeMatch", {})
    <3>1. announced' # <<>>
      BY <2>4
    <3> QED BY <2>2, <2>4, <3>1
  <2> QED BY <2>1, <2>3, <2>4 DEF Resolve
<1> QED BY <1>4, <1>5

LEMMA EndNext == ASSUME EndInv, [Next]_vars PROVE EndInv'
<1>1. CASE UNCHANGED vars
  BY <1>1 DEF vars, round, EndInv
<1>2. ASSUME NEW u \in Members, FinishDeck(u) PROVE EndInv'
  BY <1>2 DEF FinishDeck, round, EndInv
<1>3. ASSUME NEW h \in Handlers, NEW u \in Members, Disconnect(h, u) PROVE EndInv'
  BY <1>3, EndAwaiting DEF Disconnect, Suspended, round, EndInv, Awaits
<1>4. ASSUME NEW h \in Handlers, TerminateSession(h) PROVE EndInv'
  BY <1>4, EndTerminate DEF TerminateSession, Suspended, round
<1>5. ASSUME NEW h \in Handlers, NEW u \in Members, VoteFails(h, u) PROVE EndInv'
  BY <1>5, EndTerminate DEF VoteFails, Suspended, round
<1>6. ASSUME NEW h \in Handlers, Handler(h) PROVE EndInv'
  <2>1. CASE NextData(h)
    BY <2>1, EndAwaiting DEF NextData, Suspended, Ends, EndInv, Awaits
  <2>2. CASE NextDataRefused(h)
    BY <2>2, EndAwaiting DEF NextDataRefused, Suspended, round, Ends, EndInv, Awaits
  <2>3. CASE ResolutionFails(h)
    BY <2>3, EndTerminate DEF ResolutionFails, round
  <2>4. CASE EndSessionWithMatch(h)
    BY <2>4, EndAwaiting DEF EndSessionWithMatch, Suspended, Ends, EndInv, Awaits
  <2>5. CASE ClearAllSessionData(h)
    BY <2>5, EndAwaiting DEF ClearAllSessionData, Suspended, Ends, EndInv, Awaits
  <2>6. CASE Disconnected(h)
    <3>1. at[h] # "writeBroken" /\ UNCHANGED <<pending, rounds, votes, announced, late>>
      BY <2>6 DEF Disconnected, Suspended, round
    <3>2. CASE Terminate(h)
      BY <3>1, <3>2, EndTerminate
    <3>3. CASE Ends(h) /\ UNCHANGED cached
      BY <3>1, <3>3, EndAwaiting DEF Ends, EndInv, Awaits
    <3> QED BY <2>6, <3>2, <3>3 DEF Disconnected
  <2> QED BY <1>6, <2>1, <2>2, <2>3, <2>4, <2>5, <2>6 DEF Handler
<1> QED BY <1>1, <1>2, <1>3, <1>4, <1>5, <1>6, EndVote DEF Next, Vote

\* Of a session that was terminated without a match no round and no votes are left once
\* its termination has run to its end, whichever requests, disconnections and ballots it
\* overlapped; until a ballot is counted that was in hand all the time.
THEOREM NothingLeft == Spec => []TerminatedLeavesNothing
<1>1. EndInv => TerminatedLeavesNothing
  BY DEF EndInv, Gone, TerminatedLeavesNothing
<1> QED BY <1>1, EndInit, EndNext, PTL DEF Spec

-----------------------------------------------------------------------------
(* The matching engine.  First the numbers it counts with.                  *)

LEMMA Least ==
    ASSUME NEW T, T \subseteq Nat, T # {}
    PROVE  \E m \in T : \A n \in T : m <= n
<1>1. \E m \in T : \A n \in T : ~(<<n, m>> \in OpToRel(<, Nat))
  BY NatLessThanWellFounded, WFMin, Zenon
<1>2. \A n, m \in Nat : n < m => <<n, m>> \in OpToRel(<, Nat)
  BY Zenon DEF OpToRel
<1>3. \E m \in T : \A n \in T : ~(n < m)
  BY <1>1, <1>2, Zenon
<1> QED BY <1>3

LEMMA MinIsLeast ==
    ASSUME NEW T, T \subseteq Nat, T # {}
    PROVE  Min(T) \in T /\ \A n \in T : Min(T) <= n
BY Least DEF Min

\* The greatest is the one that is least below the bound.
LEMMA MaxIsGreatest ==
    ASSUME NEW b \in Nat, NEW T, T \subseteq 0..b, T # {}
    PROVE  Max(T) \in T /\ \A n \in T : n <= Max(T)
<1>1. {b - n : n \in T} \subseteq Nat /\ {b - n : n \in T} # {}
  <2>1. \A n \in T : b - n \in Nat
    OBVIOUS
  <2> QED BY <2>1
<1>2. \E m \in {b - n : n \in T} : \A k \in {b - n : n \in T} : m <= k
  BY <1>1, Least
<1>3. PICK m \in T : \A n \in T : b - m <= b - n
  BY <1>2
<1>4. \A n \in T : n <= m
  BY <1>3
<1> QED BY <1>4 DEF Max

LEMMA Positive == ASSUME NEW x \in Nat \ {0}, NEW z \in Nat \ {0} PROVE x * z \in Nat \ {0}
<1>1. x * z \in Nat
  OBVIOUS
<1>2. x * z # 0
  OBVIOUS
<1> QED BY <1>1, <1>2

LEMMA Times ==
    ASSUME NEW x \in Int, NEW y \in Int, NEW z \in Nat \ {0}
    PROVE  (x > y <=> x * z > y * z) /\ (x >= y <=> x * z >= y * z)
<1>1. (x - y) * z = x * z - y * z /\ (y - x) * z = y * z - x * z
  OBVIOUS
<1>2. x * z \in Int /\ y * z \in Int
  OBVIOUS
<1>3. ASSUME x > y PROVE x * z > y * z
  <2>1. x - y \in Nat \ {0}
    BY <1>3
  <2>2. (x - y) * z \in Nat \ {0}
    BY <2>1, Positive
  <2> QED BY <1>1, <1>2, <2>2
<1>4. ASSUME y > x PROVE y * z > x * z
  <2>1. y - x \in Nat \ {0}
    BY <1>4
  <2>2. (y - x) * z \in Nat \ {0}
    BY <2>1, Positive
  <2> QED BY <1>1, <1>2, <2>2
<1>5. x = y => x * z = y * z
  OBVIOUS
<1>6. x > y \/ y > x \/ x = y
  OBVIOUS
<1> QED BY <1>2, <1>3, <1>4, <1>5, <1>6

LEMMA SubsetCounts ==
    ASSUME NEW T, IsFiniteSet(T), NEW S, S \subseteq T
    PROVE  /\ Cardinality(S) \in Nat /\ Cardinality(T) \in Nat
           /\ Cardinality(S) <= Cardinality(T)
           /\ S # T => Cardinality(S) < Cardinality(T)
<1>1. IsFiniteSet(S) /\ Cardinality(S) <= Cardinality(T) /\ (Cardinality(S) = Cardinality(T) => S = T)
  BY FS_Subset
<1>2. Cardinality(S) \in Nat /\ Cardinality(T) \in Nat
  BY <1>1, FS_CardinalityType
<1> QED BY <1>1, <1>2

LEMMA Headcount ==
    /\ Cardinality(Members) \in Nat \ {0}
    /\ ScoreUnit \in Nat \ {0}
    /\ \A S \in SUBSET Members : IsFiniteSet(S) /\ Cardinality(S) \in Nat
<1>1. Cardinality(Members) \in Nat /\ Cardinality(Members) # 0
  BY EngineAssumption, FS_CardinalityType, FS_EmptySet
<1>2. \A S \in SUBSET Members : IsFiniteSet(S) /\ Cardinality(S) \in Nat
  BY MembersFinite
<1> QED BY <1>1, <1>2, EngineAssumption

-----------------------------------------------------------------------------
(* What the engine reads off its logs.                                      *)

LEMMA Entries ==
    ASSUME NEW S, NEW s \in Seq(S)
    PROVE  DOMAIN s = 1..Len(s) /\ Len(s) \in Nat /\ \A k \in DOMAIN s : s[k] \in S
OBVIOUS

LEMMA EntryOf ==
    ASSUME NEW V \in VoteLogs, NEW i
    PROVE  /\ Of(V, i) \subseteq Nat /\ DOMAIN V = 1..Len(V) /\ Len(V) \in Nat
           /\ \A k \in DOMAIN V : V[k] \in [user : Members, item : Items, rating : Ratings]
<1>1. V \in Seq([user : Members, item : Items, rating : Ratings])
  BY DEF VoteLogs
<1>2. /\ DOMAIN V = 1..Len(V) /\ Len(V) \in Nat
      /\ \A k \in DOMAIN V : V[k] \in [user : Members, item : Items, rating : Ratings]
  BY <1>1, Entries
<1>3. Of(V, i) \subseteq DOMAIN V
  BY DEF Of
<1> QED BY <1>2, <1>3

LEMMA FirstVote ==
    ASSUME NEW V \in VoteLogs, NEW i, NEW u
    PROVE  /\ u \in DOMAIN RatingsOf(V, i) <=> \E k \in Of(V, i) : V[k].user = u
           /\ u \in DOMAIN RatingsOf(V, i) =>
                \E k \in Of(V, i) :
                    /\ V[k].user = u /\ RatingsOf(V, i)[u] = V[k].rating
                    /\ \A n \in Of(V, i) : V[n].user = u => k <= n
<1> DEFINE mine == {k \in Of(V, i) : V[k].user = u}
<1>1. u \in DOMAIN RatingsOf(V, i) <=> \E k \in Of(V, i) : V[k].user = u
  BY DEF RatingsOf
<1>2. ASSUME u \in DOMAIN RatingsOf(V, i)
      PROVE  \E k \in Of(V, i) :
                 /\ V[k].user = u /\ RatingsOf(V, i)[u] = V[k].rating
                 /\ \A n \in Of(V, i) : V[n].user = u => k <= n
  <2>1. mine \subseteq Nat /\ mine # {}
    BY <1>1, <1>2, EntryOf
  <2>2. Min(mine) \in mine /\ \A n \in mine : Min(mine) <= n
    BY <2>1, MinIsLeast
  <2>3. RatingsOf(V, i)[u] = V[Min(mine)].rating
    BY <1>2 DEF RatingsOf
  <2> QED BY <2>2, <2>3
<1> QED BY <1>1, <1>2

LEMMA RatingsTyped ==
    ASSUME NEW V \in VoteLogs, NEW i
    PROVE  /\ DOMAIN RatingsOf(V, i) \subseteq Members
           /\ \A u \in DOMAIN RatingsOf(V, i) : RatingsOf(V, i)[u] \in Ratings
<1>1. \A k \in Of(V, i) : V[k] \in [user : Members, item : Items, rating : Ratings]
  BY EntryOf DEF Of
<1>2. ASSUME NEW u \in DOMAIN RatingsOf(V, i)
      PROVE  u \in Members /\ RatingsOf(V, i)[u] \in Ratings
  BY <1>1, <1>2, FirstVote
<1> QED BY <1>2

LEMMA HighestScore ==
    ASSUME NEW R \in RecLogs, NEW i
    PROVE  /\ DOMAIN RecScores(R, i) \subseteq Members
           /\ \A u \in DOMAIN RecScores(R, i) : RecScores(R, i)[u] \in 0..ScoreUnit
<1>1. \A k \in Of(R, i) : R[k] \in [user : Members, item : Items, score : 0..ScoreUnit]
  <2>1. R \in Seq([user : Members, item : Items, score : 0..ScoreUnit])
    BY DEF RecLogs
  <2> QED BY <2>1, Entries DEF Of
<1>2. DOMAIN RecScores(R, i) = {R[k].user : k \in Of(R, i)}
  BY DEF RecScores
<1>3. ASSUME NEW u \in DOMAIN RecScores(R, i) PROVE RecScores(R, i)[u] \in 0..ScoreUnit
  <2> DEFINE mine == {n \in Of(R, i) : R[n].user = u}
             scores == {R[k].score : k \in mine}
  <2>1. RecScores(R, i)[u] = Max(scores)
    BY <1>3 DEF RecScores
  <2>2. scores \subseteq 0..ScoreUnit /\ scores # {}
    BY <1>1, <1>2, <1>3
  <2> HIDE DEF scores
  <2>3. Max(scores) \in scores
    BY <2>2, MaxIsGreatest, EngineAssumption
  <2> QED BY <2>1, <2>2, <2>3
<1> QED BY <1>1, <1>2, <1>3

\* Candidates are finitely many, and known by their first votes.
LEMMA CandidatesFinite ==
    ASSUME NEW V \in VoteLogs, NEW act
    PROVE  /\ Candidates(V, act) \subseteq Items
           /\ IsFiniteSet(Candidates(V, act)) /\ Cardinality(Candidates(V, act)) \in Nat
           /\ \A i \in Candidates(V, act) : Of(V, i) # {}
<1>1. Candidates(V, act) \subseteq Items
  BY EntryOf DEF Candidates
<1>2. IsFiniteSet(Candidates(V, act))
  BY <1>1, VotingAssumption, FS_Subset
<1>3. \A i \in Candidates(V, act) : Of(V, i) # {}
  BY DEF Candidates, Of
<1> QED BY <1>1, <1>2, <1>3, FS_CardinalityType
-----------------------------------------------------------------------------
(* Scores.                                                                  *)

LEMMA MoreVotes ==
    ASSUME NEW V \in VoteLogs, NEW i, NEW j,
           DOMAIN RatingsOf(V, i) = DOMAIN RatingsOf(V, j),
           \A u \in DOMAIN RatingsOf(V, i) : RatingsOf(V, i)[u] >= RatingsOf(V, j)[u]
    PROVE  /\ VoteSum(V, i) >= VoteSum(V, j)
           /\ \A u \in DOMAIN RatingsOf(V, i) :
                  RatingsOf(V, i)[u] > RatingsOf(V, j)[u] => VoteSum(V, i) > VoteSum(V, j)
<1> DEFINE a == RatingsOf(V, i)  b == RatingsOf(V, j)
           up(r) == {u \in DOMAIN r : r[u] = 1}  down(r) == {u \in DOMAIN r : r[u] = -1}
<1>1. /\ DOMAIN a \subseteq Members /\ DOMAIN a = DOMAIN b
      /\ \A u \in DOMAIN a : a[u] \in {-1, 0, 1} /\ b[u] \in {-1, 0, 1} /\ a[u] >= b[u]
  BY RatingsTyped DEF Ratings
<1>2. /\ VoteSum(V, i) = Cardinality(up(a)) - Cardinality(down(a))
      /\ VoteSum(V, j) = Cardinality(up(b)) - Cardinality(down(b))
  BY DEF VoteSum
<1> HIDE DEF a, b
<1>3. up(b) \subseteq up(a) /\ down(a) \subseteq down(b)
  BY <1>1
<1>4. \A u \in DOMAIN a : a[u] > b[u] => up(b) # up(a) \/ down(a) # down(b)
  BY <1>1
<1>5. IsFiniteSet(up(a)) /\ IsFiniteSet(down(b))
  BY <1>1, Headcount
<1> HIDE DEF up, down
<1>6. /\ {Cardinality(up(a)), Cardinality(up(b)), Cardinality(down(a)), Cardinality(down(b))} \subseteq Nat
      /\ Cardinality(up(b)) <= Cardinality(up(a))
      /\ Cardinality(down(a)) <= Cardinality(down(b))
      /\ up(b) # up(a) => Cardinality(up(b)) < Cardinality(up(a))
      /\ down(a) # down(b) => Cardinality(down(a)) < Cardinality(down(b))
  BY <1>3, <1>5, SubsetCounts
<1>7. VoteSum(V, i) >= VoteSum(V, j)
  BY <1>2, <1>6
<1>8. ASSUME NEW u \in DOMAIN a, a[u] > b[u] PROVE VoteSum(V, i) > VoteSum(V, j)
  <2>1. up(b) # up(a) \/ down(a) # down(b)
    BY <1>4, <1>8
  <2> QED BY <1>2, <1>6, <2>1
<1> QED BY <1>7, <1>8 DEF a, b

LEMMA VoteSumTyped == ASSUME NEW V \in VoteLogs, NEW i PROVE VoteSum(V, i) \in Int
<1> DEFINE r == RatingsOf(V, i)
           up == {u \in DOMAIN r : r[u] = 1}  down == {u \in DOMAIN r : r[u] = -1}
<1>1. up \subseteq Members /\ down \subseteq Members
  BY RatingsTyped
<1>2. Cardinality(up) \in Nat /\ Cardinality(down) \in Nat
  BY <1>1, Headcount
<1> QED BY <1>2 DEF VoteSum

\* The units a total counts.
Units(scores) == {p \in (DOMAIN scores) \X (1..ScoreUnit) : p[2] <= scores[p[1]]}

LEMMA TotalOfScores ==
    ASSUME NEW R \in RecLogs, NEW i
    PROVE  /\ IsFiniteSet(Units(RecScores(R, i)))
           /\ Total(RecScores(R, i)) = Cardinality(Units(RecScores(R, i)))
           /\ Total(RecScores(R, i)) \in Nat
           /\ Cardinality(DOMAIN RecScores(R, i)) \in Nat
           /\ Total(RecScores(R, i)) <= Cardinality(DOMAIN RecScores(R, i)) * ScoreUnit
<1> DEFINE q == RecScores(R, i)
<1>1. IsFiniteSet(DOMAIN q) /\ Cardinality(DOMAIN q) \in Nat
  BY HighestScore, Headcount
<1>2. IsFiniteSet(1..ScoreUnit) /\ Cardinality(1..ScoreUnit) = ScoreUnit
  BY FS_Interval, EngineAssumption
<1> HIDE DEF q
<1>3. /\ IsFiniteSet((DOMAIN q) \X (1..ScoreUnit))
      /\ Cardinality((DOMAIN q) \X (1..ScoreUnit)) = Cardinality(DOMAIN q) * ScoreUnit
  BY <1>1, <1>2, FS_Product
<1>4. Units(q) \subseteq (DOMAIN q) \X (1..ScoreUnit)
  BY DEF Units
<1>5. IsFiniteSet(Units(q)) /\ Cardinality(Units(q)) \in Nat
      /\ Cardinality(Units(q)) <= Cardinality(DOMAIN q) * ScoreUnit
  BY <1>3, <1>4, FS_Subset, FS_CardinalityType
<1>6. Total(q) = Cardinality(Units(q))
  BY DEF Total, Units
<1> QED BY <1>1, <1>5, <1>6 DEF q

LEMMA MoreScores ==
    ASSUME NEW R \in RecLogs, NEW i, NEW j,
           DOMAIN RecScores(R, i) = DOMAIN RecScores(R, j),
           \A u \in DOMAIN RecScores(R, i) : RecScores(R, i)[u] >= RecScores(R, j)[u]
    PROVE  /\ Total(RecScores(R, i)) >= Total(RecScores(R, j))
           /\ \A u \in DOMAIN RecScores(R, i) :
                  RecScores(R, i)[u] > RecScores(R, j)[u]
                      => Total(RecScores(R, i)) > Total(RecScores(R, j))
<1> DEFINE p == RecScores(R, i)  q == RecScores(R, j)
<1>1. /\ DOMAIN p = DOMAIN q
      /\ \A u \in DOMAIN p : p[u] \in 0..ScoreUnit /\ q[u] \in 0..ScoreUnit /\ p[u] >= q[u]
  BY HighestScore
<1>2. /\ IsFiniteSet(Units(p)) /\ IsFiniteSet(Units(q))
      /\ Total(p) = Cardinality(Units(p)) /\ Total(q) = Cardinality(Units(q))
  BY TotalOfScores
<1> HIDE DEF p, q
<1>3. Units(q) \subseteq Units(p)
  BY <1>1, EngineAssumption DEF Units
<1>4. ASSUME NEW u \in DOMAIN p, p[u] > q[u] PROVE Units(q) # Units(p)
  <2>1. p[u] \in 1..ScoreUnit /\ p[u] <= p[u] /\ ~(p[u] <= q[u])
    BY <1>1, <1>4, EngineAssumption
  <2>2. <<u, p[u]>> \in Units(p) /\ <<u, p[u]>> \notin Units(q)
    BY <2>1, <1>1 DEF Units
  <2> QED BY <2>2
<1>5. /\ Cardinality(Units(q)) <= Cardinality(Units(p))
      /\ Cardinality(Units(q)) \in Nat /\ Cardinality(Units(p)) \in Nat
      /\ Units(q) # Units(p) => Cardinality(Units(q)) < Cardinality(Units(p))
  BY <1>2, <1>3, SubsetCounts
<1> QED BY <1>2, <1>4, <1>5 DEF p, q

\* How many users' scores the average is of; 1 if there is none.
Scored(R, i) == Max({1, Cardinality(DOMAIN RecScores(R, i))})

LEMMA ScoredCounts ==
    ASSUME NEW R \in RecLogs, NEW i
    PROVE  Scored(R, i) \in Nat \ {0} /\ Scored(R, i) >= Cardinality(DOMAIN RecScores(R, i))
<1> DEFINE c == Cardinality(DOMAIN RecScores(R, i))
<1>1. c \in Nat
  BY TotalOfScores
<1> HIDE DEF c
<1>2. {1, c} \subseteq 0..(c + 1) /\ c + 1 \in Nat
  BY <1>1
<1>3. Max({1, c}) \in {1, c} /\ \A n \in {1, c} : n <= Max({1, c})
  BY <1>2, MaxIsGreatest
<1>4. Max({1, c}) \in Nat \ {0} /\ Max({1, c}) >= c
  BY <1>1, <1>3
<1> QED BY <1>4 DEF Scored, c

LEMMA ScoreTyped ==
    ASSUME NEW V \in VoteLogs, NEW R \in RecLogs, NEW i
    PROVE  /\ FinalScore(V, R, i) = [num |-> 2 * ScoreUnit * Scored(R, i) * VoteSum(V, i)
                                       + Cardinality(Members) * Total(RecScores(R, i)),
                                     den |-> 2 * ScoreUnit * Scored(R, i) * Cardinality(Members)]
           /\ FinalScore(V, R, i).num \in Int /\ FinalScore(V, R, i).den \in Nat \ {0}
<1> DEFINE M == Cardinality(Members)  s == Scored(R, i)  v == VoteSum(V, i)
           t == Total(RecScores(R, i))
<1>1. FinalScore(V, R, i) = [num |-> 2 * ScoreUnit * s * v + M * t, den |-> 2 * ScoreUnit * s * M]
  BY DEF FinalScore, Scored
<1>2. M \in Nat \ {0} /\ s \in Nat \ {0} /\ ScoreUnit \in Nat \ {0} /\ v \in Int /\ t \in Nat
  BY Headcount, ScoredCounts, VoteSumTyped, TotalOfScores
<1> HIDE DEF M, s, v, t
<1>3. 2 * ScoreUnit \in Nat \ {0}
  BY <1>2
<1>4. 2 * ScoreUnit * s \in Nat \ {0}
  BY <1>2, <1>3, Positive
<1>5. 2 * ScoreUnit * s * M \in Nat \ {0}
  BY <1>2, <1>4, Positive
<1>6. 2 * ScoreUnit * s * v + M * t \in Int
  BY <1>2, <1>4
<1> QED BY <1>1, <1>5, <1>6 DEF M, s, v, t
-----------------------------------------------------------------------------
(* The ranking.                                                             *)

\* What Dominates and Outvotes say of two items, for any two logs.
LEMMA DominantIsHigher ==
    ASSUME cast \in VoteLogs, recommended \in RecLogs, NEW i, NEW j, Dominates(i, j)
    PROVE  Higher(FinalScore(cast, recommended, i), FinalScore(cast, recommended, j))
<1> DEFINE M == Cardinality(Members)  s == Scored(recommended, i)
           v == VoteSum(cast, i)  w == VoteSum(cast, j)
           t == Total(RecScores(recommended, i))  x == Total(RecScores(recommended, j))
           d == 2 * ScoreUnit * s * M
<1>1. /\ v >= w /\ t >= x /\ (v > w \/ t > x)
      /\ s = Scored(recommended, j)
  <2>1. v >= w /\ t >= x
    BY MoreVotes, MoreScores DEF Dominates
  <2>2. v > w \/ t > x
    BY MoreVotes, MoreScores DEF Dominates
  <2>3. s = Scored(recommended, j)
    BY DEF Dominates, Scored
  <2> QED BY <2>1, <2>2, <2>3
<1>2. /\ FinalScore(cast, recommended, i) = [num |-> 2 * ScoreUnit * s * v + M * t, den |-> d]
      /\ FinalScore(cast, recommended, j) = [num |-> 2 * ScoreUnit * s * w + M * x, den |-> d]
      /\ d \in Nat \ {0}
  BY <1>1, ScoreTyped
<1>3. /\ M \in Nat \ {0} /\ 2 * ScoreUnit \in Nat \ {0} /\ s \in Nat \ {0}
      /\ v \in Int /\ w \in Int /\ t \in Nat /\ x \in Nat
  BY Headcount, ScoredCounts, VoteSumTyped, TotalOfScores
<1> HIDE DEF M, s, v, w, t, x, d
<1> DEFINE c == 2 * ScoreUnit * s
<1>4. c \in Nat \ {0}
  BY <1>3, Positive
<1> HIDE DEF c
<1>5. /\ v * c >= w * c /\ t * M >= x * M
      /\ v > w => v * c > w * c
      /\ t > x => t * M > x * M
  BY <1>1, <1>3, <1>4, Times
<1>6. /\ v * c \in Int /\ w * c \in Int /\ t * M \in Int /\ x * M \in Int
      /\ v * c = c * v /\ w * c = c * w /\ t * M = M * t /\ x * M = M * x
  BY <1>3, <1>4
<1>7. c * v + M * t > c * w + M * x /\ c * v + M * t \in Int /\ c * w + M * x \in Int
  BY <1>1, <1>5, <1>6
<1>8. (c * v + M * t) * d > (c * w + M * x) * d
  BY <1>2, <1>7, Times
<1> QED BY <1>2, <1>8 DEF Higher, c

\* The votes outweigh any difference of averages: 0 <= t <= s * ScoreUnit of either.
LEMMA OutvotedIsLower ==
    ASSUME cast \in VoteLogs, recommended \in RecLogs, NEW i, NEW j, Outvotes(i, j)
    PROVE  Higher(FinalScore(cast, recommended, i), FinalScore(cast, recommended, j))
<1> DEFINE M == Cardinality(Members)  U == ScoreUnit
           s == Scored(recommended, i)  r == Scored(recommended, j)
           v == VoteSum(cast, i)  w == VoteSum(cast, j)
           t == Total(RecScores(recommended, i))  x == Total(RecScores(recommended, j))
<1>1. /\ FinalScore(cast, recommended, i) = [num |-> 2 * U * s * v + M * t, den |-> 2 * U * s * M]
      /\ FinalScore(cast, recommended, j) = [num |-> 2 * U * r * w + M * x, den |-> 2 * U * r * M]
  BY ScoreTyped
<1>2. /\ M \in Nat \ {0} /\ U \in Nat \ {0} /\ s \in Nat \ {0} /\ r \in Nat \ {0}
      /\ v \in Int /\ w \in Int /\ t \in Nat /\ x \in Nat
  BY Headcount, ScoredCounts, VoteSumTyped, TotalOfScores
<1>3. x <= r * U
  <2> DEFINE n == Cardinality(DOMAIN RecScores(recommended, j))
  <2>1. n \in Nat /\ x <= n * U /\ n <= r
    BY TotalOfScores, ScoredCounts
  <2> HIDE DEF n
  <2>2. n * U <= r * U /\ n * U \in Int /\ r * U \in Int
    BY <1>2, <2>1, Times
  <2> QED BY <1>2, <2>1, <2>2
<1>4. 2 * (v - w) > M
  BY DEF Outvotes
<1> HIDE DEF M, U, s, r, v, w, t, x
<1> DEFINE k == U * s * r
<1>5. k \in Nat \ {0}
  BY <1>2, Positive
<1>6. (2 * (v - w)) * k > M * k /\ (2 * (v - w)) * k \in Int /\ M * k \in Int
  BY <1>2, <1>4, <1>5, Times
<1>7. x * (s * M) <= (r * U) * (s * M) /\ x * (s * M) \in Int
  <2>1. s * M \in Nat \ {0} /\ r * U \in Int
    BY <1>2, Positive
  <2> QED BY <1>2, <1>3, <2>1, Times
<1>8. (r * U) * (s * M) = M * k
  BY <1>2
<1>9. t * (r * M) \in Nat
  BY <1>2
<1>10. (2 * (v - w)) * k + t * (r * M) > x * (s * M)
  BY <1>6, <1>7, <1>8, <1>9
<1>11. /\ (2 * U * s * v + M * t) * (2 * U * r * M) - (2 * U * r * w + M * x) * (2 * U * s * M)
            = ((2 * (v - w)) * k + t * (r * M) - x * (s * M)) * (2 * U * M)
  BY <1>2
<1>12. ((2 * (v - w)) * k + t * (r * M) - x * (s * M)) * (2 * U * M) \in Nat \ {0}
  <2>1. (2 * (v - w)) * k + t * (r * M) - x * (s * M) \in Nat \ {0}
    BY <1>6, <1>7, <1>9, <1>10
  <2>2. 2 * U * M \in Nat \ {0}
    BY <1>2, Positive
  <2> QED BY <2>1, <2>2, Positive
<1>13. (2 * U * s * v + M * t) * (2 * U * r * M) > (2 * U * r * w + M * x) * (2 * U * s * M)
  <2>1. /\ (2 * U * s * v + M * t) * (2 * U * r * M) \in Int
        /\ (2 * U * r * w + M * x) * (2 * U * s * M) \in Int
    BY <1>2
  <2> QED BY <1>11, <1>12, <2>1
<1> QED BY <1>1, <1>13 DEF Higher

\* Fractions compare transitively.
LEMMA HigherIsTransitive ==
    ASSUME NEW a \in [num : Int, den : Nat \ {0}], NEW b \in [num : Int, den : Nat \ {0}],
           NEW c \in [num : Int, den : Nat \ {0}]
    PROVE  /\ ~Higher(b, a) /\ Higher(b, c) => Higher(a, c)
           /\ Higher(a, b) /\ ~Higher(c, b) => Higher(a, c)
           /\ ~Higher(b, a) /\ ~Higher(c, b) => ~Higher(c, a)
<1> DEFINE p == a.num  q == b.num  r == c.num  A == a.den  B == b.den  C == c.den
           \* p/A, q/B and r/C over the common denominator
           x == (p * B) * C  y == (q * A) * C  z == (r * A) * B
<1>1. p \in Int /\ q \in Int /\ r \in Int /\ A \in Nat \ {0} /\ B \in Nat \ {0} /\ C \in Nat \ {0}
  OBVIOUS
<1>2. /\ Higher(a, b) <=> p * B > q * A
      /\ Higher(b, a) <=> q * A > p * B
      /\ Higher(b, c) <=> q * C > r * B
      /\ Higher(c, b) <=> r * B > q * C
      /\ Higher(a, c) <=> p * C > r * A
      /\ Higher(c, a) <=> r * A > p * C
  BY DEF Higher
<1> HIDE DEF p, q, r, A, B, C
<1>3. /\ p * B \in Int /\ q * A \in Int /\ q * C \in Int /\ r * B \in Int /\ p * C \in Int
      /\ r * A \in Int
  BY <1>1
<1>4. /\ (q * C) * A = y /\ (r * B) * A = z /\ (p * C) * B = x /\ (r * A) * B = z
      /\ x \in Int /\ y \in Int /\ z \in Int
  BY <1>1
<1>5. (p * B > q * A <=> x > y) /\ (q * A > p * B <=> y > x)
  BY <1>1, <1>3, Times
<1>6. (q * C > r * B <=> (q * C) * A > (r * B) * A) /\ (r * B > q * C <=> (r * B) * A > (q * C) * A)
  BY <1>1, <1>3, Times
<1>7. (p * C > r * A <=> (p * C) * B > (r * A) * B) /\ (r * A > p * C <=> (r * A) * B > (p * C) * B)
  BY <1>1, <1>3, Times
<1> HIDE DEF x, y, z
<1> QED BY <1>2, <1>4, <1>5, <1>6, <1>7
LEMMA PrecedenceIsOrder ==
    ASSUME NEW V \in VoteLogs, NEW R \in RecLogs,
           NEW i, Of(V, i) # {}, NEW j, Of(V, j) # {}, NEW k, Of(V, k) # {}
    PROVE  /\ ~Precedes(V, R, i, i)
           /\ i # j => Precedes(V, R, i, j) \/ Precedes(V, R, j, i)
           /\ Precedes(V, R, i, j) /\ Precedes(V, R, j, k) => Precedes(V, R, i, k)
           /\ Higher(FinalScore(V, R, i), FinalScore(V, R, j)) => Precedes(V, R, i, j)
<1> DEFINE a == FinalScore(V, R, i)  b == FinalScore(V, R, j)  c == FinalScore(V, R, k)
           l == Min(Of(V, i))  m == Min(Of(V, j))  n == Min(Of(V, k))
<1>1. /\ a \in [num : Int, den : Nat \ {0}] /\ b \in [num : Int, den : Nat \ {0}]
      /\ c \in [num : Int, den : Nat \ {0}]
  BY ScoreTyped
<1>2. /\ l \in Of(V, i) /\ m \in Of(V, j) /\ n \in Of(V, k)
      /\ l \in Nat /\ m \in Nat /\ n \in Nat
  BY EntryOf, MinIsLeast
<1>3. i # j => l # m
  BY <1>2 DEF Of
<1>4. /\ Precedes(V, R, i, j) <=> Higher(a, b) \/ (~Higher(b, a) /\ l < m)
      /\ Precedes(V, R, j, i) <=> Higher(b, a) \/ (~Higher(a, b) /\ m < l)
      /\ Precedes(V, R, j, k) <=> Higher(b, c) \/ (~Higher(c, b) /\ m < n)
      /\ Precedes(V, R, i, k) <=> Higher(a, c) \/ (~Higher(c, a) /\ l < n)
      /\ Precedes(V, R, i, i) <=> Higher(a, a) \/ (~Higher(a, a) /\ l < l)
  BY DEF Precedes
<1> HIDE DEF a, b, c, l, m, n
<1>5. ~Higher(a, a) /\ (Higher(a, b) => ~Higher(b, a)) /\ (Higher(b, c) => ~Higher(c, b))
  <2>1. /\ a.num * a.den \in Int /\ a.num * b.den \in Int /\ b.num * a.den \in Int
        /\ b.num * c.den \in Int /\ c.num * b.den \in Int
    BY <1>1
  <2> QED BY <2>1 DEF Higher
<1>6. /\ ~Higher(b, a) /\ Higher(b, c) => Higher(a, c)
      /\ Higher(a, b) /\ ~Higher(c, b) => Higher(a, c)
      /\ ~Higher(b, a) /\ ~Higher(c, b) => ~Higher(c, a)
  BY <1>1, HigherIsTransitive
<1>7. l < m \/ m < l \/ l = m
  BY <1>2
<1>8. l < m /\ m < n => l < n
  BY <1>2
<1>9. ~(l < l)
  BY <1>2
<1>10. ~Precedes(V, R, i, i)
  BY <1>4, <1>5, <1>9
<1>11. i # j => Precedes(V, R, i, j) \/ Precedes(V, R, j, i)
  BY <1>3, <1>4, <1>7
<1>12. Precedes(V, R, i, j) /\ Precedes(V, R, j, k) => Precedes(V, R, i, k)
  BY <1>4, <1>5, <1>6, <1>8
<1>13. Higher(a, b) => Precedes(V, R, i, j)
  BY <1>4
<1> QED BY <1>10, <1>11, <1>12, <1>13 DEF a, b

\* The candidates that precede one.
Before(V, R, act, i) == {j \in Candidates(V, act) : Precedes(V, R, j, i)}

LEMMA PlaceOf ==
    ASSUME NEW V \in VoteLogs, NEW R \in RecLogs, NEW act, NEW i \in Candidates(V, act)
    PROVE  /\ DOMAIN Ranked(V, R, act) = Candidates(V, act)
           /\ Ranked(V, R, act)[i] = 1 + Cardinality(Before(V, R, act, i))
           /\ Cardinality(Before(V, R, act, i)) \in Nat
           /\ Cardinality(Before(V, R, act, i)) < Cardinality(Candidates(V, act))
           /\ Ranked(V, R, act)[i] \in 1..Cardinality(Candidates(V, act))
<1>1. /\ DOMAIN Ranked(V, R, act) = Candidates(V, act)
      /\ Ranked(V, R, act)[i] = 1 + Cardinality(Before(V, R, act, i))
  BY DEF Ranked, Before
<1>2. Of(V, i) # {} /\ IsFiniteSet(Candidates(V, act))
  BY CandidatesFinite
<1>3. Before(V, R, act, i) \subseteq Candidates(V, act) /\ Before(V, R, act, i) # Candidates(V, act)
  BY <1>2, PrecedenceIsOrder DEF Before
<1>4. /\ Cardinality(Before(V, R, act, i)) < Cardinality(Candidates(V, act))
      /\ Cardinality(Before(V, R, act, i)) \in Nat /\ Cardinality(Candidates(V, act)) \in Nat
  BY <1>2, <1>3, SubsetCounts
<1> QED BY <1>1, <1>4

LEMMA PlacesFollow ==
    ASSUME NEW V \in VoteLogs, NEW R \in RecLogs, NEW act,
           NEW i \in Candidates(V, act), NEW j \in Candidates(V, act), Precedes(V, R, i, j)
    PROVE  Ranked(V, R, act)[i] < Ranked(V, R, act)[j]
<1> DEFINE C == Candidates(V, act)  B(k) == Before(V, R, act, k)
<1>1. IsFiniteSet(C) /\ \A k \in C : Of(V, k) # {}
  BY CandidatesFinite
<1>2. B(i) \subseteq B(j)
  <2> SUFFICES ASSUME NEW k \in C, Precedes(V, R, k, i) PROVE Precedes(V, R, k, j)
    BY DEF Before
  <2> QED BY <1>1, PrecedenceIsOrder
<1>3. i \in B(j) /\ i \notin B(i)
  BY <1>1, PrecedenceIsOrder DEF Before
<1>4. IsFiniteSet(B(j))
  BY <1>1, FS_Subset DEF Before
<1>5. /\ Ranked(V, R, act)[i] = 1 + Cardinality(B(i)) /\ Ranked(V, R, act)[j] = 1 + Cardinality(B(j))
  BY PlaceOf
<1> HIDE DEF B
<1>6. /\ Cardinality(B(i)) < Cardinality(B(j))
      /\ Cardinality(B(i)) \in Nat /\ Cardinality(B(j)) \in Nat
  BY <1>2, <1>3, <1>4, SubsetCounts
<1> QED BY <1>5, <1>6

\* The ranking is a list: each place from the first to the last is one candidate's.
THEOREM RankingIsAList ==
    ASSUME NEW V \in VoteLogs, NEW R \in RecLogs, NEW act
    PROVE  Ranked(V, R, act)
               \in Bijection(Candidates(V, act), 1..Cardinality(Candidates(V, act)))
<1> DEFINE C == Candidates(V, act)  rank == Ranked(V, R, act)  N == 1..Cardinality(C)
<1>1. IsFiniteSet(C) /\ Cardinality(C) \in Nat /\ \A k \in C : Of(V, k) # {}
  BY CandidatesFinite
<1>2. rank \in [C -> N]
  <2>1. DOMAIN rank = C /\ rank = [i \in C |-> rank[i]]
    BY DEF Ranked
  <2>2. \A i \in C : rank[i] \in N
    BY PlaceOf
  <2> QED BY <2>1, <2>2
<1>3. ASSUME NEW i \in C, NEW j \in C, i # j PROVE rank[i] # rank[j]
  <2>1. Precedes(V, R, i, j) \/ Precedes(V, R, j, i)
    BY <1>1, <1>3, PrecedenceIsOrder
  <2>2. rank[i] < rank[j] \/ rank[j] < rank[i]
    BY <2>1, PlacesFollow
  <2>3. rank[i] \in Nat /\ rank[j] \in Nat
    BY <1>1, <1>2
  <2> HIDE DEF rank
  <2> QED BY <2>2, <2>3
<1> HIDE DEF rank, C
<1>4. rank \in Injection(C, N)
  BY <1>2, <1>3 DEF Injection, IsInjective
<1>5. IsFiniteSet(N) /\ Cardinality(N) = Cardinality(C)
  BY <1>1, FS_Interval
<1>6. rank \in Surjection(C, N)
  BY <1>4, <1>5, FS_Injection
<1> QED BY <1>4, <1>6 DEF Bijection, rank, C

\* The matched item is a matched one.
LEMMA MatchedItemMatches ==
    ASSUME NEW V \in VoteLogs, NEW R \in RecLogs, NEW act,
           Evaluate(V, R, act).matchedItems # {}
    PROVE  MatchedItem(Evaluate(V, R, act)) \in Evaluate(V, R, act).matchedItems
<1> DEFINE W == Evaluate(V, R, act).matchedItems  rank == Ranked(V, R, act)
<1>1. W \subseteq Candidates(V, act) /\ rank = Evaluate(V, R, act).rankedItems
  BY DEF Evaluate
<1>2. \A i \in W : rank[i] \in Nat
  BY <1>1, PlaceOf
<1> HIDE DEF rank, W
<1> DEFINE T == {rank[i] : i \in W}
<1>3. T \subseteq Nat /\ T # {}
  BY <1>2 DEF W
<1>4. \E m \in T : \A n \in T : m <= n
  <2> HIDE DEF T
  <2> QED BY <1>3, Least
<1>5. \E i \in W : \A j \in W : rank[i] <= rank[j]
  BY <1>4
<1> QED BY <1>1, <1>5 DEF MatchedItem, W
-----------------------------------------------------------------------------
(* The log that grows.                                                      *)

LogTyped ==
    /\ cast \in VoteLogs /\ recommended \in RecLogs
    /\ active \subseteq Members /\ active # {}

LEMMA LogStarts == LogInit => LogTyped
<1>1. <<>> \in VoteLogs /\ <<>> \in RecLogs
  BY Sequences DEF VoteLogs, RecLogs
<1>2. Members # {}
  BY EngineAssumption
<1> QED BY <1>1, <1>2 DEF LogInit, LogTyped

LEMMA Appended ==
    ASSUME NEW S, NEW s \in Seq(S), NEW e \in S
    PROVE  /\ Append(s, e) \in Seq(S)
           /\ DOMAIN Append(s, e) = DOMAIN s \cup {Len(s) + 1}
           /\ Append(s, e)[Len(s) + 1] = e
           /\ \A k \in DOMAIN s : Append(s, e)[k] = s[k] /\ k \in Nat /\ k < Len(s) + 1
<1>1. /\ Append(s, e) \in Seq(S) /\ Len(s) \in Nat /\ DOMAIN s = 1..Len(s)
      /\ DOMAIN Append(s, e) = 1..(Len(s) + 1) /\ Append(s, e)[Len(s) + 1] = e
      /\ \A k \in 1..Len(s) : Append(s, e)[k] = s[k]
  OBVIOUS
<1>2. 1..(Len(s) + 1) = 1..Len(s) \cup {Len(s) + 1}
  BY <1>1
<1> QED BY <1>1, <1>2

LEMMA CastTyped ==
    ASSUME LogTyped, NEW u \in Members, NEW i \in Items, NEW r \in VoteRatings, Cast(u, i, r)
    PROVE  cast' \in VoteLogs
<1>1. [user |-> u, item |-> i, rating |-> r] \in [user : Members, item : Items, rating : Ratings]
  BY LogAssumption
<1>2. cast \in Seq([user : Members, item : Items, rating : Ratings])
  BY DEF LogTyped, VoteLogs
<1>3. cast' = Append(cast, [user |-> u, item |-> i, rating |-> r])
  BY DEF Cast
<1> QED BY <1>1, <1>2, <1>3, Appended DEF VoteLogs

LEMMA LogStays == LogTyped /\ [LogNext]_log => LogTyped'
<1> SUFFICES ASSUME LogTyped, [LogNext]_log PROVE LogTyped'
  OBVIOUS
<1>1. CASE UNCHANGED log
  BY <1>1 DEF log, LogTyped
<1>2. ASSUME NEW u \in Members, NEW i \in Items, NEW r \in VoteRatings, Cast(u, i, r)
      PROVE  LogTyped'
  BY <1>2, CastTyped DEF Cast, LogTyped
<1>3. ASSUME NEW u \in Members, NEW i \in Items, NEW s \in Scores, Recommend(u, i, s)
      PROVE  LogTyped'
  <2>1. [user |-> u, item |-> i, score |-> s] \in [user : Members, item : Items, score : 0..ScoreUnit]
    BY LogAssumption
  <2>2. recommended \in Seq([user : Members, item : Items, score : 0..ScoreUnit])
    BY DEF LogTyped, RecLogs
  <2>3. recommended' = Append(recommended, [user |-> u, item |-> i, score |-> s])
    BY <1>3 DEF Recommend
  <2>4. recommended' \in RecLogs
    BY <2>1, <2>2, <2>3, Appended DEF RecLogs
  <2> QED BY <1>3, <2>4 DEF Recommend, LogTyped
<1>4. ASSUME NEW u \in Members, Leave(u) PROVE LogTyped'
  <2>1. IsFiniteSet(active) /\ Cardinality(active) \in Nat
    BY Headcount DEF LogTyped
  <2>2. Cardinality(active) > 1
    BY <1>4, <2>1, LogAssumption DEF Leave
  <2>3. Cardinality({u}) = 1
    BY FS_Singleton
  <2>4. active # {u}
    BY <2>2, <2>3
  <2> QED BY <1>4, <2>4 DEF Leave, LogTyped
<1> QED BY <1>1, <1>2, <1>3, <1>4 DEF LogNext

LEMMA LogTypedAlways == LogSpec => []LogTyped
<1> QED BY LogStarts, LogStays, PTL DEF LogSpec

\* An item matches exactly if every active member's first vote wants it: in whatever
\* order the votes came and however often they were repeated.
THEOREM MatchesAreWanted == LogSpec => []MatchesAreWantedByAll
<1>1. ASSUME LogTyped PROVE MatchesAreWantedByAll
  <2> USE <1>1 DEF LogTyped
  <2>1. ASSUME NEW i, NEW u
        PROVE  Wants(u, i) <=> u \in DOMAIN RatingsOf(cast, i) /\ RatingsOf(cast, i)[u] = 1
    <3>1. /\ DOMAIN cast = 1..Len(cast) /\ Len(cast) \in Nat
          /\ \A k \in DOMAIN cast :
                cast[k] \in [user : Members, item : Items, rating : Ratings]
      BY EntryOf
    <3>2. ASSUME Wants(u, i)
          PROVE  u \in DOMAIN RatingsOf(cast, i) /\ RatingsOf(cast, i)[u] = 1
      <4>1. PICK k \in DOMAIN cast :
                /\ cast[k] = [user |-> u, item |-> i, rating |-> 1]
                /\ \A n \in 1..(k - 1) : cast[n].user # u \/ cast[n].item # i
        BY <3>2 DEF Wants
      <4>2. k \in Of(cast, i) /\ cast[k].user = u /\ cast[k].rating = 1
        BY <4>1 DEF Of
      <4>3. u \in DOMAIN RatingsOf(cast, i)
        BY <4>2, FirstVote
      <4>4. PICK m \in Of(cast, i) :
                /\ cast[m].user = u /\ RatingsOf(cast, i)[u] = cast[m].rating
                /\ \A n \in Of(cast, i) : cast[n].user = u => m <= n
        BY <4>3, FirstVote
      <4>5. m <= k /\ m \in 1..Len(cast) /\ k \in 1..Len(cast) /\ cast[m].item = i
        BY <3>1, <4>2, <4>4 DEF Of
      <4>6. m \notin 1..(k - 1)
        BY <4>1, <4>4, <4>5
      <4>7. m = k
        BY <4>5, <4>6, <3>1
      <4> QED BY <4>2, <4>3, <4>4, <4>7
    <3>3. ASSUME u \in DOMAIN RatingsOf(cast, i), RatingsOf(cast, i)[u] = 1
          PROVE  Wants(u, i)
      <4>1. PICK m \in Of(cast, i) :
                /\ cast[m].user = u /\ RatingsOf(cast, i)[u] = cast[m].rating
                /\ \A n \in Of(cast, i) : cast[n].user = u => m <= n
        BY <3>3, FirstVote
      <4>2. m \in DOMAIN cast /\ cast[m] = [user |-> u, item |-> i, rating |-> 1]
        BY <3>1, <3>3, <4>1 DEF Of
      <4>3. ASSUME NEW n \in 1..(m - 1) PROVE cast[n].user # u \/ cast[n].item # i
        <5>1. n \in DOMAIN cast /\ ~(m <= n)
          BY <3>1, <4>2
        <5> QED BY <4>1, <5>1 DEF Of
      <4> QED BY <4>2, <4>3 DEF Wants
    <3> QED BY <3>2, <3>3
  <2>2. ASSUME NEW i PROVE i \in Matches <=> i \in Items /\ \A u \in active : Wants(u, i)
    <3>1. i \in Matches <=>
              /\ i \in {cast[k].item : k \in DOMAIN cast}
              /\ \A u \in active : u \in DOMAIN RatingsOf(cast, i) /\ RatingsOf(cast, i)[u] = 1
      BY DEF Matches, Decision, Evaluate, Candidates, IsMatch
    <3>2. ASSUME \A u \in active : Wants(u, i) PROVE i \in {cast[k].item : k \in DOMAIN cast}
      <4>1. PICK u \in active : TRUE
        OBVIOUS
      <4>2. PICK k \in DOMAIN cast : cast[k] = [user |-> u, item |-> i, rating |-> 1]
        BY <3>2, <4>1 DEF Wants
      <4> QED BY <4>2
    <3>3. {cast[k].item : k \in DOMAIN cast} \subseteq Items
      BY EntryOf
    <3> QED BY <2>1, <3>1, <3>2, <3>3
  <2>3. Matches \subseteq Items
    BY CandidatesFinite DEF Matches, Decision, Evaluate
  <2> QED BY <2>2, <2>3 DEF MatchesAreWantedByAll
<1> QED BY <1>1, LogTypedAlways, PTL

\* A higher score for everyone, or more votes than half the members, is a better place.
THEOREM RankingFollows == LogSpec => []RankedByVotesThenScores
<1>1. ASSUME LogTyped PROVE RankedByVotesThenScores
  <2> DEFINE rank == Ranked(cast, recommended, active)
  <2>1. Decision.rankedItems = rank /\ DOMAIN rank = Candidates(cast, active)
    BY DEF Decision, Evaluate, Ranked
  <2>2. ASSUME NEW i \in Candidates(cast, active), NEW j \in Candidates(cast, active),
               Dominates(i, j) \/ Outvotes(i, j)
        PROVE  rank[i] < rank[j]
    <3>1. Higher(FinalScore(cast, recommended, i), FinalScore(cast, recommended, j))
      BY <1>1, <2>2, DominantIsHigher, OutvotedIsLower DEF LogTyped
    <3>2. Of(cast, i) # {} /\ Of(cast, j) # {}
      BY <1>1, CandidatesFinite DEF LogTyped
    <3>3. Precedes(cast, recommended, i, j)
      BY <1>1, <3>1, <3>2, PrecedenceIsOrder DEF LogTyped
    <3> QED BY <1>1, <3>3, PlacesFollow DEF LogTyped
  <2> HIDE DEF rank
  <2> QED BY <2>1, <2>2 DEF RankedByVotesThenScores
<1> QED BY <1>1, LogTypedAlways, PTL

-----------------------------------------------------------------------------
(* Repeated votes.                                                          *)

\* Two logs between which the engine sees no difference.
SameVotes(V, W) ==
    /\ {W[k].item : k \in DOMAIN W} = {V[k].item : k \in DOMAIN V}
    /\ \A j : RatingsOf(W, j) = RatingsOf(V, j)
    /\ \A j : Of(V, j) # {} => Min(Of(W, j)) = Min(Of(V, j))

\* A vote of a user who rated the item already changes no map of the engine.
LEMMA RepeatedVote ==
    ASSUME NEW V \in VoteLogs, NEW W \in VoteLogs, NEW u \in Members, NEW i \in Items,
           NEW m, DOMAIN W = DOMAIN V \cup {m},
           W[m].user = u, W[m].item = i,
           \A k \in DOMAIN V : W[k] = V[k] /\ k \in Nat /\ k < m, m \in Nat,
           NEW p \in DOMAIN V, V[p].user = u, V[p].item = i
    PROVE  SameVotes(V, W)
<1>1. {W[k].item : k \in DOMAIN W} = {V[k].item : k \in DOMAIN V}
  OBVIOUS
<1>2. \A j : Of(W, j) \subseteq Of(V, j) \cup {m} /\ Of(V, j) \subseteq Of(W, j)
  BY DEF Of
<1>3. \A j : \A k \in Of(V, j) : k < m /\ W[k] = V[k]
  BY DEF Of
<1>4. m \notin DOMAIN V
  OBVIOUS
<1>5. ASSUME NEW j, Of(V, j) # {} PROVE Min(Of(W, j)) = Min(Of(V, j))
  <2>1. Of(V, j) \subseteq Nat /\ Of(W, j) \subseteq Nat /\ Of(W, j) # {}
    BY <1>2, <1>5, EntryOf
  <2>2. /\ Min(Of(V, j)) \in Of(V, j) /\ \A n \in Of(V, j) : Min(Of(V, j)) <= n
        /\ Min(Of(W, j)) \in Of(W, j) /\ \A n \in Of(W, j) : Min(Of(W, j)) <= n
    BY <1>5, <2>1, MinIsLeast
  <2>3. Min(Of(V, j)) < m
    BY <1>3, <2>2
  <2>4. Min(Of(W, j)) <= Min(Of(V, j)) /\ Min(Of(W, j)) \in Of(V, j)
    BY <1>2, <2>1, <2>2, <2>3
  <2> QED BY <2>1, <2>2, <2>4
<1>6. ASSUME NEW j PROVE RatingsOf(W, j) = RatingsOf(V, j)
  <2>1. \A w : w \in DOMAIN RatingsOf(W, j) <=> w \in DOMAIN RatingsOf(V, j)
    <3>1. \A w : (\E k \in Of(W, j) : W[k].user = w) <=> (\E k \in Of(V, j) : V[k].user = w)
      BY DEF Of
    <3> QED BY <3>1, FirstVote
  <2>2. ASSUME NEW w \in DOMAIN RatingsOf(V, j)
        PROVE  RatingsOf(W, j)[w] = RatingsOf(V, j)[w]
    <3>1. PICK k \in Of(V, j) :
              /\ V[k].user = w /\ RatingsOf(V, j)[w] = V[k].rating
              /\ \A n \in Of(V, j) : V[n].user = w => k <= n
      BY <2>2, FirstVote
    <3>2. PICK l \in Of(W, j) :
              /\ W[l].user = w /\ RatingsOf(W, j)[w] = W[l].rating
              /\ \A n \in Of(W, j) : W[n].user = w => l <= n
      BY <2>1, <2>2, FirstVote
    <3>3. k \in Nat /\ l \in Nat /\ k < m
      BY <1>3, <3>1, EntryOf
    <3>4. k \in Of(W, j) /\ W[k].user = w
      BY <1>2, <1>3, <3>1
    <3>5. l <= k
      BY <3>2, <3>4
    <3>6. l \in Of(V, j)
      BY <1>2, <3>2, <3>3, <3>5
    <3>7. V[l] = W[l] /\ k <= l
      BY <1>3, <3>1, <3>2, <3>6
    <3>8. k = l
      BY <3>3, <3>5, <3>7
    <3> QED BY <3>1, <3>2, <3>7, <3>8
  <2>3. /\ RatingsOf(W, j) = [w \in DOMAIN RatingsOf(W, j) |-> RatingsOf(W, j)[w]]
        /\ RatingsOf(V, j) = [w \in DOMAIN RatingsOf(V, j) |-> RatingsOf(V, j)[w]]
    BY DEF RatingsOf
  <2>4. DOMAIN RatingsOf(W, j) = DOMAIN RatingsOf(V, j)
    BY <2>1
  <2> QED BY <2>2, <2>3, <2>4
<1> QED BY <1>1, <1>5, <1>6 DEF SameVotes

LEMMA SameDecision ==
    ASSUME NEW V \in VoteLogs, NEW W \in VoteLogs, NEW R, NEW act, SameVotes(V, W)
    PROVE  Evaluate(W, R, act) = Evaluate(V, R, act)
<1>1. Candidates(W, act) = Candidates(V, act)
  <2>1. \A i : i \in Candidates(W, act) <=> i \in Candidates(V, act)
    <3> SUFFICES ASSUME NEW i PROVE i \in Candidates(W, act) <=> i \in Candidates(V, act)
      OBVIOUS
    <3>1. RatingsOf(W, i) = RatingsOf(V, i)
      BY DEF SameVotes
    <3>2. i \in {W[k].item : k \in DOMAIN W} <=> i \in {V[k].item : k \in DOMAIN V}
      BY Zenon DEF SameVotes
    <3> QED BY <3>1, <3>2 DEF Candidates
  <2> QED BY <2>1 DEF Candidates
<1>2. ASSUME NEW j PROVE FinalScore(W, R, j) = FinalScore(V, R, j)
  <2>1. VoteSum(W, j) = VoteSum(V, j)
    BY DEF VoteSum, SameVotes
  <2> QED BY <2>1 DEF FinalScore
<1>3. \A j : IsMatch(W, act, j) <=> IsMatch(V, act, j)
  BY DEF IsMatch, SameVotes
<1>4. \A i, j \in Candidates(V, act) : Precedes(W, R, i, j) <=> Precedes(V, R, i, j)
  BY <1>2, CandidatesFinite DEF Precedes, SameVotes
<1>5. \A i \in Candidates(V, act) :
          {j \in Candidates(W, act) : Precedes(W, R, j, i)}
              = {j \in Candidates(V, act) : Precedes(V, R, j, i)}
  BY <1>1, <1>4
<1>6. Ranked(W, R, act) = Ranked(V, R, act)
  BY <1>1, <1>5 DEF Ranked
<1> QED BY <1>1, <1>3, <1>6 DEF Evaluate

\* A repeated vote changes neither the matches nor the ranking.
THEOREM RevotesIgnored == LogSpec => RevotesChangeNothing
<1>1. ASSUME LogTyped, NEW u \in Members, NEW i \in Items, NEW r \in VoteRatings, Cast(u, i, r),
             NEW p \in DOMAIN cast, cast[p].user = u, cast[p].item = i
      PROVE  Decision' = Decision
  <2> DEFINE e == [user |-> u, item |-> i, rating |-> r]  m == Len(cast) + 1
             W == Append(cast, e)
  <2>1. cast' = W /\ UNCHANGED <<recommended, active>> /\ cast \in VoteLogs /\ W \in VoteLogs
    BY <1>1, CastTyped DEF Cast, LogTyped
  <2>2. /\ cast \in Seq([user : Members, item : Items, rating : Ratings])
        /\ e \in [user : Members, item : Items, rating : Ratings]
    BY <1>1, LogAssumption DEF LogTyped, VoteLogs
  <2>3. /\ DOMAIN W = DOMAIN cast \cup {m} /\ W[m] = e
        /\ \A k \in DOMAIN cast : W[k] = cast[k] /\ k \in Nat /\ k < m
    BY <2>2, Appended
  <2>4. W[m].user = u /\ W[m].item = i /\ m \in Nat
    BY <2>2, <2>3
  <2> HIDE DEF W, m, e
  <2>5. SameVotes(cast, W)
    BY <1>1, <2>1, <2>3, <2>4, RepeatedVote
  <2>6. Evaluate(W, recommended, active) = Evaluate(cast, recommended, active)
    BY <2>1, <2>5, SameDecision
  <2> QED BY <2>1, <2>6 DEF Decision
<1>2. LogTyped /\ [LogNext]_log
          => [\A u \in Members, i \in Items, r \in VoteRatings :
                 Cast(u, i, r) /\ (\E k \in DOMAIN cast : cast[k].user = u /\ cast[k].item = i)
                    => Decision' = Decision]_log
  BY <1>1
<1> QED BY <1>2, LogTypedAlways, PTL DEF LogSpec, RevotesChangeNothing
-----------------------------------------------------------------------------
(* Types, of the votes and of what is announced too.                        *)

\* A set in some order is a sequence of its elements.
LEMMA InOrder ==
    ASSUME NEW S, IsFiniteSet(S)
    PROVE  SetToSeq(S) \in [1..Cardinality(S) -> S]
<1>1. PICK f : f \in Bijection(1..Cardinality(S), S)
  BY FS_CardinalityType DEF ExistsBijection
<1>2. f \in [1..Cardinality(S) -> S] /\ IsInjective(f)
  BY <1>1 DEF Bijection, Injection, IsInjective
<1> QED BY <1>2 DEF SetToSeq

LEMMA VotesTyped ==
    ASSUME NEW u \in Members, NEW ballot \in Ballots
    PROVE  VotesOf(u, ballot) \in Seq([user : Members, item : Items, rating : Ratings])
<1> DEFINE S == {i \in Items : ballot[i] # Unseen}
           rated == SetToSeq(S)
<1>1. IsFiniteSet(S) /\ Cardinality(S) \in Nat
  BY VotingAssumption, FS_Subset, FS_CardinalityType
<1>2. rated \in [1..Cardinality(S) -> S]
  BY <1>1, InOrder
<1>3. \A i \in S : i \in Items /\ ballot[i] \in Ratings
  BY VotingAssumption DEF Ballots
<1>4. VotesOf(u, ballot)
         = [k \in DOMAIN rated |-> [user |-> u, item |-> rated[k], rating |-> ballot[rated[k]]]]
  BY DEF VotesOf
<1> HIDE DEF S, rated
<1>5. VotesOf(u, ballot)
         \in [1..Cardinality(S) -> [user : Members, item : Items, rating : Ratings]]
  BY <1>2, <1>3, <1>4
<1> QED BY <1>1, <1>5, Sequences

\* The next await of a handler, and for whom it asks.
LEMMA AwaitingTyped ==
    ASSUME TypeOK, NEW h \in Handlers, NEW await \in Awaits, NEW S \in SUBSET Members,
           Awaiting(h, await, S)
    PROVE  at' \in [Handlers -> Awaits] /\ recipients' \in [Handlers -> SUBSET Members]
BY DEF TypeOK, Awaiting

LEMMA SizeTyped == Cardinality(Members) \in Nat /\ 0 \in 0..Cardinality(Members)
<1>1. Cardinality(Members) \in Nat
  BY EngineAssumption, FS_CardinalityType
<1> QED BY <1>1

\* No handler is left with the ballot of its member.
LEMMA RecordedTyped ==
    ASSUME TypeOK, NEW u \in Members, Recorded(u)
    PROVE  recording' \subseteq Members /\ snapshot' \in [Members -> 0..Cardinality(Members)]
BY SizeTyped DEF TypeOK, Recorded

\* What is announced is an item that all who are connected want.
LEMMA AnnouncedMatches ==
    ASSUME TypeOK, votes' \in VoteLogs,
           Evaluate(votes', <<>>, connected).matchedItems # {}
    PROVE  LET i == MatchedItem(Evaluate(votes', <<>>, connected))
           IN  /\ i \in Items
               /\ connected \subseteq DOMAIN RatingsOf(votes', i)
               /\ \A w \in connected : RatingsOf(votes', i)[w] = 1
<1> DEFINE decision == Evaluate(votes', <<>>, connected)
           i == MatchedItem(decision)
<1>1. <<>> \in RecLogs
  BY Sequences DEF RecLogs
<1>2. i \in decision.matchedItems
  BY <1>1, MatchedItemMatches
<1>3. i \in Candidates(votes', connected) /\ IsMatch(votes', connected, i)
  BY <1>2 DEF Evaluate
<1>4. /\ \E k \in DOMAIN votes' : votes'[k].item = i
      /\ connected \subseteq DOMAIN RatingsOf(votes', i)
  BY <1>3 DEF Candidates
<1>5. i \in Items
  <2>1. PICK k \in DOMAIN votes' : votes'[k].item = i
    BY <1>4
  <2>2. votes' \in Seq([user : Members, item : Items, rating : Ratings])
    BY DEF VoteLogs
  <2>3. votes'[k] \in [user : Members, item : Items, rating : Ratings]
    BY <2>1, <2>2, Sequences
  <2> QED BY <2>1, <2>3
<1>6. \A w \in connected : RatingsOf(votes', i)[w] = 1
  BY <1>3 DEF IsMatch
<1> QED BY <1>4, <1>5, <1>6

LEMMA VotesStayTyped ==
    ASSUME TypeOK, NEW h \in Handlers, NEW u \in Members, NEW b \in Ballots, EvaluateVote(h, u, b)
    PROVE  votes' \in VoteLogs
<1>1. /\ votes \in Seq([user : Members, item : Items, rating : Ratings])
      /\ VotesOf(u, b) \in Seq([user : Members, item : Items, rating : Ratings])
  BY VotesTyped DEF TypeOK, VoteLogs
<1> QED BY <1>1, Sequences DEF EvaluateVote, VoteLogs

LEMMA TypeVote ==
    ASSUME TypeOK, NEW h \in Handlers, NEW u \in Members, NEW b \in Ballots, EvaluateVote(h, u, b)
    PROVE  TypeOK'
<1>1. /\ UNCHANGED <<cached, connected, hasDeck>> /\ Recorded(u)
      /\ late' = late \cup Lateness(u)
  BY DEF EvaluateVote
<1>2. votes' \in VoteLogs
  BY VotesStayTyped
<1>3. late' \subseteq {"left", "ended"}
  BY <1>1 DEF Lateness, TypeOK
<1>4. /\ rounds' \in 0..MaxRounds /\ size' \in 0..Cardinality(Members)
      /\ results' \in Seq(Members)
  <2>1. CASE JoinRound(u)
    BY <2>1 DEF JoinRound, TypeOK
  <2>2. CASE OpenRound(u)
    <3>1. rounds < MaxRounds /\ rounds' = rounds + 1 /\ size' = snapshot[u] /\ results' = <<u>>
      BY <2>2 DEF OpenRound
    <3>2. rounds' \in 0..MaxRounds
      BY <3>1, VotingAssumption DEF TypeOK
    <3>3. size' \in 0..Cardinality(Members)
      BY <3>1 DEF TypeOK
    <3>4. results' \in Seq(Members)
      BY <3>1, OneBallot
    <3> QED BY <3>2, <3>3, <3>4
  <2> QED BY <2>1, <2>2 DEF EvaluateVote
<1>5. /\ pending' \in BOOLEAN /\ at' \in [Handlers -> Awaits]
      /\ recipients' \in [Handlers -> SUBSET Members]
      /\ announced' \in Seq(Items)
  <2>1. CASE Resolve(h)
    <3> DEFINE decision == Evaluate(votes', <<>>, connected)
    <3>1. CASE decision.matchedItems # {}
      <4>1. /\ announced' = Append(announced, MatchedItem(decision))
            /\ pending' = FALSE /\ Awaiting(h, "storeMatch", {})
        BY <2>1, <3>1 DEF Resolve
      <4>2. MatchedItem(decision) \in Items
        BY <1>2, <3>1, AnnouncedMatches
      <4>3. announced' \in Seq(Items)
        BY <4>1, <4>2, Sequences DEF TypeOK
      <4>4. "storeMatch" \in Awaits /\ {} \in SUBSET Members
        BY DEF Awaits
      <4> QED BY <4>1, <4>3, <4>4, AwaitingTyped
    <3>2. CASE decision.matchedItems = {}
      <4>1. /\ pending' = TRUE /\ UNCHANGED announced
            /\ \E users \in {connected, ToSet(results')} : Awaiting(h, "requestNextData", users)
        BY <2>1, <3>2 DEF Resolve
      <4>2. connected \in SUBSET Members /\ ToSet(results') \in SUBSET Members
        BY <1>4, VotersAreMembers DEF TypeOK
      <4>3. "requestNextData" \in Awaits
        BY DEF Awaits
      <4>4. at' \in [Handlers -> Awaits] /\ recipients' \in [Handlers -> SUBSET Members]
        BY <4>1, <4>2, <4>3, AwaitingTyped
      <4> QED BY <4>1, <4>4 DEF TypeOK
    <3> QED BY <3>1, <3>2
  <2>2. CASE pending' = TRUE /\ UNCHANGED <<at, recipients, announced>>
    BY <2>2 DEF TypeOK
  <2> QED BY <2>1, <2>2 DEF EvaluateVote
<1> QED BY <1>1, <1>2, <1>3, <1>4, <1>5, RecordedTyped DEF TypeOK

LEMMA TypeFinishDeck == ASSUME TypeOK, NEW u \in Members, FinishDeck(u) PROVE TypeOK'
<1>1. /\ hasDeck' = hasDeck \ {u} /\ recording' = recording \cup {u}
      /\ snapshot' = [snapshot EXCEPT ![u] = Cardinality(connected)]
      /\ UNCHANGED <<cached, connected, round, at, recipients, announced, late>>
  BY DEF FinishDeck
<1>2. Cardinality(connected) \in Nat /\ Cardinality(connected) <= Cardinality(Members)
  BY EngineAssumption, FS_Subset, FS_CardinalityType DEF TypeOK
<1>3. Cardinality(connected) \in 0..Cardinality(Members)
  BY <1>2, SizeTyped
<1>4. snapshot' \in [Members -> 0..Cardinality(Members)]
  BY <1>1, <1>3 DEF TypeOK
<1>5. hasDeck' \subseteq Members /\ recording' \subseteq Members
  BY <1>1 DEF TypeOK
<1> QED BY <1>1, <1>4, <1>5 DEF TypeOK, round

LEMMA TypeHandler ==
    ASSUME TypeOK, NEW h \in Handlers,
           \/ Handler(h) \/ TerminateSession(h)
           \/ \E u \in Members : Disconnect(h, u) \/ VoteFails(h, u)
    PROVE  TypeOK'
<1>1. ASSUME Ends(h) PROVE at' \in [Handlers -> Awaits] /\ recipients' \in [Handlers -> SUBSET Members]
  BY <1>1, AwaitingTyped DEF Ends, Awaits
<1>2. ASSUME Terminate(h)
      PROVE  /\ at' \in [Handlers -> Awaits] /\ recipients' \in [Handlers -> SUBSET Members]
             /\ cached' \in BOOLEAN
  <2>1. "writeBroken" \in Awaits /\ {} \in SUBSET Members
    BY DEF Awaits
  <2>2. CASE cached
    BY <1>2, <2>1, <2>2, AwaitingTyped DEF Terminate
  <2>3. CASE ~cached
    BY <1>1, <1>2, <2>3 DEF Terminate, TypeOK
  <2> QED BY <2>2, <2>3
<1>3. CASE NextData(h)
  <2>1. hasDeck' \subseteq Members
    BY <1>3 DEF NextData, TypeOK
  <2> QED BY <1>1, <1>3, <2>1 DEF NextData, inHand, TypeOK
<1>4. CASE NextDataRefused(h)
  BY <1>1, <1>4 DEF NextDataRefused, round, inHand, TypeOK
<1>5. CASE ResolutionFails(h)
  BY <1>2, <1>5 DEF ResolutionFails, round, inHand, TypeOK
<1>6. CASE EndSessionWithMatch(h)
  BY <1>1, <1>6 DEF EndSessionWithMatch, round, inHand, TypeOK
<1>7. CASE ClearAllSessionData(h)
  <2>1. /\ 0 \in 0..MaxRounds /\ 0 \in 0..Cardinality(Members) /\ <<>> \in Seq(Members)
        /\ <<>> \in Seq([user : Members, item : Items, rating : Ratings])
    BY SizeTyped, VotingAssumption, Sequences
  <2> QED BY <1>1, <1>7, <2>1 DEF ClearAllSessionData, inHand, TypeOK, VoteLogs
<1>8. CASE Disconnected(h)
  BY <1>1, <1>2, <1>8 DEF Disconnected, round, inHand, TypeOK
<1>9. CASE TerminateSession(h)
  BY <1>2, <1>9 DEF TerminateSession, round, inHand, TypeOK
<1>10. ASSUME NEW u \in Members, Disconnect(h, u) PROVE TypeOK'
  <2>1. at' \in [Handlers -> Awaits] /\ recipients' \in [Handlers -> SUBSET Members]
    BY <1>10, AwaitingTyped DEF Disconnect, Awaits
  <2> QED BY <1>10, <2>1 DEF Disconnect, round, inHand, TypeOK
<1>11. ASSUME NEW u \in Members, VoteFails(h, u) PROVE TypeOK'
  BY <1>2, <1>11, RecordedTyped DEF VoteFails, round, TypeOK
<1> QED BY <1>3, <1>4, <1>5, <1>6, <1>7, <1>8, <1>9, <1>10, <1>11 DEF Handler

\* The variables keep their types, whenever ballots are counted: a round's size is that of
\* some snapshot, and what is announced, however often, is an item.
THEOREM TypeCorrect == Spec => []TypeOK
<1>1. Init => TypeOK
  <2> SUFFICES ASSUME Init PROVE TypeOK
    OBVIOUS
  <2>1. /\ 0 \in 0..MaxRounds /\ 0 \in 0..Cardinality(Members) /\ <<>> \in Seq(Members)
        /\ <<>> \in Seq([user : Members, item : Items, rating : Ratings]) /\ <<>> \in Seq(Items)
    BY SizeTyped, VotingAssumption, Sequences
  <2>2. /\ at \in [Handlers -> Awaits] /\ recipients \in [Handlers -> SUBSET Members]
        /\ connected \subseteq Members /\ hasDeck \subseteq Members
        /\ cached \in BOOLEAN /\ pending \in BOOLEAN
    BY DEF Init, Awaits
  <2>3. recording \subseteq Members /\ snapshot \in [Members -> 0..Cardinality(Members)]
    BY <2>1 DEF Init
  <2> QED BY <2>1, <2>2, <2>3 DEF Init, TypeOK, VoteLogs
<1>2. TypeOK /\ UNCHANGED vars => TypeOK'
  BY DEF vars, round, inHand, TypeOK
<1>3. TypeOK /\ [Next]_vars => TypeOK'
  BY <1>2, TypeVote, TypeFinishDeck, TypeHandler DEF Next, Vote
<1> QED BY <1>1, <1>3, PTL DEF Spec

-----------------------------------------------------------------------------
(* The winner.                                                              *)

\* Until the ballot of a member who had left is counted, whatever is announced has the
\* vote of the member whose ballot completed the round, and of all who are connected.
THEOREM WinnerLiked == Spec => WinnerIsLiked
<1> DEFINE A == Len(announced') > Len(announced) /\ "left" \notin late'
                   => LET rating == RatingsOf(votes', announced'[Len(announced')])
                      IN  \E u \in connected : u \in DOMAIN rating /\ rating[u] = 1
<1>1. ASSUME TypeOK, NEW h \in Handlers, NEW u \in Members, NEW b \in Ballots,
             EvaluateVote(h, u, b), Len(announced') > Len(announced), "left" \notin late'
      PROVE  LET rating == RatingsOf(votes', announced'[Len(announced')])
             IN  \E w \in connected : w \in DOMAIN rating /\ rating[w] = 1
  <2> DEFINE decision == Evaluate(votes', <<>>, connected)
             i == MatchedItem(decision)
  <2>1. u \in connected
    BY <1>1, NotLate
  <2>2. announced \in Seq(Items) /\ Len(announced) \in Nat
    BY <1>1 DEF TypeOK
  <2>3. announced' # announced
    BY <1>1, <2>2
  <2>4. decision.matchedItems # {} /\ announced' = Append(announced, i)
    BY <1>1, <2>3 DEF EvaluateVote, Resolve
  <2>5. votes' \in VoteLogs
    BY <1>1, VotesStayTyped
  <2>6. /\ i \in Items /\ connected \subseteq DOMAIN RatingsOf(votes', i)
        /\ \A w \in connected : RatingsOf(votes', i)[w] = 1
    BY <1>1, <2>4, <2>5, AnnouncedMatches
  <2>7. announced'[Len(announced')] = i
    <3> HIDE DEF i
    <3> QED BY <2>2, <2>4, <2>6
  <2> QED BY <2>1, <2>6, <2>7
<1>2. ASSUME TypeOK, NEW h \in Handlers,
             \/ Handler(h) \/ TerminateSession(h)
             \/ \E u \in Members : Disconnect(h, u) \/ VoteFails(h, u)
      PROVE  UNCHANGED announced
  BY <1>2 DEF Handler, NextData, NextDataRefused, ResolutionFails, EndSessionWithMatch,
     ClearAllSessionData, Disconnected, TerminateSession, Disconnect, VoteFails
<1>3. ASSUME TypeOK, UNCHANGED announced PROVE ~(Len(announced') > Len(announced))
  BY <1>3 DEF TypeOK
<1>4. ASSUME NEW u \in Members, FinishDeck(u) PROVE UNCHANGED announced
  BY <1>4 DEF FinishDeck
<1>5. TypeOK /\ [Next]_vars => [A]_vars
  BY <1>1, <1>2, <1>3, <1>4 DEF Next, Vote
<1> QED BY <1>5, TypeCorrect, PTL DEF Spec, WinnerIsLiked
=============================================================================
