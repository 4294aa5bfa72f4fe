------------------------ MODULE GroupRecommender_proofs ------------------------
(* Type correctness of GroupRecommender; that decks repeat nothing, that      *)
(* everybody is served and that the group model follows the members; and that *)
(* nobody is asked twice and what is liked reaches everybody: for any group,  *)
(* catalogue, rankings and deck sizes.                                        *)
EXTENDS GroupRecommender, FiniteSetTheorems, TLAPS

Nested(S, T) == S \subseteq T \/ T \subseteq S

\* A session that goes on has two members.
RoundInv ==
    /\ size = 0 => DOMAIN ballots = {}
    /\ phase = "resolving" => requests < MaxRequests
    /\ phase # "over" => Cardinality(connected) >= 2

\* Nobody joins a running session: of the members of two requests, answered or not,
\* one set holds the other, and both hold those who are still there.
RecordInv ==
    phase # "over" =>
        /\ \A n \in DOMAIN asked :
              /\ connected \subseteq asked[n].users
              /\ \A m \in DOMAIN asked : Nested(asked[n].users, asked[m].users)
        /\ hasRecord =>
              /\ record.round > 0
              /\ record.tracked \subseteq Members /\ connected \subseteq record.tracked
              /\ \A n \in DOMAIN asked : Nested(asked[n].users, record.tracked)

\* Only items that were voted on wait in a queue.
QueuesVoted(r) == \A u \in DOMAIN r.queue : r.queue[u] \subseteq r.voted

IInv == TypeOK /\ RoundInv /\ RecordInv /\ QueuesVoted(record) /\ DecksRepeatNothing

\* There were k members, all of S among them.
WaitsFor(k, S) == \E T \in SUBSET Members : Cardinality(T) = k /\ S \subseteq T

\* As long as no ballot came late: a round waits for the ballots of the members there
\* were when the first of them was sent; who has sent a ballot has no deck; and while
\* a request is answered nobody has anything left to send.
InTime ==
    /\ \A v \in DOMAIN inHand :
          deck[v] = NoDeck /\ v \notin holding /\ WaitsFor(inHand[v].size, connected)
    /\ \A v \in DOMAIN ballots : deck[v] = NoDeck /\ v \notin holding /\ v \notin DOMAIN inHand
    /\ size # 0 => WaitsFor(size, connected \cup DOMAIN ballots)
    /\ phase = "resolving" =>
          size # 0 /\ size <= Cardinality(DOMAIN ballots) /\ DOMAIN asked = {}
    /\ \A n \in DOMAIN asked :
          /\ asked[n].votes = ballots /\ connected \subseteq DOMAIN ballots
          /\ \A m \in DOMAIN asked : m = n

\* EverybodyServed is a part of it.
ServedInv == EverybodyServed /\ (~late => InTime)

-----------------------------------------------------------------------------
(* The record. *)

LEMMA RatedItems ==
    ASSUME NEW bs, AreBallots(bs)
    PROVE  /\ AllRated(bs) \subseteq Items /\ AllLiked(bs) \subseteq AllRated(bs)
           /\ AreBallots(OnlyUnique(bs))
           /\ AllRated(OnlyUnique(bs)) \subseteq AllRated(bs)
<1>1. \A v \in DOMAIN bs : /\ bs[v].liked \subseteq Items /\ bs[v].other \subseteq Items
                           /\ bs[v].liked \subseteq Rated(bs[v])
                           /\ Rated(bs[v]) \subseteq Items
  BY DEF AreBallots, Opinions, Rated
<1>2. AllRated(bs) \subseteq Items /\ AllLiked(bs) \subseteq AllRated(bs)
  BY <1>1 DEF AllRated, AllLiked
<1>3. AreBallots(OnlyUnique(bs))
  BY <1>1 DEF AreBallots, OnlyUnique, Opinions
<1>4. DOMAIN OnlyUnique(bs) = DOMAIN bs
  BY DEF OnlyUnique
<1>5. \A v \in DOMAIN bs : Rated(OnlyUnique(bs)[v]) \subseteq Rated(bs[v])
  BY DEF OnlyUnique, Rated
<1> QED BY <1>2, <1>3, <1>4, <1>5 DEF AllRated

LEMMA RecordFields ==
    ASSUME NEW r \in Records
    PROVE  /\ r.round \in Nat /\ r.users \in SUBSET Members
           /\ r.tracked \in SUBSET (Members \cup {Nobody})
           /\ DOMAIN r.queue \subseteq Members /\ r.queue \in [DOMAIN r.queue -> SUBSET Items]
           /\ r.seen \in [Members -> SUBSET Items] /\ r.fans \in [Items -> SUBSET Members]
           /\ r.voted \in SUBSET Items
<1>1. PICK S \in SUBSET Members : r.queue \in [S -> SUBSET Items]
  BY DEF Records
<1> QED BY <1>1 DEF Records

LEMMA NewRecords ==
    ASSUME NEW q, q.users \subseteq Members
    PROVE  /\ NoRecord \in Records /\ InitNewSession(q) \in Records
           /\ NoRecord.round = 0 /\ DOMAIN NoRecord.queue = {}
           /\ InitNewSession(q).round = 0 /\ InitNewSession(q).users = q.users
           /\ InitNewSession(q).tracked \in {{Nobody}, q.users}
           /\ QueuesVoted(NoRecord) /\ QueuesVoted(InitNewSession(q))
<1>1. NoRecord \in Records /\ QueuesVoted(NoRecord)
  <2>1. [u \in {} |-> {}] \in UNION {[S -> SUBSET Items] : S \in SUBSET Members}
    <3>1. [u \in {} |-> {}] \in [{} -> SUBSET Items]
      OBVIOUS
    <3> QED BY <3>1
  <2>2. /\ [u \in Members |-> {}] \in [Members -> SUBSET Items]
        /\ [i \in Items |-> {}] \in [Items -> SUBSET Members]
        /\ 0 \in Nat
    OBVIOUS
  <2> QED BY <2>1, <2>2 DEF NoRecord, Records, QueuesVoted
<1>2. PICK U : U = q.users
  OBVIOUS
<1>3. [u \in U |-> {}] \in UNION {[S -> SUBSET Items] : S \in SUBSET Members}
  <2>1. [u \in U |-> {}] \in [U -> SUBSET Items]
    OBVIOUS
  <2> QED BY <1>2, <2>1
<1>4. ASSUME NEW tracked \in SUBSET (Members \cup {Nobody})
      PROVE  /\ NewRecord(q, tracked) \in Records /\ NewRecord(q, tracked).round = 0
             /\ NewRecord(q, tracked).users = q.users
             /\ NewRecord(q, tracked).tracked = tracked
             /\ QueuesVoted(NewRecord(q, tracked))
  BY <1>1, <1>2, <1>3 DEF NewRecord, Records, QueuesVoted, NoRecord
<1>5. InitNewSession(q) \in {NewRecord(q, {Nobody}), NewRecord(q, q.users)}
  BY DEF InitNewSession, MovieRecord, RestaurantRecord
<1> QED BY <1>1, <1>4, <1>5 DEF NoRecord, QueuesVoted

\* What a request does to the record before anything is recommended.
LEMMA GroupDataUpdated ==
    ASSUME NEW r \in Records, NEW q, AreBallots(q.votes), q.users \subseteq Members
    PROVE  LET s == UpdateGroupData(r, q)
           IN  /\ s \in Records /\ s.round = r.round /\ s.queue = r.queue
               /\ s.users = IF activity = "MOVIE" THEN q.users ELSE r.users
               /\ s.tracked = UpdateSessionUsers(q.users, r.tracked)
               /\ AllRated(q.votes) \subseteq s.voted
               /\ QueuesVoted(r) => QueuesVoted(s)
<1>1. AllRated(q.votes) \subseteq Items
  BY RatedItems
<1>2. UpdateSessionUsers(q.users, r.tracked) \in SUBSET (Members \cup {Nobody})
  BY RecordFields DEF UpdateSessionUsers
<1>3. /\ UpdateGroupData(r, q) \in Records
      /\ UpdateGroupData(r, q).round = r.round /\ UpdateGroupData(r, q).queue = r.queue
      /\ UpdateGroupData(r, q).users = IF activity = "MOVIE" THEN q.users ELSE r.users
      /\ UpdateGroupData(r, q).tracked = UpdateSessionUsers(q.users, r.tracked)
      /\ UpdateGroupData(r, q).voted = r.voted \cup AllRated(q.votes)
  BY <1>1, <1>2 DEF Records, UpdateGroupData
<1> QED BY <1>3 DEF QueuesVoted

LEMMA VotedItemsUpdated ==
    ASSUME NEW r \in Records, NEW bs, AreBallots(bs), AllRated(bs) \subseteq r.voted,
           QueuesVoted(r)
    PROVE  LET s == UpdateVotedItems(r, bs)
           IN  /\ s \in Records /\ s.round = r.round /\ s.users = r.users
               /\ s.tracked = r.tracked /\ s.voted = r.voted
               /\ DOMAIN s.queue = DOMAIN r.queue
               /\ QueuesVoted(s)
<1> DEFINE D == DOMAIN r.queue
           q == [u \in D |-> IF u \in DOMAIN bs THEN Refilled(r.queue[u], u, SeenAfter(r, bs), bs)
                             ELSE r.queue[u]]
<1>1. /\ AllLiked(bs) \subseteq AllRated(bs) /\ AllRated(bs) \subseteq Items
      /\ \A v \in DOMAIN bs : Rated(bs[v]) \subseteq Items
  BY RatedItems DEF AreBallots, Opinions, Rated
<1>2. SeenAfter(r, bs) \in [Members -> SUBSET Items]
  BY <1>1, RecordFields DEF SeenAfter
<1>3. FansAfter(r, bs) \in [Items -> SUBSET Members]
  BY RecordFields DEF FansAfter, AreBallots
<1>4. \A u \in D : q[u] \subseteq r.voted /\ q[u] \subseteq Items
  BY <1>1, RecordFields DEF Refilled, QueuesVoted
<1>5. q \in UNION {[S -> SUBSET Items] : S \in SUBSET Members}
  <2>1. q \in [D -> SUBSET Items] /\ D \in SUBSET Members
    BY <1>4, RecordFields
  <2> QED BY <2>1
<1>6. UpdateVotedItems(r, bs) = [r EXCEPT !.seen = SeenAfter(r, bs), !.fans = FansAfter(r, bs),
                                          !.queue = q]
  BY DEF UpdateVotedItems
<1>7. DOMAIN q = D
  OBVIOUS
<1> HIDE DEF q
<1>8. /\ UpdateVotedItems(r, bs) \in Records
      /\ UpdateVotedItems(r, bs).round = r.round /\ UpdateVotedItems(r, bs).users = r.users
      /\ UpdateVotedItems(r, bs).tracked = r.tracked /\ UpdateVotedItems(r, bs).voted = r.voted
      /\ UpdateVotedItems(r, bs).queue = q
  BY <1>2, <1>3, <1>5, <1>6 DEF Records
<1> QED BY <1>4, <1>7, <1>8 DEF QueuesVoted

LEMMA Redistributed ==
    ASSUME NEW r \in Records, NEW votes, AreBallots(votes), AllRated(votes) \subseteq r.voted,
           QueuesVoted(r)
    PROVE  LET s == Redistribute(r, votes)
           IN  /\ s \in Records /\ s.round = r.round /\ s.users = r.users
               /\ s.tracked = r.tracked /\ s.voted = r.voted
               /\ DOMAIN s.queue = DOMAIN r.queue
               /\ QueuesVoted(s)
<1>1. AreBallots(OnlyUnique(votes)) /\ AllRated(OnlyUnique(votes)) \subseteq r.voted
  BY RatedItems
<1>2. Redistribute(r, votes) \in {r, UpdateVotedItems(r, OnlyUnique(votes)),
                                  UpdateVotedItems(r, votes)}
  BY DEF Redistribute
<1> QED BY <1>1, <1>2, VotedItemsUpdated

-----------------------------------------------------------------------------
(* The decks. *)

\* What is recommended afresh has not been voted on.
LEMMA FreshItems ==
    ASSUME NEW r, NEW u, NEW k, NEW more
    PROVE  /\ \A top \in GroupTopK(r, k) : top \subseteq Items \ r.voted
           /\ \A top \in IndividualTopK(r, u, k, more) : top \subseteq Items \ r.voted
<1>1. ASSUME NEW S, NEW top \in FirstOf(k, S) PROVE top \subseteq S
  BY DEF FirstOf, Top
<1>2. NotExcluded(r, more) \subseteq Items \ r.voted /\ NotExcluded(r, {}) \subseteq Items \ r.voted
  BY DEF NotExcluded
<1> QED BY <1>1, <1>2 DEF GroupTopK, IndividualTopK

LEMMA DecksMade ==
    ASSUME NEW r \in Records, NEW votes, QueuesVoted(r), ~RaisesKeyError(r, votes),
           NEW decks \in Recommendations(r, votes),
           <<activity, method>> \in Kinds
    PROVE  /\ DOMAIN decks = IF method = "HYBRID" /\ r.round = 0 THEN r.users
                             ELSE DOMAIN votes
           /\ \A u \in DOMAIN decks : /\ decks[u] \in Decks
                                      /\ decks[u].fresh \cap decks[u].again = {}
                                      /\ decks[u].fresh \cap r.voted = {}
                                      /\ \/ decks[u].again = {}
                                         \/ u \in DOMAIN r.queue /\ decks[u].again \subseteq r.queue[u]
<1>1. CASE method = "SYNC"
  <2>1. PICK common \in GroupTopK(r, Window) :
          decks = [u \in DOMAIN votes |-> [fresh |-> common, again |-> {}]]
    BY <1>1 DEF Recommendations, SyncRound
  <2>2. common \subseteq Items \ r.voted
    BY FreshItems
  <2> QED BY <1>1, <2>1, <2>2 DEF Decks
<1>2. CASE method = "HYBRID" /\ r.round = 0
  <2>1. PICK common \in GroupTopK(r, Shared) :
          decks \in {ds \in [r.users -> UNION {FirstDecks(r, u, common) : u \in r.users}] :
                        \A u \in r.users : ds[u] \in FirstDecks(r, u, common)}
    BY <1>2 DEF Recommendations, FirstRound
  <2>2. DOMAIN decks = r.users /\ \A u \in r.users : decks[u] \in FirstDecks(r, u, common)
    BY <2>1
  <2>3. ASSUME NEW u \in r.users
        PROVE  /\ decks[u] \in Decks /\ decks[u].again = {}
               /\ decks[u].fresh \cap r.voted = {}
    <3>1. PICK own \in IndividualTopK(r, u, Window - Shared, common) :
            decks[u] = [fresh |-> common \cup own, again |-> {}]
      BY <2>2 DEF FirstDecks
    <3>2. common \subseteq Items \ r.voted /\ own \subseteq Items \ r.voted
      BY FreshItems
    <3> QED BY <3>1, <3>2 DEF Decks
  <2> QED BY <1>2, <2>2, <2>3
<1>3. CASE method # "SYNC" /\ ~(method = "HYBRID" /\ r.round = 0)
  <2>1. decks \in {ds \in [DOMAIN votes -> UNION {NextDecks(r, u) : u \in DOMAIN votes}] :
                      \A u \in DOMAIN votes : ds[u] \in NextDecks(r, u)}
    BY <1>3 DEF Recommendations, NextRound, NextRoundOf
  <2>2. DOMAIN decks = DOMAIN votes /\ \A u \in DOMAIN votes : decks[u] \in NextDecks(r, u)
    BY <2>1
  <2>3. DOMAIN votes \subseteq DOMAIN r.queue
    <3>1. method \in {"HYBRID", "ASYNC", "SYNC"}
      BY RecommenderAssumption
    <3>2. r.round \in Nat
      BY RecordFields
    <3> QED BY <1>3, <3>1, <3>2 DEF RaisesKeyError, Unknown
  <2>4. ASSUME NEW u \in DOMAIN votes
        PROVE  /\ decks[u] \in Decks /\ decks[u].fresh \cap decks[u].again = {}
               /\ decks[u].fresh \cap r.voted = {}
               /\ decks[u].again \subseteq r.queue[u]
    <3>1. PICK own \in IndividualTopK(r, u, Window - RedistributedSize(r, u), {}),
               popped \in Popped(r, u) : decks[u] = [fresh |-> own, again |-> popped]
      BY <2>2 DEF NextDecks
    <3>2. own \subseteq Items \ r.voted
      BY FreshItems
    <3>3. popped \subseteq r.queue[u]
      BY DEF Popped, kSubset
    <3>4. r.queue[u] \subseteq r.voted /\ r.queue[u] \subseteq Items
      BY <2>3, RecordFields DEF QueuesVoted
    <3> QED BY <3>1, <3>2, <3>3, <3>4 DEF Decks
  <2> QED BY <1>3, <2>2, <2>3, <2>4
<1> QED BY <1>1, <1>2, <1>3

LEMMA AfterRoundRecord ==
    ASSUME NEW r \in Records, NEW decks, QueuesVoted(r)
    PROVE  LET s == AfterRound(r, decks)
           IN  /\ s \in Records /\ s.round = r.round + 1 /\ s.tracked = r.tracked
               /\ s.voted = r.voted /\ s.seen = r.seen /\ s.fans = r.fans
               /\ DOMAIN s.queue = DOMAIN r.queue
               /\ \A u \in DOMAIN r.queue :
                     s.queue[u] = IF u \in DOMAIN decks THEN r.queue[u] \ decks[u].again
                                  ELSE r.queue[u]
               /\ QueuesVoted(s)
<1> DEFINE D == DOMAIN r.queue
           q == [u \in D |-> IF u \in DOMAIN decks THEN r.queue[u] \ decks[u].again
                             ELSE r.queue[u]]
<1>1. \A u \in D : q[u] \subseteq r.queue[u]
  OBVIOUS
<1>2. \A u \in D : q[u] \subseteq r.voted /\ q[u] \subseteq Items
  BY <1>1, RecordFields DEF QueuesVoted
<1>3. q \in UNION {[S -> SUBSET Items] : S \in SUBSET Members}
  <2>1. q \in [D -> SUBSET Items] /\ D \in SUBSET Members
    BY <1>2, RecordFields
  <2> QED BY <2>1
<1>4. AfterRound(r, decks) = [r EXCEPT !.round = r.round + 1, !.queue = q]
  BY DEF AfterRound
<1>5. /\ DOMAIN q = D
      /\ \A u \in D : q[u] = IF u \in DOMAIN decks THEN r.queue[u] \ decks[u].again
                              ELSE r.queue[u]
  OBVIOUS
<1>6. r.round + 1 \in Nat
  BY RecordFields
<1> HIDE DEF q
<1>7. /\ AfterRound(r, decks) \in Records /\ AfterRound(r, decks).round = r.round + 1
      /\ AfterRound(r, decks).tracked = r.tracked /\ AfterRound(r, decks).voted = r.voted
      /\ AfterRound(r, decks).seen = r.seen /\ AfterRound(r, decks).fans = r.fans
      /\ AfterRound(r, decks).queue = q
  BY <1>3, <1>4, <1>6 DEF Records
<1> QED BY <1>2, <1>5, <1>7 DEF QueuesVoted

-----------------------------------------------------------------------------
(* The record and the request. *)

LEMMA RequestTyped ==
    ASSUME TypeOK, NEW n \in DOMAIN asked
    PROVE  /\ asked[n].users \subseteq Members /\ AreBallots(asked[n].votes)
           /\ n \in Nat /\ n <= requests
BY RecommenderAssumption DEF TypeOK

\* The record a request works with: the one there is, or a new one.
LEMMA RecordAsked ==
    ASSUME IInv, phase = "voting", NEW n \in DOMAIN asked,
           NEW q, q = asked[n]
    PROVE  /\ EnsureInitialized(q) \in Records /\ QueuesVoted(EnsureInitialized(q))
           /\ EnsureInitialized(q).round = record.round
           /\ EnsureInitialized(q).round = 0 => EnsureInitialized(q).users = q.users
           /\ UpdateSessionUsers(q.users, EnsureInitialized(q).tracked) = q.users
<1> USE DEF IInv
<1>0. q.users \subseteq Members /\ connected \subseteq q.users
  BY RequestTyped DEF RecordInv
<1>1. /\ NoRecord.round = 0 /\ InitNewSession(q) \in Records /\ QueuesVoted(InitNewSession(q))
      /\ InitNewSession(q).round = 0 /\ InitNewSession(q).users = q.users
      /\ InitNewSession(q).tracked \in {{Nobody}, q.users}
  BY <1>0, NewRecords
<1>2. CASE hasRecord
  <2>1. EnsureInitialized(q) = record
    BY <1>2 DEF EnsureInitialized
  <2>2. ASSUME Cardinality(q.users) = Cardinality(record.tracked)
        PROVE  q.users = record.tracked
    <3>1. record.tracked \subseteq Members /\ Nested(q.users, record.tracked)
      BY <1>2 DEF RecordInv
    <3>2. IsFiniteSet(record.tracked) /\ IsFiniteSet(q.users)
      BY <1>0, <3>1, FS_Subset, RecommenderAssumption
    <3> QED BY <2>2, <3>1, <3>2, FS_Subset DEF Nested
  <2> QED BY <1>2, <2>1, <2>2 DEF TypeOK, RecordInv, UpdateSessionUsers
<1>3. CASE ~hasRecord
  <2>1. EnsureInitialized(q) = InitNewSession(q) /\ record = NoRecord
    BY <1>3 DEF EnsureInitialized, TypeOK
  <2>2. UpdateSessionUsers(q.users, {Nobody}) = q.users
    <3>1. Cardinality({Nobody}) = 1
      BY FS_Singleton
    <3>2. /\ IsFiniteSet(q.users) /\ Cardinality(connected) <= Cardinality(q.users)
          /\ Cardinality(connected) \in Nat /\ Cardinality(q.users) \in Nat
          /\ Cardinality(connected) >= 2
      BY <1>0, FS_Subset, FS_CardinalityType, RecommenderAssumption DEF RoundInv
    <3> QED BY <3>1, <3>2 DEF UpdateSessionUsers
  <2>3. UpdateSessionUsers(q.users, q.users) = q.users
    BY DEF UpdateSessionUsers
  <2> QED BY <1>1, <2>1, <2>2, <2>3
<1> QED BY <1>2, <1>3

\* What an answered request leaves.
LEMMA RequestAnswered ==
    ASSUME IInv, NEW n \in DOMAIN asked, RecommendNext(n), NEW q, q = asked[n]
    PROVE  \E s, decks :
              /\ s = Redistribute(UpdateGroupData(EnsureInitialized(q), q), q.votes)
              /\ s \in Records /\ QueuesVoted(s) /\ s.round = record.round
              /\ Deal(decks) /\ record' = AfterRound(s, decks)
              /\ DOMAIN decks \in {q.users, DOMAIN q.votes}
              /\ \A u \in DOMAIN decks :
                    /\ decks[u] \in Decks
                    /\ decks[u].fresh \cap decks[u].again = {}
                    /\ decks[u].fresh \cap s.voted = {}
                    /\ \/ decks[u].again = {}
                       \/ u \in DOMAIN s.queue /\ decks[u].again \subseteq s.queue[u]
              /\ record' \in Records /\ QueuesVoted(record')
              /\ record'.round = record.round + 1 /\ record'.tracked = q.users
<1> DEFINE R0 == EnsureInitialized(q)
<1>1. /\ R0 \in Records /\ QueuesVoted(R0) /\ R0.round = record.round
      /\ R0.round = 0 => R0.users = q.users
      /\ UpdateSessionUsers(q.users, R0.tracked) = q.users
  BY RecordAsked DEF RecommendNext
<1>2. /\ AreBallots(q.votes) /\ q.users \subseteq Members
      /\ <<activity, method>> \in Kinds
  BY RequestTyped DEF IInv, TypeOK
<1>3. PICK r : /\ r = UpdateGroupData(R0, q) /\ ~RaisesKeyError(r, q.votes)
               /\ \E decks \in Recommendations(Redistribute(r, q.votes), q.votes) :
                     Deal(decks) /\ record' = AfterRound(Redistribute(r, q.votes), decks)
  BY DEF RecommendNext
<1>4. /\ r \in Records /\ r.round = record.round /\ r.queue = R0.queue
      /\ r.round = 0 => r.users = q.users
      /\ r.tracked = q.users /\ AllRated(q.votes) \subseteq r.voted /\ QueuesVoted(r)
  <2> HIDE DEF R0
  <2> QED BY <1>1, <1>2, <1>3, GroupDataUpdated
<1>5. PICK s : s = Redistribute(r, q.votes)
  OBVIOUS
<1>6. /\ s \in Records /\ s.round = r.round /\ s.users = r.users /\ s.tracked = r.tracked
      /\ DOMAIN s.queue = DOMAIN r.queue /\ QueuesVoted(s)
  BY <1>2, <1>4, <1>5, Redistributed
<1>7. ~RaisesKeyError(s, q.votes)
  BY <1>3, <1>6 DEF RaisesKeyError, Unknown
<1>8. PICK decks \in Recommendations(s, q.votes) : Deal(decks) /\ record' = AfterRound(s, decks)
  BY <1>3, <1>5
<1>9. /\ DOMAIN decks = IF method = "HYBRID" /\ s.round = 0 THEN s.users ELSE DOMAIN q.votes
      /\ \A u \in DOMAIN decks :
            /\ decks[u] \in Decks
            /\ decks[u].fresh \cap decks[u].again = {}
            /\ decks[u].fresh \cap s.voted = {}
            /\ \/ decks[u].again = {}
               \/ u \in DOMAIN s.queue /\ decks[u].again \subseteq s.queue[u]
  BY <1>2, <1>6, <1>7, DecksMade
<1>10. DOMAIN decks \in {q.users, DOMAIN q.votes}
  BY <1>4, <1>6, <1>9
<1>12. /\ AfterRound(s, decks) \in Records /\ AfterRound(s, decks).round = s.round + 1
       /\ AfterRound(s, decks).tracked = s.tracked /\ QueuesVoted(AfterRound(s, decks))
  BY <1>6, AfterRoundRecord
<1>13. /\ record' \in Records /\ record'.round = record.round + 1
       /\ record'.tracked = q.users
  BY <1>4, <1>6, <1>8, <1>12
<1>14. QueuesVoted(record')
  BY <1>8, <1>12
<1>15. s = Redistribute(UpdateGroupData(R0, q), q.votes)
  BY <1>3, <1>5
<1> QED BY <1>4, <1>6, <1>8, <1>9, <1>10, <1>13, <1>14, <1>15

\* What a request that failed leaves of the record.
LEMMA RequestFailed ==
    ASSUME IInv, NEW n \in DOMAIN asked, RequestFails(n)
    PROVE  /\ record' \in Records /\ QueuesVoted(record') /\ record'.round = record.round
           /\ ~hasRecord' => record' = NoRecord
<1>1. CASE UNCHANGED records
  BY <1>1 DEF records, IInv, TypeOK, QueuesVoted
<1>2. CASE hasRecord' = TRUE
           /\ record' = UpdateGroupData(EnsureInitialized(asked[n]), asked[n])
  <2>0. PICK q : q = asked[n]
    OBVIOUS
  <2>1. PICK r : r = EnsureInitialized(q)
    OBVIOUS
  <2>2. r \in Records /\ QueuesVoted(r) /\ r.round = record.round
    BY <2>0, <2>1, RecordAsked DEF RequestFails
  <2>3. AreBallots(q.votes) /\ q.users \subseteq Members
    BY <2>0, RequestTyped DEF IInv
  <2>4. /\ UpdateGroupData(r, q) \in Records /\ UpdateGroupData(r, q).round = r.round
        /\ QueuesVoted(UpdateGroupData(r, q))
    BY <2>2, <2>3, GroupDataUpdated
  <2>5. record' = UpdateGroupData(r, q)
    BY <1>2, <2>0, <2>1
  <2>6. QueuesVoted(record')
    BY <2>4, <2>5
  <2> QED BY <1>2, <2>2, <2>4, <2>5, <2>6
<1> QED BY <1>1, <1>2 DEF RequestFails

-----------------------------------------------------------------------------
(* Types, records and decks: the steps. *)

LEMMA InvInit == Init => IInv
<1> SUFFICES ASSUME Init PROVE IInv
  OBVIOUS
<1> USE DEF Init
<1>1. /\ connected \subseteq Members /\ Cardinality(Members) \in Nat /\ MaxRequests \in Nat
  BY FS_CardinalityType, RecommenderAssumption
<1>2. NoRecord \in Records /\ QueuesVoted(NoRecord) /\ NoRecord.round = 0
  <2>1. PICK q : q.users \subseteq Members
    <3>1. [users |-> {}].users \subseteq Members
      OBVIOUS
    <3> QED BY <3>1
  <2> QED BY <2>1, NewRecords
<1>3. /\ deck \in [Members -> Decks] /\ \A u \in Members : deck[u].again = {}
  BY RecommenderAssumption DEF Decks, NoDeck
<1>4. rated \in [Members -> Opinions]
  BY DEF Opinions, NoOpinion
<1>5. <<activity, method>> \in Kinds
  <2>1. PICK kind \in Kinds : activity = kind[1] /\ method = kind[2]
    OBVIOUS
  <2>2. kind = <<kind[1], kind[2]>>
    BY RecommenderAssumption
  <2> QED BY <2>1, <2>2
<1>6. TypeOK
  <2>1. /\ creator \in Members /\ choosers \subseteq Members /\ holding \subseteq Members
        /\ DOMAIN ballots = {} /\ forgotten \subseteq Items
        /\ DOMAIN inHand = {} /\ DOMAIN asked = {}
    BY <1>1
  <2>2. /\ phase \in {"voting", "resolving", "over"} /\ hasRecord \in BOOLEAN
        /\ record = NoRecord /\ late \in BOOLEAN
    OBVIOUS
  <2>3. deck \in [Members -> Decks] /\ record \in Records
    BY <1>2, <1>3
  <2>4. size \in 0..Cardinality(Members) /\ requests \in 0..MaxRequests
    BY <1>1
  <2>5. AreBallots(ballots)
    BY <2>1 DEF AreBallots
  <2> HIDE DEF Init
  <2> QED BY <1>1, <1>4, <1>5, <2>1, <2>2, <2>3, <2>4, <2>5 DEF TypeOK
<1>7. RoundInv /\ RecordInv
  BY <1>2 DEF RoundInv, RecordInv
<1>8. DecksRepeatNothing
  BY <1>3 DEF DecksRepeatNothing
<1> QED BY <1>2, <1>6, <1>7, <1>8 DEF IInv

LEMMA Headcount ==
    ASSUME IInv
    PROVE  /\ connected \subseteq Members /\ IsFiniteSet(connected)
           /\ Cardinality(connected) \in Nat /\ Cardinality(Members) \in Nat
           /\ Cardinality(connected) <= Cardinality(Members) /\ MaxRequests \in Nat
BY FS_Subset, FS_CardinalityType, RecommenderAssumption DEF IInv, TypeOK

LEMMA InvFinishDeck ==
    ASSUME IInv, NEW u \in Members, FinishDeck(u)
    PROVE  IInv'
<1> USE DEF IInv, FinishDeck, session, records, round, sent
<1>1. deck[u] \in Decks /\ Shown(deck[u]) \subseteq Items
  BY DEF TypeOK, Decks, Shown
<1>2. deck' \in [Members -> Decks] /\ DecksRepeatNothing'
  BY DEF TypeOK, DecksRepeatNothing, Decks, NoDeck
<1>3. /\ DOMAIN inHand' \subseteq Members
      /\ \A v \in DOMAIN inHand' :
            inHand'[v] \in [items : SUBSET Items, size : 1..Cardinality(Members)]
  <2>1. Cardinality(connected) \in 1..Cardinality(Members)
    BY Headcount DEF RoundInv
  <2>2. [items |-> Shown(deck[u]), size |-> Cardinality(connected)]
           \in [items : SUBSET Items, size : 1..Cardinality(Members)]
    BY <1>1, <2>1
  <2> QED BY <2>2 DEF TypeOK, With
<1>4. TypeOK'
  <2>1. holding' \subseteq Members /\ AreBallots(ballots)'
    BY DEF TypeOK, AreBallots
  <2>2. \A n \in DOMAIN asked' : asked'[n].users \subseteq Members /\ AreBallots(asked[n].votes)'
    BY DEF TypeOK, AreBallots
  <2> QED BY <1>2, <1>3, <2>1, <2>2 DEF TypeOK
<1>5. RoundInv' /\ RecordInv' /\ QueuesVoted(record)'
  BY DEF RoundInv, RecordInv, QueuesVoted
<1> QED BY <1>2, <1>4, <1>5

LEMMA InvEvaluateVote ==
    ASSUME IInv, NEW u \in Members, EvaluateVote(u)
    PROVE  IInv'
<1> USE DEF IInv, EvaluateVote, session, screens, records, sent
<1>1. PICK liked \in SUBSET inHand[u].items :
        ballots' = With(ballots, u, [liked |-> liked, other |-> inHand[u].items \ liked])
  OBVIOUS
<1>2. inHand[u] \in [items : SUBSET Items, size : 1..Cardinality(Members)]
  BY DEF TypeOK
<1>3. [liked |-> liked, other |-> inHand[u].items \ liked] \in Opinions
  BY <1>2 DEF Opinions
<1>4. AreBallots(ballots)' /\ DOMAIN ballots' = DOMAIN ballots \cup {u}
  BY <1>1, <1>3 DEF AreBallots, TypeOK, With
<1>5. /\ DOMAIN inHand' \subseteq Members
      /\ \A v \in DOMAIN inHand' :
            inHand'[v] \in [items : SUBSET Items, size : 1..Cardinality(Members)]
  BY DEF TypeOK, Without
<1>6. size' \in 1..Cardinality(Members)
  <2>1. inHand[u].size \in 1..Cardinality(Members) /\ size \in 0..Cardinality(Members)
    BY <1>2 DEF TypeOK
  <2> QED BY <2>1, Headcount DEF RoundSize
<1>7. TypeOK'
  <2>1. phase' \in {"voting", "resolving", "over"} /\ late' \in BOOLEAN
    BY DEF TypeOK
  <2>2. \A n \in DOMAIN asked' : asked'[n].users \subseteq Members /\ AreBallots(asked[n].votes)'
    BY DEF TypeOK, AreBallots
  <2>3. size' \in 0..Cardinality(Members)
    BY <1>6, Headcount
  <2> QED BY <1>4, <1>5, <2>1, <2>2, <2>3 DEF TypeOK
<1>8. RoundInv' /\ RecordInv' /\ QueuesVoted(record)' /\ DecksRepeatNothing'
  <2>1. RoundInv'
    BY <1>6, Headcount DEF RoundInv
  <2> QED BY <2>1 DEF RecordInv, QueuesVoted, DecksRepeatNothing
<1> QED BY <1>7, <1>8

LEMMA InvLeave ==
    ASSUME IInv, NEW u \in Members, Leave(u)
    PROVE  IInv'
<1> USE DEF IInv, Leave, session, records, screens, round, sent, RequestEndOfRecommendation
<1>1. TypeOK'
  <2>1. /\ AreBallots(ballots)'
        /\ \A n \in DOMAIN asked' : asked'[n].users \subseteq Members /\ AreBallots(asked[n].votes)'
    BY DEF TypeOK, AreBallots
  <2>2. phase' \in {"voting", "resolving", "over"} /\ connected' \subseteq Members
    BY DEF TypeOK
  <2> QED BY <2>1, <2>2 DEF TypeOK
<1>2. Cardinality(connected') \in Nat
  BY <1>1, FS_Subset, FS_CardinalityType, RecommenderAssumption DEF TypeOK
<1>3. RoundInv'
  BY <1>2 DEF RoundInv
<1>4. RecordInv' /\ QueuesVoted(record)' /\ DecksRepeatNothing'
  BY DEF RecordInv, QueuesVoted, DecksRepeatNothing
<1> QED BY <1>1, <1>3, <1>4

\* The steps that only end the session or the round's turn, and steps of nothing.
LEMMA InvStop ==
    ASSUME IInv, Match \/ RefuseToAsk \/ UNCHANGED vars
    PROVE  IInv'
<1> USE DEF IInv, Match, RefuseToAsk, vars, session, screens, round, records, sent
<1>1. TypeOK'
  <2>1. /\ AreBallots(ballots)'
        /\ \A n \in DOMAIN asked' : asked'[n].users \subseteq Members /\ AreBallots(asked[n].votes)'
    BY DEF TypeOK, AreBallots
  <2> QED BY <2>1 DEF TypeOK
<1>2. RoundInv' /\ RecordInv' /\ QueuesVoted(record)' /\ DecksRepeatNothing'
  BY DEF RoundInv, RecordInv, QueuesVoted, DecksRepeatNothing
<1> QED BY <1>1, <1>2

\* A request holds those who are there, who are among the members of all others.
LEMMA InvRequestNextData ==
    ASSUME IInv, RequestNextData
    PROVE  IInv'
<1> USE DEF IInv, RequestNextData, session, screens, round, records
<1>1. /\ requests' = requests + 1 /\ requests \in Nat /\ requests' \in 0..MaxRequests
      /\ connected \subseteq Members
  BY Headcount DEF TypeOK, RoundInv
<1>2. PICK q : q = [users |-> connected, votes |-> ballots]
  OBVIOUS
<1>3. /\ DOMAIN asked' = DOMAIN asked \cup {requests + 1} /\ asked'[requests + 1] = q
      /\ \A n \in DOMAIN asked : asked'[n] = asked[n]
  <2>1. requests + 1 \notin DOMAIN asked
    BY <1>1, RequestTyped
  <2> QED BY <1>1, <1>2, <2>1 DEF With
<1>4. \A n \in DOMAIN asked' : asked'[n] = q \/ (n \in DOMAIN asked /\ asked'[n] = asked[n])
  BY <1>3
<1>5. TypeOK'
  <2>1. DOMAIN asked' \subseteq 1..requests'
    BY <1>1, <1>3 DEF TypeOK
  <2>2. AreBallots(ballots)' /\ AreBallots(q.votes) /\ q.users \subseteq Members
    BY <1>1, <1>2 DEF TypeOK, AreBallots
  <2>3. \A n \in DOMAIN asked' : asked'[n].users \subseteq Members /\ AreBallots(asked[n].votes)'
    BY <1>4, <2>2 DEF TypeOK, AreBallots
  <2> QED BY <1>1, <2>1, <2>2, <2>3 DEF TypeOK
<1>6. RecordInv'
  <2>1. /\ \A n \in DOMAIN asked : connected \subseteq asked[n].users
        /\ \A n, m \in DOMAIN asked : Nested(asked[n].users, asked[m].users)
    BY DEF RecordInv
  <2>2. q.users = connected
    BY <1>2
  <2>3. \A n, m \in DOMAIN asked' : /\ connected \subseteq asked'[n].users
                                    /\ Nested(asked'[n].users, asked'[m].users)
    BY <1>4, <2>1, <2>2 DEF Nested
  <2>4. hasRecord => /\ record.round > 0 /\ record.tracked \subseteq Members
                     /\ connected \subseteq record.tracked
                     /\ \A n \in DOMAIN asked' : Nested(asked'[n].users, record.tracked)
    BY <1>4, <2>2 DEF RecordInv, Nested
  <2> QED BY <2>3, <2>4 DEF RecordInv
<1>7. RoundInv' /\ QueuesVoted(record)' /\ DecksRepeatNothing'
  BY DEF RoundInv, QueuesVoted, DecksRepeatNothing
<1> QED BY <1>5, <1>6, <1>7

LEMMA RatedTyped ==
    ASSUME IInv
    PROVE  [u \in Members |-> [liked |-> Liked(u), other |-> Disliked(u)]] \in [Members -> Opinions]
<1>1. \A u \in Members : /\ Voting(u) \in Opinions /\ rated[u] \in Opinions
  BY DEF IInv, TypeOK, AreBallots, Voting, NoOpinion, Opinions
<1>2. \A u \in Members : Liked(u) \subseteq Items /\ Disliked(u) \subseteq Items
  BY <1>1 DEF Liked, Disliked, Opinions
<1> QED BY <1>2 DEF Opinions

\* The decks are of the right kind, the model tracks the members of the request.
LEMMA InvRecommendNext ==
    ASSUME IInv, NEW n \in DOMAIN asked, RecommendNext(n)
    PROVE  IInv'
<1> USE DEF RecommendNext, session
<1>0. PICK q : q = asked[n]
  OBVIOUS
<1>1. PICK decks :
        /\ Deal(decks) /\ DOMAIN decks \in {q.users, DOMAIN q.votes}
        /\ \A u \in DOMAIN decks : /\ decks[u] \in Decks
                                   /\ decks[u].fresh \cap decks[u].again = {}
        /\ record' \in Records /\ QueuesVoted(record')
        /\ record'.round = record.round + 1 /\ record'.tracked = q.users
  BY <1>0, RequestAnswered
<1>2. PICK served : served = DOMAIN decks \cap connected
  OBVIOUS
<1>3. /\ holding' = holding \cup served /\ size' = 0 /\ ballots' = [v \in {} |-> NoOpinion]
      /\ deck' = [u \in Members |-> IF u \in served THEN WithCards(decks[u]) ELSE deck[u]]
      /\ rated' = [u \in Members |-> [liked |-> Liked(u), other |-> Disliked(u)]]
  BY <1>1, <1>2 DEF Deal
<1>4. \A u \in Members : /\ deck'[u] \in Decks /\ deck'[u].fresh \cap deck'[u].again = {}
  <2>1. \A u \in served : /\ WithCards(decks[u]) \in Decks
                          /\ WithCards(decks[u]).fresh \cap WithCards(decks[u]).again = {}
    BY <1>1, <1>2 DEF WithCards, Decks
  <2>2. \A u \in Members : deck[u] \in Decks /\ deck[u].fresh \cap deck[u].again = {}
    BY DEF IInv, TypeOK, DecksRepeatNothing
  <2> QED BY <1>3, <2>1, <2>2
<1>5. deck' \in [Members -> Decks] /\ DecksRepeatNothing'
  BY <1>3, <1>4 DEF DecksRepeatNothing
<1>6. /\ DOMAIN asked' = DOMAIN asked \ {n} /\ \A m \in DOMAIN asked' : asked'[m] = asked[m]
  BY DEF Without
<1>7. TypeOK'
  <2>1. holding' \subseteq Members /\ size' \in 0..Cardinality(Members)
    BY <1>2, <1>3, Headcount DEF IInv, TypeOK
  <2>2. AreBallots(ballots)'
    BY <1>3 DEF AreBallots
  <2>3. /\ DOMAIN asked' \subseteq 1..requests'
        /\ \A m \in DOMAIN asked' : asked'[m].users \subseteq Members /\ AreBallots(asked[m].votes)'
    BY <1>6 DEF IInv, TypeOK, AreBallots
  <2>4. rated' \in [Members -> Opinions]
    BY <1>3, RatedTyped
  <2> QED BY <1>1, <1>5, <2>1, <2>2, <2>3, <2>4 DEF IInv, TypeOK
<1>8. RoundInv'
  BY <1>3 DEF IInv, RoundInv
<1>9. RecordInv'
  <2>1. record.round \in Nat
    BY RecordFields DEF IInv, TypeOK
  <2>2. q.users \subseteq Members /\ connected \subseteq q.users
        /\ \A m \in DOMAIN asked : Nested(asked[m].users, q.users)
    BY <1>0, RequestTyped DEF IInv, RecordInv
  <2>3. record.round + 1 > 0
    BY <2>1
  <2>4. \A m \in DOMAIN asked' : Nested(asked'[m].users, record'.tracked)
    BY <1>1, <1>6, <2>2
  <2>5. \A m \in DOMAIN asked' : /\ connected' \subseteq asked'[m].users
                                 /\ \A k \in DOMAIN asked' : Nested(asked'[m].users, asked'[k].users)
    BY <1>6 DEF IInv, RecordInv
  <2> QED BY <1>1, <2>2, <2>3, <2>4, <2>5 DEF RecordInv
<1>10. QueuesVoted(record)'
  BY <1>1 DEF QueuesVoted
<1> QED BY <1>5, <1>7, <1>8, <1>9, <1>10 DEF IInv

LEMMA InvRequestFails ==
    ASSUME IInv, NEW n \in DOMAIN asked, RequestFails(n)
    PROVE  IInv'
<1> USE DEF RequestFails, session, screens, round, records
<1>1. /\ record' \in Records /\ QueuesVoted(record') /\ record'.round = record.round
      /\ ~hasRecord' => record' = NoRecord
  BY RequestFailed
<1>2. hasRecord' \in BOOLEAN
  BY DEF IInv, TypeOK
<1>3. TypeOK'
  <2>1. /\ DOMAIN asked' = DOMAIN asked \ {n} /\ \A m \in DOMAIN asked' : asked'[m] = asked[m]
    BY DEF Without
  <2>2. AreBallots(ballots)'
    BY DEF IInv, TypeOK, AreBallots
  <2>3. /\ DOMAIN asked' \subseteq 1..requests'
        /\ \A m \in DOMAIN asked' : asked'[m].users \subseteq Members /\ AreBallots(asked[m].votes)'
    BY <2>1 DEF IInv, TypeOK, AreBallots
  <2> QED BY <1>1, <1>2, <2>2, <2>3 DEF IInv, TypeOK
<1>4. RoundInv' /\ RecordInv' /\ DecksRepeatNothing'
  BY DEF IInv, RoundInv, RecordInv, DecksRepeatNothing
<1>5. QueuesVoted(record)'
  BY <1>1 DEF QueuesVoted
<1> QED BY <1>3, <1>4, <1>5 DEF IInv

LEMMA InvRestart ==
    ASSUME IInv, Restart
    PROVE  IInv'
<1> USE DEF IInv, Restart, session, screens, round, sent
<1>1. /\ NoRecord \in Records /\ QueuesVoted(NoRecord) /\ NoRecord.round = 0
  <2>1. PICK q : q.users \subseteq Members
    <3>1. [users |-> {}].users \subseteq Members
      OBVIOUS
    <3> QED BY <3>1
  <2> QED BY <2>1, NewRecords
<1>2. forgotten' \subseteq Items
  BY DEF TypeOK, Opinions, Rated
<1>3. TypeOK'
  <2>1. /\ AreBallots(ballots)'
        /\ \A n \in DOMAIN asked' : asked'[n].users \subseteq Members /\ AreBallots(asked[n].votes)'
    BY DEF TypeOK, AreBallots
  <2> QED BY <1>1, <1>2, <2>1 DEF TypeOK
<1>4. RoundInv' /\ DecksRepeatNothing'
  BY DEF RoundInv, DecksRepeatNothing
<1>5. RecordInv'
  BY <1>1 DEF RecordInv
<1>6. QueuesVoted(record)'
  BY <1>1 DEF QueuesVoted
<1> QED BY <1>3, <1>4, <1>5, <1>6

LEMMA InvNext == IInv /\ [Next]_vars => IInv'
<1> SUFFICES ASSUME IInv, [Next]_vars PROVE IInv'
  OBVIOUS
<1>1. ASSUME NEW u \in Members, FinishDeck(u) PROVE IInv'
  BY <1>1, InvFinishDeck
<1>2. ASSUME NEW u \in Members, EvaluateVote(u) PROVE IInv'
  BY <1>2, InvEvaluateVote
<1>3. ASSUME NEW u \in Members, Leave(u) PROVE IInv'
  BY <1>3, InvLeave
<1>4. CASE Match \/ RefuseToAsk \/ UNCHANGED vars
  BY <1>4, InvStop
<1>5. CASE RequestNextData
  BY <1>5, InvRequestNextData
<1>6. ASSUME NEW n \in DOMAIN asked, RecommendNext(n) PROVE IInv'
  BY <1>6, InvRecommendNext
<1>7. ASSUME NEW n \in DOMAIN asked, RequestFails(n) PROVE IInv'
  BY <1>7, InvRequestFails
<1>8. CASE Restart
  BY <1>8, InvRestart
<1> QED BY <1>1, <1>2, <1>3, <1>4, <1>5, <1>6, <1>7, <1>8 DEF Next

-----------------------------------------------------------------------------
(* Who is served: as long as no ballot comes late. *)

\* A complete round has the ballots of all it waits for.
LEMMA CompleteRounds ==
    ASSUME NEW S, NEW T, S \subseteq T, WaitsFor(size, T), NEW D, D \subseteq T,
           size <= Cardinality(D)
    PROVE  S \subseteq D
<1>1. PICK U \in SUBSET Members : Cardinality(U) = size /\ T \subseteq U
  BY DEF WaitsFor
<1>2. IsFiniteSet(U)
  BY FS_Subset, RecommenderAssumption
<1>3. IsFiniteSet(D) /\ Cardinality(D) <= Cardinality(U)
      /\ (Cardinality(D) = Cardinality(U) => D = U)
  BY <1>1, <1>2, FS_Subset
<1>4. Cardinality(D) \in Nat /\ Cardinality(U) \in Nat
  BY <1>2, <1>3, FS_CardinalityType
<1>5. D = U
  BY <1>1, <1>3, <1>4
<1> QED BY <1>1, <1>5

LEMMA RoundComplete ==
    ASSUME InTime, size # 0, size <= Cardinality(DOMAIN ballots)
    PROVE  connected \subseteq DOMAIN ballots
<1>1. PICK T : T = connected \cup DOMAIN ballots
  OBVIOUS
<1>2. PICK D : D = DOMAIN ballots
  OBVIOUS
<1>3. WaitsFor(size, T)
  BY <1>1 DEF InTime
<1> QED BY <1>1, <1>2, <1>3, CompleteRounds

LEMMA ServedInit == Init => ServedInv
<1> SUFFICES ASSUME Init PROVE ServedInv
  OBVIOUS
<1> USE DEF Init
<1>1. EverybodyServed
  BY DEF EverybodyServed
<1>2. InTime
  BY DEF InTime
<1> QED BY <1>1, <1>2 DEF ServedInv

\* A round waits for all who are there when a ballot is sent.
LEMMA ServedFinishDeck ==
    ASSUME IInv, ServedInv, NEW u \in Members, FinishDeck(u)
    PROVE  ServedInv'
<1> USE DEF FinishDeck, session, records, round, sent
<1>1. /\ DOMAIN inHand' = DOMAIN inHand \cup {u} /\ inHand'[u].size = Cardinality(connected)
      /\ \A v \in DOMAIN inHand : v # u /\ inHand'[v] = inHand[v]
  BY DEF With
<1>2. EverybodyServed'
  BY <1>1 DEF ServedInv, EverybodyServed
<1>3. ASSUME ~late, InTime PROVE InTime'
  <2>1. deck'[u] = NoDeck /\ \A v \in Members \ {u} : deck'[v] = deck[v]
    BY DEF IInv, TypeOK
  <2>2. WaitsFor(Cardinality(connected), connected)
    BY Headcount DEF WaitsFor
  <2>3. \A v \in DOMAIN inHand' :
           deck'[v] = NoDeck /\ v \notin holding' /\ WaitsFor(inHand'[v].size, connected)
    <3>1. CASE DOMAIN inHand' \subseteq Members
      BY <1>1, <1>3, <2>1, <2>2, <3>1 DEF InTime
    <3>2. DOMAIN inHand' \subseteq Members
      BY InvFinishDeck DEF IInv, TypeOK
    <3> QED BY <3>1, <3>2
  <2>4. \A v \in DOMAIN ballots : deck'[v] = NoDeck /\ v \notin holding' /\ v \notin DOMAIN inHand'
    <3>1. u \notin DOMAIN ballots /\ DOMAIN ballots \subseteq Members
      BY <1>3 DEF InTime, IInv, TypeOK, AreBallots
    <3> QED BY <1>1, <1>3, <2>1, <3>1 DEF InTime
  <2> QED BY <1>3, <2>3, <2>4 DEF InTime, WaitsFor
<1> QED BY <1>2, <1>3 DEF ServedInv

\* A ballot that is not late is of somebody who is there: the round waits for it, and
\* no request is under way.
LEMMA ServedEvaluateVote ==
    ASSUME IInv, ServedInv, NEW u \in Members, EvaluateVote(u)
    PROVE  ServedInv'
<1> USE DEF EvaluateVote, session, records, screens, sent
<1>1. /\ DOMAIN inHand' = DOMAIN inHand \ {u} /\ \A v \in DOMAIN inHand' : inHand'[v] = inHand[v]
  BY DEF Without
<1>2. DOMAIN ballots' = DOMAIN ballots \cup {u} /\ u \in DOMAIN inHand \ DOMAIN ballots
  BY DEF With
<1>3. EverybodyServed'
  BY <1>1, <1>2 DEF ServedInv, EverybodyServed
<1>4. ASSUME ~late' PROVE InTime'
  <2>1. ~late /\ u \in connected /\ InTime
    BY <1>4 DEF ServedInv
  <2>2. DOMAIN asked = {}
    BY <1>2, <2>1 DEF InTime
  <2>3. size' # 0 /\ WaitsFor(size', connected \cup DOMAIN ballots')
    <3>1. CASE size = 0
      <4>1. size' = inHand[u].size /\ DOMAIN ballots = {}
        BY <3>1 DEF RoundSize, IInv, RoundInv
      <4>2. inHand[u].size \in 1..Cardinality(Members)
        BY <1>2 DEF IInv, TypeOK
      <4>3. size' # 0
        BY <4>1, <4>2, Headcount
      <4>4. connected \cup DOMAIN ballots' = connected
        BY <1>2, <2>1, <4>1
      <4>5. WaitsFor(inHand[u].size, connected)
        BY <1>2, <2>1 DEF InTime
      <4> QED BY <4>1, <4>3, <4>4, <4>5
    <3>2. CASE size # 0
      <4>1. size' = size
        BY <3>2 DEF RoundSize
      <4>2. connected \cup DOMAIN ballots' = connected \cup DOMAIN ballots
        BY <1>2, <2>1
      <4>3. WaitsFor(size, connected \cup DOMAIN ballots)
        BY <2>1, <3>2 DEF InTime
      <4> QED BY <3>2, <4>1, <4>2, <4>3
    <3> QED BY <3>1, <3>2
  <2>4. \A v \in DOMAIN inHand' :
           deck[v] = NoDeck /\ v \notin holding /\ WaitsFor(inHand'[v].size, connected)
    BY <1>1, <2>1 DEF InTime
  <2>5. \A v \in DOMAIN ballots' : deck[v] = NoDeck /\ v \notin holding /\ v \notin DOMAIN inHand'
    BY <1>1, <1>2, <2>1 DEF InTime
  <2>6. phase' = "resolving" => size' <= Cardinality(DOMAIN ballots')
    <3>1. CASE Cardinality(DOMAIN ballots') >= size'
      <4>1. IsFiniteSet(DOMAIN ballots') /\ size' \in Nat
        <5>1. DOMAIN ballots' \subseteq Members /\ size' \in 0..Cardinality(Members)
          BY InvEvaluateVote DEF IInv, TypeOK, AreBallots
        <5>2. size' \in Nat
          BY <5>1, Headcount
        <5>3. PICK D : D = DOMAIN ballots'
          OBVIOUS
        <5>4. IsFiniteSet(D)
          BY <5>1, <5>3, FS_Subset, RecommenderAssumption
        <5> QED BY <5>2, <5>3, <5>4
      <4> QED BY <3>1, <4>1, FS_CardinalityType
    <3> QED BY <3>1 DEF Complete
  <2> QED BY <2>2, <2>3, <2>4, <2>5, <2>6 DEF InTime, WaitsFor
<1> QED BY <1>3, <1>4 DEF ServedInv

LEMMA ServedLeave ==
    ASSUME IInv, ServedInv, NEW u \in Members, Leave(u)
    PROVE  ServedInv'
<1> USE DEF Leave, session, records, screens, round, sent, RequestEndOfRecommendation
<1>1. EverybodyServed'
  BY DEF ServedInv, EverybodyServed
<1>2. ASSUME ~late, InTime PROVE InTime'
  <2>1. /\ \A k : WaitsFor(k, connected) => WaitsFor(k, connected')
        /\ \A k : WaitsFor(k, connected \cup DOMAIN ballots)
                     => WaitsFor(k, connected' \cup DOMAIN ballots)
    BY DEF WaitsFor
  <2>2. \A v \in DOMAIN inHand : WaitsFor(inHand[v].size, connected')
    BY <1>2, <2>1 DEF InTime
  <2>3. size # 0 => WaitsFor(size, connected' \cup DOMAIN ballots)
    BY <1>2, <2>1 DEF InTime
  <2> QED BY <1>2, <2>2, <2>3 DEF InTime, WaitsFor
<1> QED BY <1>1, <1>2 DEF ServedInv

LEMMA ServedStop ==
    ASSUME IInv, ServedInv, Match \/ RefuseToAsk \/ UNCHANGED vars
    PROVE  ServedInv'
<1> USE DEF Match, RefuseToAsk, vars, session, screens, round, records, sent
<1>1. EverybodyServed'
  BY DEF ServedInv, EverybodyServed
<1>2. ASSUME ~late, InTime PROVE InTime'
  BY <1>2 DEF InTime, WaitsFor
<1> QED BY <1>1, <1>2 DEF ServedInv

\* The round is complete: it has the ballots of all who are there.
LEMMA ServedRequestNextData ==
    ASSUME IInv, ServedInv, RequestNextData
    PROVE  ServedInv'
<1> USE DEF RequestNextData, session, screens, round, records
<1>1. EverybodyServed'
  BY DEF ServedInv, EverybodyServed
<1>2. ASSUME ~late, InTime PROVE InTime'
  <2>1. /\ size # 0 /\ size <= Cardinality(DOMAIN ballots) /\ DOMAIN asked = {}
        /\ connected \subseteq DOMAIN ballots
    BY <1>2, RoundComplete DEF InTime
  <2>2. DOMAIN asked' = {requests'} /\ asked'[requests'].votes = ballots
    BY <2>1 DEF With
  <2> QED BY <1>2, <2>1, <2>2 DEF InTime, WaitsFor
<1> QED BY <1>1, <1>2 DEF ServedInv

\* Decks are made for all voters, or all members of the request, and dealt to all who
\* are there; the round is the one the request was about.
LEMMA ServedRecommendNext ==
    ASSUME IInv, ServedInv, NEW n \in DOMAIN asked, RecommendNext(n)
    PROVE  ServedInv'
<1> USE DEF RecommendNext, session
<1>1. PICK decks : Deal(decks) /\ DOMAIN decks \in {asked[n].users, DOMAIN asked[n].votes}
  BY RequestAnswered
<1>2. ASSUME ~late, InTime
      PROVE  /\ connected \subseteq DOMAIN ballots /\ DOMAIN decks \cap connected = connected
             /\ DOMAIN asked' = {}
  <2>1. /\ connected \subseteq DOMAIN ballots /\ asked[n].votes = ballots
        /\ DOMAIN asked = {n}
    BY <1>2 DEF InTime
  <2>2. connected \subseteq asked[n].users
    BY DEF IInv, RecordInv
  <2>3. DOMAIN asked' = DOMAIN asked \ {n}
    BY DEF Without
  <2> QED BY <1>1, <2>1, <2>2, <2>3
<1>3. EverybodyServed'
  BY <1>1, <1>2 DEF ServedInv, EverybodyServed, Deal
<1>4. ASSUME ~late, InTime PROVE InTime'
  <2>1. PICK served : served = connected
    OBVIOUS
  <2>2. /\ size' = 0 /\ DOMAIN ballots' = {} /\ holding' = holding \cup served
        /\ deck' = [u \in Members |-> IF u \in served THEN WithCards(decks[u]) ELSE deck[u]]
    BY <1>1, <1>2, <1>4, <2>1 DEF Deal
  <2>3. ASSUME NEW v \in DOMAIN inHand
        PROVE  deck'[v] = NoDeck /\ v \notin holding' /\ WaitsFor(inHand[v].size, connected)
    <3>1. v \notin served /\ v \in Members
      BY <1>2, <1>4, <2>1 DEF InTime, IInv, TypeOK
    <3> QED BY <1>4, <2>2, <3>1 DEF InTime
  <2> QED BY <1>2, <1>4, <2>2, <2>3 DEF InTime, WaitsFor
<1> QED BY <1>3, <1>4 DEF ServedInv

LEMMA ServedRequestFails ==
    ASSUME IInv, ServedInv, NEW n \in DOMAIN asked, RequestFails(n)
    PROVE  ServedInv'
<1> USE DEF RequestFails, session, screens, round
<1>1. EverybodyServed'
  BY DEF EverybodyServed
<1>2. ASSUME ~late, InTime PROVE InTime'
  <2>1. DOMAIN asked' \subseteq DOMAIN asked /\ \A m \in DOMAIN asked' : asked'[m] = asked[m]
    BY DEF Without
  <2> QED BY <1>2, <2>1 DEF InTime, WaitsFor
<1> QED BY <1>1, <1>2 DEF ServedInv

LEMMA ServedRestart ==
    ASSUME IInv, ServedInv, Restart
    PROVE  ServedInv'
<1> USE DEF Restart, session, screens, round, sent
<1>1. EverybodyServed'
  BY DEF ServedInv, EverybodyServed
<1>2. ASSUME ~late, InTime PROVE InTime'
  BY <1>2 DEF InTime, WaitsFor
<1> QED BY <1>1, <1>2 DEF ServedInv

LEMMA ServedNext == IInv /\ ServedInv /\ [Next]_vars => ServedInv'
<1> SUFFICES ASSUME IInv, ServedInv, [Next]_vars PROVE ServedInv'
  OBVIOUS
<1>1. ASSUME NEW u \in Members, FinishDeck(u) PROVE ServedInv'
  BY <1>1, ServedFinishDeck
<1>2. ASSUME NEW u \in Members, EvaluateVote(u) PROVE ServedInv'
  BY <1>2, ServedEvaluateVote
<1>3. ASSUME NEW u \in Members, Leave(u) PROVE ServedInv'
  BY <1>3, ServedLeave
<1>4. CASE Match \/ RefuseToAsk \/ UNCHANGED vars
  BY <1>4, ServedStop
<1>5. CASE RequestNextData
  BY <1>5, ServedRequestNextData
<1>6. ASSUME NEW n \in DOMAIN asked, RecommendNext(n) PROVE ServedInv'
  BY <1>6, ServedRecommendNext
<1>7. ASSUME NEW n \in DOMAIN asked, RequestFails(n) PROVE ServedInv'
  BY <1>7, ServedRequestFails
<1>8. CASE Restart
  BY <1>8, ServedRestart
<1> QED BY <1>1, <1>2, <1>3, <1>4, <1>5, <1>6, <1>7, <1>8 DEF Next

-----------------------------------------------------------------------------
(* Nobody is asked twice, and what is liked reaches everybody. *)

\* What a member has voted on in the rounds up to now, and what he may be counted on
\* in this one, if no ballot comes late.
Past(u) == Rated(rated[u])
Open(u) == Rated(Voting(u)) \cup (IF u \in connected THEN Asked(u) ELSE {})

\* Nobody is asked again.
AskedOnce == \A u \in Members : Open(u) \cap Past(u) \subseteq forgotten

\* An item that was voted on and is in no deck, ballot or queue never comes back.
Dead(r, i) ==
    /\ i \in r.voted
    /\ \A v \in Members : i \notin Open(v)
    /\ \A v \in DOMAIN r.queue : i \notin r.queue[v]

\* The votes up to now are known as such, and no queue brings them back: what a
\* member has voted on is among what the redistribution has seen of him, or dead, for
\* only later rounds tell the redistribution of the votes.
VotesKept(r) ==
    /\ \A u \in Members : Past(u) \subseteq r.voted \cup forgotten
    /\ \A u \in DOMAIN r.queue : r.queue[u] \cap (Open(u) \cup (Past(u) \ forgotten)) = {}
    /\ r.round <= 1 \/ method = "SYNC" => \A u \in DOMAIN r.queue : r.queue[u] = {}
    /\ \A u \in Members : \A i \in Past(u) \ (r.seen[u] \cup forgotten) : Dead(r, i)

\* Somebody liked the item after the first round, and nobody did not like it.
Liking(r, i) == r.fans[i] # {} /\ \A m \in Members : i \notin Disliked(m)

\* What is seen of a member he has voted on; what is redistributed has a card, as
\* everything on a deck of the recommender has; everybody there has a queue.
LikesKept(r) ==
    /\ \A u \in Members : r.seen[u] \subseteq Past(u)
    /\ r.round > 0 => \A u \in Members : Open(u) \cap Cardless = {}
    /\ \A i \in Items : r.fans[i] # {} => i \notin Cardless
    /\ \A i \in Items \ forgotten :
          Liking(r, i) => \A u \in connected : i \in Past(u) \cup Open(u) \cup r.queue[u]

RedistributionInv ==
    /\ AskedOnce /\ VotesKept(record) /\ LikesKept(record)
    /\ hasRecord => connected \subseteq DOMAIN record.queue

LEMMA PastAndVoting ==
    ASSUME NEW u
    PROVE  /\ Liked(u) \cup Disliked(u) = Past(u) \cup Rated(Voting(u))
           /\ Rated([liked |-> Liked(u), other |-> Disliked(u)]) = Past(u) \cup Rated(Voting(u))
BY DEF Liked, Disliked, Past, Rated

LEMMA BlankRecord ==
    /\ NoRecord.voted = {} /\ DOMAIN NoRecord.queue = {} /\ NoRecord.round = 0
    /\ NoRecord.seen = [u \in Members |-> {}] /\ NoRecord.fans = [i \in Items |-> {}]
BY DEF NoRecord

\* The record a request works with keeps what the last one left.
LEMMA RecordKept ==
    ASSUME IInv, RedistributionInv, NEW q, connected \subseteq q.users
    PROVE  /\ VotesKept(EnsureInitialized(q)) /\ LikesKept(EnsureInitialized(q))
           /\ connected \subseteq DOMAIN EnsureInitialized(q).queue
<1>1. CASE hasRecord
  BY <1>1 DEF EnsureInitialized, RedistributionInv
<1>2. CASE ~hasRecord
  <2>1. record = NoRecord /\ EnsureInitialized(q) = InitNewSession(q)
    BY <1>2 DEF EnsureInitialized, IInv, TypeOK
  <2>2. PICK r : r = InitNewSession(q)
    OBVIOUS
  <2>3. /\ r.voted = record.voted /\ r.seen = record.seen /\ r.fans = record.fans
        /\ r.round = record.round /\ DOMAIN r.queue = q.users
        /\ \A u \in q.users : r.queue[u] = {}
        /\ record.voted = {} /\ record.fans = [i \in Items |-> {}]
    <3>1. PICK blank : blank = NoRecord
      OBVIOUS
    <3>2. /\ blank.voted = {} /\ blank.fans = [i \in Items |-> {}] /\ r.voted = {}
          /\ r.seen = blank.seen /\ r.fans = blank.fans /\ r.round = blank.round
          /\ r.queue = [u \in q.users |-> {}]
      BY <2>2, <3>1 DEF NoRecord, NewRecord, MovieRecord, RestaurantRecord, InitNewSession
    <3> QED BY <2>1, <3>1, <3>2
  <2>4. /\ \A u \in Members : Past(u) \subseteq record.voted \cup forgotten
        /\ \A u \in Members : \A i \in Past(u) \ (record.seen[u] \cup forgotten) : FALSE
    BY <2>3 DEF RedistributionInv, VotesKept, Dead
  <2>5. VotesKept(r)
    BY <2>3, <2>4 DEF VotesKept
  <2>6. LikesKept(r)
    BY <2>3 DEF RedistributionInv, LikesKept, Liking
  <2> QED BY <2>1, <2>2, <2>3, <2>5, <2>6
<1> QED BY <1>1, <1>2

\* What a request does to the record: the votes are known, and nothing else changes.
LEMMA GroupDataFields ==
    ASSUME NEW r \in Records, NEW q
    PROVE  LET s == UpdateGroupData(r, q)
           IN  /\ s.seen = r.seen /\ s.fans = r.fans /\ s.queue = r.queue /\ s.round = r.round
               /\ s.voted = r.voted \cup AllRated(q.votes)
BY DEF UpdateGroupData, Records

LEMMA GroupDataKept ==
    ASSUME NEW r \in Records, NEW q, VotesKept(r), LikesKept(r)
    PROVE  VotesKept(UpdateGroupData(r, q)) /\ LikesKept(UpdateGroupData(r, q))
<1> DEFINE s == UpdateGroupData(r, q)
<1>1. /\ s.seen = r.seen /\ s.fans = r.fans /\ s.queue = r.queue /\ s.round = r.round
      /\ r.voted \subseteq s.voted
  BY GroupDataFields
<1> HIDE DEF s
<1>2. VotesKept(s)
  BY <1>1 DEF VotesKept, Dead
<1>3. LikesKept(s)
  BY <1>1 DEF LikesKept, Liking
<1> QED BY <1>2, <1>3 DEF s

LEMMA VotedItemsFields ==
    ASSUME NEW r \in Records, NEW bs
    PROVE  LET s == UpdateVotedItems(r, bs)
           IN  /\ s.seen = SeenAfter(r, bs) /\ s.fans = FansAfter(r, bs)
               /\ s.voted = r.voted /\ s.round = r.round
               /\ s.queue = [u \in DOMAIN r.queue |->
                               IF u \in DOMAIN bs
                               THEN Refilled(r.queue[u], u, SeenAfter(r, bs), bs)
                               ELSE r.queue[u]]
BY DEF UpdateVotedItems, Records

\* Without the common items: the voters and the items of everybody are fewer, and the
\* ones left out are voted on by all.
LEMMA UniqueBallots ==
    ASSUME NEW bs, AreBallots(bs), NEW cs \in {bs, OnlyUnique(bs)}
    PROVE  /\ DOMAIN cs = DOMAIN bs
           /\ \A v \in DOMAIN bs : /\ cs[v].liked \subseteq bs[v].liked
                                   /\ cs[v].other \subseteq bs[v].other
                                   /\ Rated(cs[v]) \subseteq Rated(bs[v])
           /\ \A v \in DOMAIN bs : \A i \in Rated(bs[v]) \ Rated(cs[v]) :
                 cs = OnlyUnique(bs) /\ i \notin AllLiked(cs)
           /\ AllLiked(cs) \subseteq AllRated(bs)
<1>1. CASE cs = bs
  BY <1>1, RatedItems
<1>2. CASE cs = OnlyUnique(bs)
  <2>1. DOMAIN cs = DOMAIN bs
    BY <1>2 DEF OnlyUnique
  <2>2. \A v \in DOMAIN bs : /\ cs[v].liked = bs[v].liked \ Common(bs)
                             /\ cs[v].other = bs[v].other \ Common(bs)
    BY <1>2 DEF OnlyUnique
  <2>3. \A v \in DOMAIN bs : Rated(cs[v]) = Rated(bs[v]) \ Common(bs)
    BY <2>2 DEF Rated
  <2>4. AllLiked(cs) \cap Common(bs) = {} /\ AllLiked(cs) \subseteq AllLiked(bs)
    BY <2>1, <2>2 DEF AllLiked
  <2>5. AllLiked(bs) \subseteq AllRated(bs)
    BY RatedItems
  <2> QED BY <1>2, <2>1, <2>2, <2>3, <2>4, <2>5
<1> QED BY <1>1, <1>2

\* A request either leaves queues and votes alone, in the first round and where nothing
\* is redistributed, or takes over the ballots.
LEMMA RedistributeCases ==
    ASSUME NEW r \in Records
    PROVE  \/ Redistribute(r, ballots) = r /\ (method = "SYNC" \/ r.round = 0)
           \/ /\ r.round # 0 /\ method # "SYNC"
              /\ \E bs \in {ballots, OnlyUnique(ballots)} :
                    /\ bs = OnlyUnique(ballots) => r.round = 1 \/ bs = ballots
                    /\ Redistribute(r, ballots) = UpdateVotedItems(r, bs)
BY DEF Redistribute

LEMMA VotesRedistributed ==
    ASSUME AreBallots(ballots), NEW r \in Records, VotesKept(r), AllRated(ballots) \subseteq r.voted
    PROVE  LET s == Redistribute(r, ballots)
           IN  /\ s.voted = r.voted
               /\ \A u \in DOMAIN s.queue :
                     s.queue[u] \cap (Rated(Voting(u)) \cup (Past(u) \ forgotten)) = {}
               /\ s.round = 0 \/ method = "SYNC" => \A u \in DOMAIN s.queue : s.queue[u] = {}
               /\ \A u \in Members :
                     \A i \in (Past(u) \cup Rated(Voting(u))) \ (s.seen[u] \cup forgotten) :
                        i \in s.voted /\ \A v \in DOMAIN s.queue : i \notin s.queue[v]
<1>0. \A v \in Members : Rated(Voting(v)) \subseteq AllRated(ballots)
  BY DEF Voting, NoOpinion, Rated, AllRated
<1>1. CASE Redistribute(r, ballots) = r /\ (method = "SYNC" \/ r.round = 0)
  <2>1. \A u \in DOMAIN r.queue : r.queue[u] = {}
    BY <1>1 DEF VotesKept
  <2> QED BY <1>0, <1>1, <2>1 DEF VotesKept
<1>2. ASSUME r.round # 0, method # "SYNC", NEW bs \in {ballots, OnlyUnique(ballots)},
             bs = OnlyUnique(ballots) => r.round = 1 \/ bs = ballots,
             NEW s, s = UpdateVotedItems(r, bs)
      PROVE  /\ s.voted = r.voted
             /\ \A u \in DOMAIN s.queue :
                   s.queue[u] \cap (Rated(Voting(u)) \cup (Past(u) \ forgotten)) = {}
             /\ s.round = 0 \/ method = "SYNC" => \A u \in DOMAIN s.queue : s.queue[u] = {}
             /\ \A u \in Members :
                   \A i \in (Past(u) \cup Rated(Voting(u))) \ (s.seen[u] \cup forgotten) :
                      i \in s.voted /\ \A v \in DOMAIN s.queue : i \notin s.queue[v]
  <2>1. /\ s.seen = SeenAfter(r, bs) /\ s.voted = r.voted /\ s.round = r.round
        /\ s.queue = [u \in DOMAIN r.queue |->
                        IF u \in DOMAIN bs THEN Refilled(r.queue[u], u, SeenAfter(r, bs), bs)
                        ELSE r.queue[u]]
    BY <1>2, VotedItemsFields
  <2>2. /\ DOMAIN bs = DOMAIN ballots /\ DOMAIN ballots \subseteq Members
        /\ \A v \in DOMAIN ballots : \A i \in Rated(ballots[v]) \ Rated(bs[v]) :
              bs = OnlyUnique(ballots) /\ i \notin AllLiked(bs)
        /\ AllLiked(bs) \subseteq AllRated(ballots)
    BY <1>2, UniqueBallots DEF AreBallots
  <2>3. /\ \A u \in Members : r.seen[u] \subseteq s.seen[u]
        /\ \A u \in DOMAIN ballots : Rated(bs[u]) \subseteq s.seen[u]
    BY <2>1, <2>2 DEF SeenAfter
  <2>4. /\ DOMAIN s.queue = DOMAIN r.queue /\ DOMAIN r.queue \subseteq Members
        /\ \A u \in DOMAIN s.queue : \A i \in s.queue[u] :
              \/ i \in r.queue[u]
              \/ u \in DOMAIN ballots /\ i \in AllLiked(bs) /\ i \notin s.seen[u]
    BY <2>1, <2>2, RecordFields DEF Refilled
  <2>5. /\ \A u \in DOMAIN ballots : Voting(u) = ballots[u]
        /\ \A u : u \notin DOMAIN ballots => Rated(Voting(u)) = {}
    BY DEF Voting, NoOpinion, Rated
  <2>6. ASSUME NEW i, Dead(r, i)
        PROVE  /\ i \in r.voted /\ i \notin AllLiked(bs)
               /\ \A v \in DOMAIN s.queue : i \notin s.queue[v]
    <3>1. i \notin AllRated(ballots)
      BY <2>2, <2>5, <2>6 DEF Dead, Open, AllRated
    <3> QED BY <2>2, <2>4, <2>6, <3>1 DEF Dead
  <2>7. ASSUME NEW u \in DOMAIN s.queue, NEW i \in s.queue[u], i \in Rated(Voting(u))
        PROVE  FALSE
    <3>1. i \notin r.queue[u]
      BY <2>4, <2>7 DEF VotesKept, Open
    <3> QED BY <2>2, <2>3, <2>4, <2>5, <2>7, <3>1
  <2>8. ASSUME NEW u \in DOMAIN s.queue, NEW i \in s.queue[u], i \in Past(u) \ forgotten
        PROVE  FALSE
    <3>1. i \notin r.queue[u]
      BY <2>4, <2>8 DEF VotesKept
    <3>2. u \in Members /\ i \notin r.seen[u]
      BY <2>3, <2>4, <2>8, <3>1
    <3>3. Dead(r, i)
      BY <2>8, <3>2 DEF VotesKept
    <3> QED BY <2>6, <2>8, <3>3
  <2>9. ASSUME NEW u \in Members, NEW i \in Past(u) \ (s.seen[u] \cup forgotten)
        PROVE  i \in s.voted /\ \A v \in DOMAIN s.queue : i \notin s.queue[v]
    <3>1. Dead(r, i)
      BY <2>3, <2>9 DEF VotesKept
    <3> QED BY <2>1, <2>6, <3>1
  <2>10. ASSUME NEW u \in Members, NEW i \in Rated(Voting(u)) \ (s.seen[u] \cup forgotten)
         PROVE  i \in s.voted /\ \A v \in DOMAIN s.queue : i \notin s.queue[v]
    <3>1. u \in DOMAIN ballots /\ i \in Rated(ballots[u]) \ Rated(bs[u])
      BY <2>3, <2>5, <2>10
    <3>2. bs = OnlyUnique(ballots) /\ i \notin AllLiked(bs) /\ bs # ballots
      BY <2>2, <3>1
    <3>3. \A v \in DOMAIN r.queue : r.queue[v] = {}
      BY <1>2, <3>2 DEF VotesKept
    <3> QED BY <1>0, <2>1, <2>4, <2>10, <3>2, <3>3
  <2> QED BY <1>2, <2>1, <2>7, <2>8, <2>9, <2>10, RecordFields
<1> QED BY <1>1, <1>2, RedistributeCases

LEMMA LikesRedistributed ==
    ASSUME IInv, InTime, AskedOnce, NEW r \in Records, LikesKept(r),
           connected \subseteq DOMAIN ballots, connected \subseteq DOMAIN r.queue
    PROVE  LET s == Redistribute(r, ballots)
           IN  /\ \A u \in Members : s.seen[u] \subseteq Past(u) \cup Rated(Voting(u))
               /\ \A i \in Items : s.fans[i] # {} => i \notin Cardless
               /\ \A i \in Items \ forgotten :
                     Liking(s, i) => \A u \in connected :
                                        i \in Past(u) \cup Rated(Voting(u)) \cup s.queue[u]
<1>0. /\ \A u \in DOMAIN ballots : Voting(u) = ballots[u] /\ Open(u) = Rated(ballots[u])
      /\ AreBallots(ballots) /\ connected \subseteq Members
  BY DEF InTime, Open, Asked, Voting, Shown, NoDeck, IInv, TypeOK
<1>1. CASE Redistribute(r, ballots) = r
  BY <1>0, <1>1 DEF LikesKept
<1>2. ASSUME r.round # 0, NEW bs \in {ballots, OnlyUnique(ballots)},
             NEW s, s = UpdateVotedItems(r, bs)
      PROVE  /\ \A u \in Members : s.seen[u] \subseteq Past(u) \cup Rated(Voting(u))
             /\ \A i \in Items : s.fans[i] # {} => i \notin Cardless
             /\ \A i \in Items \ forgotten :
                   Liking(s, i) => \A u \in connected :
                                      i \in Past(u) \cup Rated(Voting(u)) \cup s.queue[u]
  <2>1. /\ s.seen = SeenAfter(r, bs) /\ s.fans = FansAfter(r, bs)
        /\ s.queue = [u \in DOMAIN r.queue |->
                        IF u \in DOMAIN bs THEN Refilled(r.queue[u], u, SeenAfter(r, bs), bs)
                        ELSE r.queue[u]]
    BY <1>2, VotedItemsFields
  <2>2. /\ DOMAIN bs = DOMAIN ballots /\ DOMAIN ballots \subseteq Members
        /\ \A v \in DOMAIN ballots : /\ bs[v].liked \subseteq ballots[v].liked
                                     /\ bs[v].other \subseteq ballots[v].other
                                     /\ Rated(bs[v]) \subseteq Rated(ballots[v])
    BY <1>0, <1>2, UniqueBallots DEF AreBallots
  <2>3. ASSUME NEW u \in Members PROVE s.seen[u] \subseteq Past(u) \cup Rated(Voting(u))
    BY <1>0, <2>1, <2>2 DEF LikesKept, SeenAfter
  <2>4. ASSUME NEW i \in Items, s.fans[i] # {}
        PROVE  r.fans[i] # {} \/ i \in AllLiked(bs)
    BY <2>1, <2>4 DEF FansAfter, AllLiked
  <2>5. ASSUME NEW i \in AllLiked(bs) PROVE i \notin Cardless
    <3>1. PICK v \in DOMAIN ballots : i \in Rated(ballots[v])
      BY <2>2 DEF AllLiked, Rated
    <3>2. r.round > 0
      BY <1>2, RecordFields
    <3> QED BY <1>0, <2>2, <3>1, <3>2 DEF LikesKept
  <2>6. ASSUME NEW i \in Items \ forgotten, Liking(s, i), NEW u \in connected,
               i \notin Past(u) \cup Rated(Voting(u))
        PROVE  i \in s.queue[u]
    <3>1. /\ i \notin s.seen[u] /\ u \in DOMAIN bs /\ u \in DOMAIN r.queue
          /\ s.queue[u] = (r.queue[u] \ (AllRated(bs) \ AllLiked(bs)))
                             \cup (AllLiked(bs) \ s.seen[u])
      BY <1>0, <2>1, <2>2, <2>3, <2>6 DEF Refilled
    <3>2. CASE i \in AllLiked(bs)
      BY <3>1, <3>2
    <3>3. CASE i \notin AllLiked(bs)
      <4>1. Liking(r, i)
        BY <2>4, <2>6, <3>3 DEF Liking
      <4>2. i \in r.queue[u]
        BY <1>0, <2>6, <4>1 DEF LikesKept
      <4>3. ASSUME NEW v \in DOMAIN bs, i \in Rated(bs[v]) PROVE FALSE
        <5>1. v \in Members /\ i \in ballots[v].other
          BY <2>2, <3>3, <4>3 DEF Rated, AllLiked
        <5>2. i \notin Past(v)
          BY <1>0, <2>2, <2>6, <4>3, <5>1 DEF AskedOnce
        <5>3. i \in Disliked(v)
          BY <1>0, <2>2, <4>3, <5>1, <5>2 DEF Disliked, Past
        <5> QED BY <2>6, <5>1, <5>3 DEF Liking
      <4>4. i \notin AllRated(bs)
        BY <4>3 DEF AllRated
      <4> QED BY <3>1, <4>2, <4>4
    <3> QED BY <3>2, <3>3
  <2> QED BY <2>3, <2>4, <2>5, <2>6, <1>2 DEF LikesKept
<1> QED BY <1>1, <1>2, RedistributeCases

LEMMA RedistributionInit == Init => RedistributionInv
<1> SUFFICES ASSUME Init PROVE RedistributionInv
  OBVIOUS
<1>1. \A u \in Members : Past(u) = {}
  BY DEF Init, Past, Rated, NoOpinion
<1>2. AskedOnce
  BY <1>1 DEF AskedOnce
<1>3. VotesKept(record)
  BY <1>1, BlankRecord DEF Init, VotesKept
<1>4. LikesKept(record)
  BY <1>1, BlankRecord DEF Init, LikesKept, Liking
<1> QED BY <1>2, <1>3, <1>4 DEF Init, RedistributionInv

\* Steps that ask nobody for more and leave the record alone.
LEMMA NothingMoreAsked ==
    ASSUME IInv, RedistributionInv, UNCHANGED <<records, forgotten, method>>,
           connected' \subseteq connected,
           \A v \in Members : /\ Past(v)' = Past(v) /\ Open(v)' \subseteq Open(v)
                              /\ Disliked(v) \subseteq Disliked(v)',
           \A v \in connected' : Past(v) \cup Open(v) \subseteq Past(v)' \cup Open(v)'
    PROVE  RedistributionInv'
<1> USE DEF records, RedistributionInv
<1>0. connected \subseteq Members
  BY DEF IInv, TypeOK
<1>1. VotesKept(record)'
  <2>1. /\ \A u \in Members : Past(u)' \subseteq record.voted \cup forgotten
        /\ \A u \in Members : \A i \in Past(u)' \ (record.seen[u] \cup forgotten) : Dead(record, i)'
    BY DEF VotesKept, Dead
  <2>2. ASSUME NEW u \in DOMAIN record.queue
        PROVE  record.queue[u] \cap (Open(u)' \cup (Past(u)' \ forgotten)) = {}
    <3>1. u \in Members
      BY RecordFields DEF IInv, TypeOK
    <3> QED BY <3>1 DEF VotesKept
  <2> QED BY <2>1, <2>2 DEF VotesKept
<1>2. LikesKept(record)'
  <2>1. \A i \in Items : Liking(record, i)' => Liking(record, i)
    BY DEF Liking
  <2> QED BY <1>0, <2>1 DEF LikesKept
<1>3. AskedOnce'
  BY DEF AskedOnce
<1> QED BY <1>1, <1>2, <1>3

\* What was on the deck is in hand.
LEMMA RedistributionFinishDeck ==
    ASSUME IInv, RedistributionInv, NEW u \in Members, FinishDeck(u)
    PROVE  RedistributionInv'
<1> USE DEF FinishDeck, session, records, round
<1>1. /\ u \notin DOMAIN inHand /\ DOMAIN inHand' = DOMAIN inHand \cup {u}
      /\ inHand'[u].items = Shown(deck[u])
      /\ \A v \in DOMAIN inHand : inHand'[v] = inHand[v]
  BY DEF With
<1>2. deck'[u] = NoDeck /\ \A v \in Members \ {u} : deck'[v] = deck[v]
  BY DEF IInv, TypeOK
<1>3. ASSUME NEW v \in Members
      PROVE  /\ Past(v)' = Past(v) /\ Open(v)' = Open(v) /\ Disliked(v)' = Disliked(v)
  <2>1. Past(v)' = Past(v) /\ Voting(v)' = Voting(v) /\ Disliked(v)' = Disliked(v)
    BY DEF Past, Voting, Disliked
  <2>2. Asked(v)' = Asked(v)
    BY <1>1, <1>2 DEF Asked, Shown, NoDeck
  <2> QED BY <2>1, <2>2 DEF Open
<1> QED BY <1>3, NothingMoreAsked DEF IInv, TypeOK

\* What was in hand is in the round.
LEMMA RedistributionEvaluateVote ==
    ASSUME IInv, InTime, RedistributionInv, NEW u \in connected, EvaluateVote(u)
    PROVE  RedistributionInv'
<1> USE DEF EvaluateVote, session, records, screens
<1>1. PICK liked \in SUBSET inHand[u].items :
        ballots' = With(ballots, u, [liked |-> liked, other |-> inHand[u].items \ liked])
  OBVIOUS
<1>2. /\ u \notin DOMAIN ballots /\ DOMAIN ballots' = DOMAIN ballots \cup {u}
      /\ ballots'[u] = [liked |-> liked, other |-> inHand[u].items \ liked]
      /\ \A v \in DOMAIN ballots : ballots'[v] = ballots[v]
  BY <1>1 DEF With
<1>3. /\ u \in DOMAIN inHand /\ DOMAIN inHand' = DOMAIN inHand \ {u}
      /\ \A v \in DOMAIN inHand' : inHand'[v] = inHand[v]
      /\ deck[u] = NoDeck
  BY DEF Without, InTime
<1>4. ASSUME NEW v \in Members
      PROVE  /\ Past(v)' = Past(v) /\ Open(v)' = Open(v) /\ Disliked(v) \subseteq Disliked(v)'
  <2>1. Past(v)' = Past(v)
    BY DEF Past
  <2>2. CASE v = u
    <3>1. /\ Voting(v) = NoOpinion
          /\ Voting(v)' = [liked |-> liked, other |-> inHand[u].items \ liked]
      BY <1>2, <2>2 DEF Voting
    <3>2. /\ Asked(v) = inHand[u].items /\ Asked(v)' = {}
          /\ Rated(Voting(v)) = {} /\ Rated(Voting(v))' = inHand[u].items
      BY <1>3, <2>2, <3>1 DEF Asked, Rated, Shown, NoOpinion, NoDeck
    <3>3. Disliked(v) \subseteq Disliked(v)'
      BY <3>1 DEF Disliked, NoOpinion
    <3> QED BY <2>1, <2>2, <3>2, <3>3 DEF Open
  <2>3. CASE v # u
    <3>1. Voting(v)' = Voting(v)
      BY <1>2, <2>3 DEF Voting
    <3>2. Asked(v)' = Asked(v)
      BY <1>3, <2>3 DEF Asked
    <3> QED BY <2>1, <3>1, <3>2 DEF Open, Disliked
  <2> QED BY <2>2, <2>3
<1> QED BY <1>4, NothingMoreAsked DEF IInv, TypeOK

LEMMA RedistributionLeave ==
    ASSUME IInv, RedistributionInv, NEW u \in Members, Leave(u)
    PROVE  RedistributionInv'
<1> USE DEF Leave, session, records, screens, round, RequestEndOfRecommendation
<1>1. ASSUME NEW v \in Members
      PROVE  /\ Past(v)' = Past(v) /\ Disliked(v)' = Disliked(v)
             /\ Open(v)' \subseteq Open(v)
             /\ v # u => Open(v)' = Open(v)
  <2>1. /\ Past(v)' = Past(v) /\ Voting(v)' = Voting(v) /\ Disliked(v)' = Disliked(v)
        /\ Asked(v)' = Asked(v)
    BY DEF Past, Voting, Disliked, Asked
  <2> QED BY <2>1 DEF Open
<1>2. connected' = connected \ {u} /\ connected \subseteq Members
  BY DEF IInv, TypeOK
<1>3. UNCHANGED <<records, forgotten, method>>
  OBVIOUS
<1> HIDE DEF Leave, session, records, screens, round, RequestEndOfRecommendation
<1>4. \A v \in connected' : Past(v) \cup Open(v) \subseteq Past(v)' \cup Open(v)'
  BY <1>1, <1>2
<1>5. connected' \subseteq connected
  BY <1>2
<1> QED BY <1>1, <1>3, <1>4, <1>5, NothingMoreAsked

\* Steps that leave what is voted on as it is, and perhaps change the record.
LEMMA RedistributionOver ==
    ASSUME RedistributionInv,
           UNCHANGED <<connected, screens, inHand, round, rated, forgotten, method>>,
           VotesKept(record'), LikesKept(record'),
           hasRecord' => connected \subseteq DOMAIN record'.queue
    PROVE  RedistributionInv'
<1> USE DEF screens, round
<1>1. ASSUME NEW v
      PROVE  /\ Past(v)' = Past(v) /\ Open(v)' = Open(v) /\ Disliked(v)' = Disliked(v)
  BY DEF Past, Open, Asked, Disliked, Voting
<1>2. VotesKept(record)'
  BY <1>1 DEF VotesKept, Dead
<1>3. LikesKept(record)'
  BY <1>1 DEF LikesKept, Liking
<1>4. AskedOnce'
  BY <1>1 DEF RedistributionInv, AskedOnce
<1> QED BY <1>2, <1>3, <1>4 DEF RedistributionInv

LEMMA RedistributionStop ==
    ASSUME RedistributionInv, Match \/ RefuseToAsk \/ RequestNextData \/ UNCHANGED vars
    PROVE  RedistributionInv'
<1>1. /\ UNCHANGED <<connected, screens, inHand, round, rated, forgotten, method>>
      /\ UNCHANGED records
  BY DEF Match, RefuseToAsk, RequestNextData, vars, session
<1> QED BY <1>1, RedistributionOver DEF RedistributionInv, records

LEMMA RedistributionFails ==
    ASSUME IInv, RedistributionInv, NEW n \in DOMAIN asked, RequestFails(n)
    PROVE  RedistributionInv'
<1>1. UNCHANGED <<connected, screens, inHand, round, rated, forgotten, method>>
  BY DEF RequestFails, session
<1>2. CASE UNCHANGED records
  BY <1>1, <1>2, RedistributionOver DEF RedistributionInv, records
<1>3. PICK q : q = asked[n]
  OBVIOUS
<1>4. CASE record' = UpdateGroupData(EnsureInitialized(q), q)
  <2>1. phase = "voting" /\ connected \subseteq q.users
    BY <1>3 DEF RequestFails, IInv, RecordInv
  <2>2. PICK r : r = EnsureInitialized(q)
    OBVIOUS
  <2>3. r \in Records /\ VotesKept(r) /\ LikesKept(r) /\ connected \subseteq DOMAIN r.queue
    BY <1>3, <2>1, <2>2, RecordAsked, RecordKept
  <2>4. /\ VotesKept(record') /\ LikesKept(record')
        /\ connected \subseteq DOMAIN record'.queue
    BY <1>4, <2>2, <2>3, GroupDataKept, GroupDataFields
  <2> QED BY <1>1, <2>4, RedistributionOver
<1> QED BY <1>2, <1>3, <1>4 DEF RequestFails

\* A restart forgets all votes, which then count as forgotten.
LEMMA RedistributionRestart ==
    ASSUME IInv, RedistributionInv, Restart
    PROVE  RedistributionInv'
<1> USE DEF Restart, session, screens, round
<1>1. /\ record'.voted = {} /\ DOMAIN record'.queue = {} /\ record'.round = 0
      /\ record'.seen = [u \in Members |-> {}] /\ record'.fans = [i \in Items |-> {}]
  BY BlankRecord
<1>2. ASSUME NEW v \in Members
      PROVE  Past(v)' \subseteq forgotten' /\ Past(v)' = Past(v)
  BY DEF Past
<1>3. AskedOnce'
  BY <1>2 DEF AskedOnce
<1>4. VotesKept(record)'
  BY <1>1, <1>2 DEF VotesKept
<1>5. LikesKept(record)'
  BY <1>1 DEF LikesKept, Liking
<1> QED BY <1>3, <1>4, <1>5 DEF RedistributionInv

\* A request: what the new decks and queues hold was not voted on by their members.
LEMMA RedistributionRecommendNext ==
    ASSUME IInv, InTime, RedistributionInv, NEW n \in DOMAIN asked, RecommendNext(n)
    PROVE  RedistributionInv'
<1>q. PICK q : q = asked[n]
  OBVIOUS
<1>0. /\ phase = "voting" /\ q.votes = ballots /\ AreBallots(ballots)
      /\ q.users \subseteq Members /\ connected \subseteq q.users
      /\ connected \subseteq DOMAIN ballots /\ connected \subseteq Members
  BY <1>q, RequestTyped DEF RecommendNext, InTime, IInv, RecordInv, TypeOK
<1>1. PICK s, decks :
        /\ s = Redistribute(UpdateGroupData(EnsureInitialized(q), q), ballots)
        /\ s \in Records /\ QueuesVoted(s) /\ s.round = record.round
        /\ Deal(decks) /\ record' = AfterRound(s, decks)
        /\ connected \subseteq DOMAIN decks
        /\ \A u \in DOMAIN decks :
              /\ decks[u] \in Decks
              /\ decks[u].fresh \cap decks[u].again = {}
              /\ decks[u].fresh \cap s.voted = {}
              /\ \/ decks[u].again = {}
                 \/ u \in DOMAIN s.queue /\ decks[u].again \subseteq s.queue[u]
  BY <1>q, <1>0, RequestAnswered
<1>2. PICK R0 : R0 = EnsureInitialized(q)
  OBVIOUS
<1>3. /\ R0 \in Records /\ QueuesVoted(R0) /\ VotesKept(R0) /\ LikesKept(R0)
      /\ connected \subseteq DOMAIN R0.queue
  BY <1>q, <1>0, <1>2, RecordAsked, RecordKept
<1>r. PICK R1 : R1 = UpdateGroupData(R0, q)
  OBVIOUS
<1>4. /\ R1 \in Records /\ QueuesVoted(R1) /\ VotesKept(R1) /\ LikesKept(R1)
      /\ connected \subseteq DOMAIN R1.queue /\ AllRated(ballots) \subseteq R1.voted
  <2>1. AreBallots(q.votes)
    BY <1>0
  <2>2. /\ R1 \in Records /\ R1.queue = R0.queue /\ AllRated(q.votes) \subseteq R1.voted
        /\ QueuesVoted(R1)
    BY <1>0, <1>3, <1>r, <2>1, GroupDataUpdated
  <2>3. VotesKept(R1) /\ LikesKept(R1)
    BY <1>3, <1>r, GroupDataKept
  <2> QED BY <1>0, <1>3, <2>2, <2>3
<1>5. s = Redistribute(R1, ballots) /\ s.voted = R1.voted /\ DOMAIN s.queue = DOMAIN R1.queue
  <2>1. s = Redistribute(R1, ballots)
    BY <1>1, <1>2, <1>r
  <2> QED BY <1>0, <1>4, <2>1, Redistributed
<1>6. /\ \A u \in DOMAIN s.queue :
            s.queue[u] \cap (Rated(Voting(u)) \cup (Past(u) \ forgotten)) = {}
      /\ s.round = 0 \/ method = "SYNC" => \A u \in DOMAIN s.queue : s.queue[u] = {}
      /\ \A u \in Members :
            \A i \in (Past(u) \cup Rated(Voting(u))) \ (s.seen[u] \cup forgotten) :
               i \in s.voted /\ \A v \in DOMAIN s.queue : i \notin s.queue[v]
  BY <1>0, <1>4, <1>5, VotesRedistributed
<1>7. /\ \A u \in Members : s.seen[u] \subseteq Past(u) \cup Rated(Voting(u))
      /\ \A i \in Items : s.fans[i] # {} => i \notin Cardless
      /\ \A i \in Items \ forgotten :
            Liking(s, i) => \A u \in connected :
                               i \in Past(u) \cup Rated(Voting(u)) \cup s.queue[u]
  BY <1>0, <1>4, <1>5, LikesRedistributed DEF RedistributionInv
<1>8. /\ record'.round = s.round + 1 /\ s.round \in Nat /\ record'.voted = s.voted
      /\ record'.seen = s.seen /\ record'.fans = s.fans
      /\ DOMAIN record'.queue = DOMAIN s.queue /\ DOMAIN s.queue \subseteq Members
      /\ \A u \in DOMAIN s.queue :
            record'.queue[u] = IF u \in DOMAIN decks THEN s.queue[u] \ decks[u].again
                               ELSE s.queue[u]
  <2>1. s.round \in Nat /\ DOMAIN s.queue \subseteq Members
    BY <1>1, RecordFields
  <2>2. /\ AfterRound(s, decks).round = s.round + 1 /\ AfterRound(s, decks).voted = s.voted
        /\ AfterRound(s, decks).seen = s.seen /\ AfterRound(s, decks).fans = s.fans
        /\ DOMAIN AfterRound(s, decks).queue = DOMAIN s.queue
        /\ \A u \in DOMAIN s.queue :
              AfterRound(s, decks).queue[u] = IF u \in DOMAIN decks THEN s.queue[u] \ decks[u].again
                                              ELSE s.queue[u]
    BY <1>1, AfterRoundRecord
  <2>3. record' = AfterRound(s, decks)
    BY <1>1
  <2> QED BY <2>1, <2>2, <2>3
<1>9. /\ DOMAIN decks \cap connected = connected /\ ballots' = [v \in {} |-> NoOpinion]
      /\ deck' = [u \in Members |-> IF u \in connected THEN WithCards(decks[u]) ELSE deck[u]]
      /\ rated' = [u \in Members |-> [liked |-> Liked(u), other |-> Disliked(u)]]
      /\ connected' = connected /\ forgotten' = forgotten /\ method' = method
      /\ inHand' = inHand /\ \A u \in connected : u \notin DOMAIN inHand
  <2>1. DOMAIN decks \cap connected = connected
    BY <1>1
  <2>2. PICK served : served = DOMAIN decks \cap connected
    OBVIOUS
  <2>3. /\ ballots' = [v \in {} |-> NoOpinion]
        /\ deck' = [u \in Members |-> IF u \in served THEN WithCards(decks[u]) ELSE deck[u]]
        /\ rated' = [u \in Members |-> [liked |-> Liked(u), other |-> Disliked(u)]]
    BY <1>1, <2>2 DEF Deal
  <2>4. /\ connected' = connected /\ forgotten' = forgotten /\ method' = method
        /\ inHand' = inHand
    BY DEF RecommendNext, session
  <2>5. \A u \in connected : u \notin DOMAIN inHand
    BY <1>0 DEF InTime
  <2> QED BY <2>1, <2>2, <2>3, <2>4, <2>5
<1>10. ASSUME NEW u \in Members
       PROVE  /\ Past(u)' = Past(u) \cup Rated(Voting(u)) /\ Disliked(u)' = Disliked(u)
              /\ Past(u)' \subseteq s.voted \cup forgotten
  <2>1. Past(u)' = Past(u) \cup Rated(Voting(u))
    BY <1>9, PastAndVoting DEF Past
  <2>2. Disliked(u)' = Disliked(u)
    BY <1>9 DEF Disliked, Voting, NoOpinion
  <2>3. Rated(Voting(u)) \subseteq AllRated(ballots)
    BY DEF Voting, NoOpinion, Rated, AllRated
  <2> QED BY <1>4, <1>5, <2>1, <2>2, <2>3 DEF VotesKept
<1>11. ASSUME NEW u \in Members
       PROVE  /\ u \notin connected => Open(u)' = {}
              /\ Open(u)' \cap Cardless = {}
              /\ u \in connected =>
                    /\ Open(u)' \subseteq decks[u].fresh \cup decks[u].again
                    /\ decks[u].again \ Cardless \subseteq Open(u)'
  <2>1. Rated(Voting(u))' = {}
    BY <1>9 DEF Voting, NoOpinion, Rated
  <2>2. u \in connected => Asked(u)' = Shown(WithCards(decks[u]))
    BY <1>9 DEF Asked
  <2> QED BY <1>9, <2>1, <2>2 DEF Open, Shown, WithCards
<1>12. ASSUME NEW u \in Members, NEW i \in Open(u)'
       PROVE  /\ u \in connected
              /\ \/ i \notin s.voted
                 \/ /\ u \in DOMAIN s.queue /\ i \in s.queue[u]
                    /\ i \in decks[u].again
  BY <1>1, <1>11, <1>12
<1>13. AskedOnce'
  <2>1. ASSUME NEW u \in Members, NEW i \in Open(u)', i \in Past(u)' PROVE i \in forgotten
    BY <1>6, <1>10, <1>12, <2>1
  <2> QED BY <1>9, <2>1 DEF AskedOnce
<1>14. VotesKept(record)'
  <2>1. ASSUME NEW u \in DOMAIN s.queue, NEW i \in record'.queue[u]
        PROVE  i \notin Open(u)' /\ i \notin Past(u)' \ forgotten
    <3>1. u \in Members /\ i \in s.queue[u] /\ i \in s.voted
      <4>1. i \in s.queue[u] /\ u \in Members
        BY <1>8, <2>1
      <4>2. s.queue[u] \subseteq s.voted
        BY <1>1, <2>1 DEF QueuesVoted
      <4> QED BY <4>1, <4>2
    <3>2. i \notin Open(u)'
      BY <1>1, <1>8, <1>12, <2>1, <3>1
    <3>3. i \notin Past(u)' \ forgotten
      BY <1>6, <1>10, <3>1
    <3> QED BY <3>2, <3>3
  <2>2. record'.round <= 1 \/ method = "SYNC" => \A u \in DOMAIN s.queue : record'.queue[u] = {}
    <3>1. record'.round <= 1 => s.round = 0
      BY <1>8
    <3>2. \A u \in DOMAIN s.queue : s.queue[u] = {} => record'.queue[u] = {}
      BY <1>8
    <3> QED BY <1>6, <3>1, <3>2
  <2>3. ASSUME NEW u \in Members, NEW i \in Past(u)' \ (s.seen[u] \cup forgotten)
        PROVE  Dead(record, i)'
    <3>1. i \in s.voted /\ \A v \in DOMAIN s.queue : i \notin s.queue[v]
      BY <1>6, <1>10, <2>3
    <3>2. \A v \in Members : i \notin Open(v)'
      BY <1>12, <3>1
    <3>3. \A v \in DOMAIN record'.queue : i \notin record'.queue[v]
      BY <1>8, <3>1
    <3> QED BY <1>8, <3>1, <3>2, <3>3 DEF Dead
  <2> QED BY <1>8, <1>9, <1>10, <2>1, <2>2, <2>3 DEF VotesKept
<1>15. LikesKept(record)'
  <2>1. ASSUME NEW i \in Items \ forgotten, Liking(record, i)', NEW u \in connected
        PROVE  i \in Past(u)' \cup Open(u)' \cup record'.queue[u]
    <3>1. u \in Members /\ u \in DOMAIN decks /\ u \in DOMAIN s.queue
      BY <1>0, <1>1, <1>4, <1>5
    <3>2. Liking(s, i)
      BY <1>8, <1>10, <2>1 DEF Liking
    <3>3. i \in Past(u)' \cup s.queue[u] /\ i \notin Cardless
      BY <1>7, <1>10, <3>1, <3>2 DEF Liking
    <3> QED BY <1>8, <1>11, <3>1, <3>3
  <2>2. \A u \in Members : s.seen[u] \subseteq Past(u)' /\ Open(u)' \cap Cardless = {}
    BY <1>7, <1>10, <1>11
  <2> QED BY <1>7, <1>8, <1>9, <2>1, <2>2 DEF LikesKept
<1> QED BY <1>4, <1>5, <1>8, <1>9, <1>13, <1>14, <1>15 DEF RedistributionInv

\* It holds as long as no ballot came late.
LEMMA RedistributionNext ==
    IInv /\ ServedInv /\ (~late => RedistributionInv) /\ [Next]_vars => (~late' => RedistributionInv')
<1> SUFFICES ASSUME IInv, ServedInv, ~late => RedistributionInv, [Next]_vars, ~late'
             PROVE  RedistributionInv'
  OBVIOUS
<1>1. ASSUME NEW u \in Members, EvaluateVote(u) PROVE ~late /\ u \in connected
  BY <1>1 DEF EvaluateVote
<1>2. ~late
  <2>1. CASE \E u \in Members : EvaluateVote(u)
    BY <1>1, <2>1
  <2>2. ASSUME NEW u \in Members, FinishDeck(u) PROVE late' = late
    BY <2>2 DEF FinishDeck
  <2>3. ASSUME NEW u \in Members, Leave(u) PROVE late' = late
    BY <2>3 DEF Leave
  <2>4. CASE Match \/ RefuseToAsk \/ RequestNextData \/ UNCHANGED vars
    BY <2>4 DEF Match, RefuseToAsk, RequestNextData, vars
  <2>5. ASSUME NEW n \in DOMAIN asked, RecommendNext(n) PROVE late' = late
    BY <2>5 DEF RecommendNext
  <2>6. ASSUME NEW n \in DOMAIN asked, RequestFails(n) PROVE late' = late
    BY <2>6 DEF RequestFails
  <2>7. CASE Restart
    BY <2>7 DEF Restart
  <2> QED BY <2>1, <2>2, <2>3, <2>4, <2>5, <2>6, <2>7 DEF Next
<1>3. RedistributionInv /\ InTime
  BY <1>2 DEF ServedInv
<1>4. ASSUME NEW u \in Members, FinishDeck(u) PROVE RedistributionInv'
  BY <1>3, <1>4, RedistributionFinishDeck
<1>5. ASSUME NEW u \in Members, EvaluateVote(u) PROVE RedistributionInv'
  BY <1>1, <1>3, <1>5, RedistributionEvaluateVote
<1>6. ASSUME NEW u \in Members, Leave(u) PROVE RedistributionInv'
  BY <1>3, <1>6, RedistributionLeave
<1>7. CASE Match \/ RefuseToAsk \/ RequestNextData \/ UNCHANGED vars
  BY <1>3, <1>7, RedistributionStop
<1>8. ASSUME NEW n \in DOMAIN asked, RecommendNext(n) PROVE RedistributionInv'
  BY <1>3, <1>8, RedistributionRecommendNext
<1>9. ASSUME NEW n \in DOMAIN asked, RequestFails(n) PROVE RedistributionInv'
  BY <1>3, <1>9, RedistributionFails
<1>10. CASE Restart
  BY <1>3, <1>10, RedistributionRestart
<1> QED BY <1>4, <1>5, <1>6, <1>7, <1>8, <1>9, <1>10 DEF Next

LEMMA RedistributionKeeps ==
    IInv /\ ServedInv /\ (~late => RedistributionInv) => NeverAskedTwice /\ LikedReachesAll
<1> SUFFICES ASSUME IInv, InTime, RedistributionInv PROVE NeverAskedTwice /\ LikedReachesAll
  BY DEF ServedInv, NeverAskedTwice, LikedReachesAll
<1>1. connected \subseteq Members
  BY DEF IInv, TypeOK
<1>2. NeverAskedTwice
  <2>1. ASSUME NEW u \in connected
        PROVE  Asked(u) \cap (Liked(u) \cup Disliked(u)) \subseteq forgotten
    <3>1. CASE u \in DOMAIN ballots
      BY <3>1 DEF InTime, Asked, Shown, NoDeck
    <3>2. CASE u \notin DOMAIN ballots
      <4>1. Liked(u) \cup Disliked(u) = Past(u)
        BY <3>2, PastAndVoting DEF Voting, NoOpinion, Rated
      <4> QED BY <1>1, <4>1 DEF RedistributionInv, AskedOnce, Open
    <3> QED BY <3>1, <3>2
  <2> QED BY <2>1 DEF NeverAskedTwice
<1>3. LikedReachesAll
  <2>1. ASSUME NEW i \in Items \ forgotten, Liking(record, i), NEW u \in connected
        PROVE  i \in Liked(u) \cup Disliked(u) \cup Asked(u) \cup record.queue[u]
    <3>1. i \in Past(u) \cup Open(u) \cup record.queue[u]
      BY <2>1 DEF RedistributionInv, LikesKept
    <3> QED BY <3>1, PastAndVoting DEF Open
  <2> QED BY <2>1 DEF LikedReachesAll, Liking
<1> QED BY <1>2, <1>3

-----------------------------------------------------------------------------
(* The theorems. *)

\* The strengthening holds in every state: no step of the session or of the
\* recommender leaves it.
THEOREM Invariance == Spec => []IInv
BY InvInit, InvNext, PTL DEF Spec

\* Every variable has its type; in particular a session without a record keeps
\* nothing of an earlier one.
THEOREM TypeCorrect == Spec => []TypeOK
BY Invariance, PTL DEF IInv

\* No deck shows an item as a recommended and as a redistributed one: what waits in
\* a queue was voted on, and what was voted on is not recommended; late ballots or not.
THEOREM DecksDisjoint == Spec => []DecksRepeatNothing
BY Invariance, PTL DEF IInv

\* While the session goes on and no ballot was counted late, everybody who is there has
\* a deck or a ballot under way: a round that is complete then has the ballots of
\* everybody who is still there, and the decks of an answer are made for everybody.
THEOREM EverybodyIsServed == Spec => []EverybodyServed
<1>1. IInv /\ ServedInv /\ [Next]_vars => (IInv /\ ServedInv)'
  BY InvNext, ServedNext
<1>2. ServedInv => EverybodyServed
  BY DEF ServedInv
<1> QED BY <1>1, <1>2, InvInit, ServedInit, PTL DEF Spec

\* After every request, also one a late ballot has led to, the group model tracks the
\* members of the request, although it compares only their number: nobody joins a
\* running session, so that equal numbers mean equal members, except for the
\* placeholder, and there are always two.
THEOREM ModelFollowsMembers == Spec => GroupModelFollows
<1>1. IInv /\ [Next]_vars =>
        [record'.round > record.round =>
           \E n \in DOMAIN asked \ DOMAIN asked' : record'.tracked = asked[n].users]_vars
  <2> SUFFICES ASSUME IInv, Next, record'.round > record.round
               PROVE  \E n \in DOMAIN asked \ DOMAIN asked' : record'.tracked = asked[n].users
    OBVIOUS
  <2>1. record.round \in Nat
    BY RecordFields DEF IInv, TypeOK
  <2>2. ASSUME NEW n \in DOMAIN asked, RecommendNext(n)
        PROVE  n \notin DOMAIN asked' /\ record'.tracked = asked[n].users
    <3>1. PICK q : q = asked[n]
      OBVIOUS
    <3>2. record'.tracked = q.users
      BY <2>2, <3>1, RequestAnswered
    <3>3. DOMAIN asked' = DOMAIN asked \ {n}
      BY <2>2 DEF RecommendNext, Without
    <3> QED BY <3>1, <3>2, <3>3
  <2>3. ASSUME NEW n \in DOMAIN asked, RequestFails(n) PROVE FALSE
    BY <2>1, <2>3, RequestFailed
  <2>4. CASE Restart
    <3>1. record'.round = 0
      BY <2>4 DEF Restart, NoRecord
    <3> QED BY <2>1, <3>1
  <2>5. ASSUME record' = record PROVE FALSE
    BY <2>1, <2>5
  <2>6. CASE Match \/ RefuseToAsk \/ RequestNextData
    BY <2>5, <2>6 DEF Match, RefuseToAsk, RequestNextData, records
  <2>7. ASSUME NEW u \in Members, FinishDeck(u) PROVE FALSE
    BY <2>5, <2>7 DEF FinishDeck, records
  <2>8. ASSUME NEW u \in Members, EvaluateVote(u) PROVE FALSE
    BY <2>5, <2>8 DEF EvaluateVote, records
  <2>9. ASSUME NEW u \in Members, Leave(u) PROVE FALSE
    BY <2>5, <2>9 DEF Leave, RequestEndOfRecommendation, records
  <2> QED BY <2>2, <2>3, <2>4, <2>6, <2>7, <2>8, <2>9 DEF Next
<1> QED BY <1>1, Invariance, PTL DEF Spec, GroupModelFollows

LEMMA RedistributionHolds == Spec => [](IInv /\ ServedInv /\ (~late => RedistributionInv))
<1>1. IInv /\ ServedInv /\ (~late => RedistributionInv) /\ [Next]_vars
        => (IInv /\ ServedInv /\ (~late => RedistributionInv))'
  BY InvNext, ServedNext, RedistributionNext
<1> QED BY <1>1, InvInit, ServedInit, RedistributionInit, PTL DEF Spec

\* As long as no ballot was counted late, nobody is asked about an item he has voted on,
\* unless the recommender was restarted since: what is new on a deck is excluded by all
\* votes, and what a queue brings back its member has not voted on, although the
\* redistribution is told nothing of the first round's votes and of items all have
\* voted on in the second.
THEOREM NobodyAskedTwice == Spec => []NeverAskedTwice
BY RedistributionHolds, RedistributionKeeps, PTL

\* As long as no ballot was counted late, what somebody likes and nobody rejects reaches
\* everybody who stays, whatever order the queues deal in, how many rounds there are and
\* who leaves in between.
THEOREM LikesReachEverybody == Spec => []LikedReachesAll
BY RedistributionHolds, RedistributionKeeps, PTL

=============================================================================
