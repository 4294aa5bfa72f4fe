--------------------------- MODULE GroupRecommender ---------------------------
(***************************************************************************)
(* The rounds of one running session as the recommender sees them: the     *)
(* session record it keeps in memory, the group model's idea of who is     *)
(* there, and the redistribution of liked items (SYNC, ASYNC and HYBRID    *)
(* methods, for movies and restaurants).  The matching service is modelled *)
(* as far as it decides what the recommender is asked, and when: ballots,  *)
(* counted a while after they were sent, members leaving, one request for  *)
(* every ballot that completes a round.                                    *)
(*                                                                         *)
(* A request is processed and answered in one step: recommend_next holds   *)
(* the session's lock, and until the answer is in nobody but it sees what  *)
(* has changed.  Two requests overlap only after a ballot that came late;  *)
(* then the order they are processed in is free, and that of the answers   *)
(* is the same.  The numerical models may rank the catalogue in any of the *)
(* given ways, anew for every request and member; priorities in a queue    *)
(* are free.                                                               *)
(***************************************************************************)
EXTENDS FiniteSetsExt

CONSTANTS
    Members,
    Items,          \* the catalogue
    Cardless,       \* items the provider of cards has no data for
    InitDeck,       \* the deck members vote on before the first request, if any
    Kinds,          \* the activities and methods of sessions
    Rankings,       \* how a model can rank the catalogue, or the part of it that the price, the
                    \* distance or similar titles leave: better items have lower numbers
    Window,         \* deck_size
    Shared,         \* first_round_ratio: items of a first deck that all have in common
    Threshold,      \* t of ThresholdPolicyStatic
    Nobody,         \* the placeholder a movie group model starts with
    MaxRequests     \* bound on the requests explored

ASSUME RecommenderAssumption ==
    /\ IsFiniteSet(Members) /\ Nobody \notin Members /\ InitDeck \subseteq Items
    /\ Cardless \subseteq Items
    /\ Kinds \subseteq {"MOVIE", "RESTAURANT"} \X {"HYBRID", "ASYNC", "SYNC"}
    /\ \A rank \in Rankings : DOMAIN rank \subseteq Items /\ \A i \in DOMAIN rank : rank[i] \in Nat
    /\ {Window, Shared, Threshold, MaxRequests} \subseteq Nat
    /\ Shared <= Window /\ Threshold <= Window

VARIABLES
    activity, method, creator,   \* what the session was created with, and by whom
    choosers,    \* members who sent the categories a restaurant needs
    phase,       \* "voting", "resolving" (a ballot has completed the round) or "over"
    connected,   \* members whose isConnected flag is set
    deck,        \* the deck on each member's screen: fresh and redistributed items
    holding,     \* members with a deck they have not finished
    inHand,      \* ballots that wait for an UPDATE: the items, and the snapshot's size
    size,        \* ballots the pending round waits for; 0: no round is pending
    ballots,     \* the ballots of the pending round, by voter
    rated,       \* what each member has liked and not liked, in requests up to now
    hasRecord, record,   \* _session_records of the session
    forgotten,   \* items voted on before the recommender was restarted
    requests,    \* requests that were sent
    asked,       \* those not answered yet: their members and the ballots of their round
    late         \* history: a ballot was counted of a member who had left

session == <<activity, method, creator, choosers>>
screens == <<deck, holding>>
round == <<size, ballots>>
records == <<hasRecord, record>>
sent == <<requests, asked>>
vars == <<session, phase, connected, screens, inHand, round, rated, records, forgotten,
          sent, late>>

With(f, x, y) == [z \in DOMAIN f \cup {x} |-> IF z = x THEN y ELSE f[z]]
Without(f, x) == [z \in DOMAIN f \ {x} |-> f[z]]

Opinions == [liked : SUBSET Items, other : SUBSET Items]
NoOpinion == [liked |-> {}, other |-> {}]
Rated(o) == o.liked \cup o.other
AllRated(os) == UNION {Rated(os[v]) : v \in DOMAIN os}
AllLiked(os) == UNION {os[v].liked : v \in DOMAIN os}

Decks == [fresh : SUBSET Items, again : SUBSET Items]
NoDeck == [fresh |-> {}, again |-> {}]
Shown(d) == d.fresh \cup d.again

Records ==
    [round : Nat, users : SUBSET Members,
     tracked : SUBSET (Members \cup {Nobody}),
     queue : UNION {[S -> SUBSET Items] : S \in SUBSET Members},
     seen : [Members -> SUBSET Items],
     fans : [Items -> SUBSET Members],
     voted : SUBSET Items]

NoRecord ==
    [round |-> 0, users |-> {}, tracked |-> {}, queue |-> [u \in {} |-> {}],
     seen |-> [u \in Members |-> {}], fans |-> [i \in Items |-> {}], voted |-> {}]

NoRequest == [users |-> {}, votes |-> [v \in {} |-> NoOpinion]]
AreBallots(bs) == DOMAIN bs \subseteq Members /\ \A v \in DOMAIN bs : bs[v] \in Opinions

TypeOK ==
    /\ <<activity, method>> \in Kinds /\ creator \in Members /\ choosers \subseteq Members
    /\ phase \in {"voting", "resolving", "over"}
    /\ connected \subseteq Members /\ holding \subseteq Members
    /\ deck \in [Members -> Decks]
    /\ DOMAIN inHand \subseteq Members
    /\ \A v \in DOMAIN inHand :
          inHand[v] \in [items : SUBSET Items, size : 1..Cardinality(Members)]
    /\ size \in 0..Cardinality(Members)
    /\ AreBallots(ballots)
    /\ rated \in [Members -> Opinions]
    /\ hasRecord \in BOOLEAN /\ record \in Records
    /\ ~hasRecord => record = NoRecord
    /\ forgotten \subseteq Items /\ requests \in 0..MaxRequests
    /\ DOMAIN asked \subseteq 1..requests
    /\ \A n \in DOMAIN asked : asked[n].users \subseteq Members /\ AreBallots(asked[n].votes)
    /\ late \in BOOLEAN

Init ==
    /\ \E kind \in Kinds : activity = kind[1] /\ method = kind[2]
    /\ creator \in Members
    /\ choosers \in (IF activity = "MOVIE" THEN {{}} ELSE SUBSET Members)
    /\ phase = "voting"
    /\ connected \in {S \in SUBSET Members : Cardinality(S) >= 2}
    /\ deck = [u \in Members |-> IF u \in connected /\ activity = "MOVIE"
                                THEN [fresh |-> InitDeck, again |-> {}] ELSE NoDeck]
    /\ holding = connected /\ inHand = [v \in {} |-> [items |-> {}, size |-> 1]]
    /\ size = 0 /\ ballots = [v \in {} |-> NoOpinion]
    /\ rated = [u \in Members |-> NoOpinion]
    /\ hasRecord = FALSE /\ record = NoRecord
    /\ forgotten = {} /\ requests = 0 /\ asked = [n \in {} |-> NoRequest] /\ late = FALSE

-----------------------------------------------------------------------------
(* The session record, and what a request q makes of it. *)

\* create: the users of the request; a movie model first tracks a placeholder.
NewRecord(q, tracked) ==
    [NoRecord EXCEPT !.users = q.users, !.tracked = tracked, !.queue = [u \in q.users |-> {}]]
MovieRecord(q) == NewRecord(q, {Nobody})
RestaurantRecord(q) == NewRecord(q, q.users)

InitNewSession(q) == IF activity = "MOVIE" THEN MovieRecord(q) ELSE RestaurantRecord(q)
EnsureInitialized(q) == IF hasRecord THEN record ELSE InitNewSession(q)

\* Mutant: nobody is ever taken out of the group model.
UpdateUsersAddingOnly(users, tracked) ==
    IF Cardinality(users) > Cardinality(tracked) THEN users ELSE tracked

\* update_session_users compares the numbers of members, not the members.
UpdateSessionUsers(users, tracked) ==
    IF Cardinality(users) # Cardinality(tracked) THEN users ELSE tracked

\* Mutant: only liked items are kept from being recommended again.
UpdateGroupDataLikes(r, q) ==
    [r EXCEPT !.users = q.users, !.tracked = UpdateSessionUsers(q.users, @),
              !.voted = @ \cup AllLiked(q.votes)]

\* Movies' methods follow the members, restaurants' keep those they were created with.
UpdateGroupData(r, q) ==
    [r EXCEPT !.users = IF activity = "MOVIE" THEN q.users ELSE @,
              !.tracked = UpdateSessionUsers(q.users, @),
              !.voted = @ \cup AllRated(q.votes)]

-----------------------------------------------------------------------------
(* Redistribution. *)

\* _filter_only_unique_items: without the items every voter has voted on.
Common(bs) == {i \in Items : \A v \in DOMAIN bs : i \in Rated(bs[v])}
OnlyUnique(bs) ==
    [v \in DOMAIN bs |-> [liked |-> bs[v].liked \ Common(bs),
                          other |-> bs[v].other \ Common(bs)]]

SeenAfter(r, bs) ==
    [u \in Members |-> r.seen[u] \cup (IF u \in DOMAIN bs THEN Rated(bs[u]) ELSE {})]
FansAfter(r, bs) == [i \in Items |-> r.fans[i] \cup {v \in DOMAIN bs : i \in bs[v].liked}]

\* Mutant: the queue is replaced by what was liked in the last round.
RefilledAfresh(queue, u, seen, bs) == AllLiked(bs) \ seen[u]

\* What nobody likes leaves a voter's queue, what somebody likes and the voter has
\* not voted on enters it.
Refilled(queue, u, seen, bs) ==
    (queue \ (AllRated(bs) \ AllLiked(bs))) \cup (AllLiked(bs) \ seen[u])

UpdateVotedItems(r, bs) ==
    [r EXCEPT !.seen = SeenAfter(r, bs), !.fans = FansAfter(r, bs),
              !.queue = [u \in DOMAIN @ |-> IF u \in DOMAIN bs
                                            THEN Refilled(@[u], u, SeenAfter(r, bs), bs)
                                            ELSE @[u]]]

Redistribute(r, bs) ==
    IF method = "SYNC" \/ r.round = 0 THEN r
    ELSE UpdateVotedItems(r, IF r.round = 1 THEN OnlyUnique(bs) ELSE bs)

ParameterValue(n) == IF n = 0 THEN 0 ELSE Threshold
Smaller(m, n) == IF m <= n THEN m ELSE n
RedistributedSize(r, u) == Smaller(ParameterValue(r.round), Cardinality(r.queue[u]))

\* The items with the highest priority; priorities are free.
Popped(r, u) == kSubset(RedistributedSize(r, u), r.queue[u])

-----------------------------------------------------------------------------
(* Recommendation. *)

\* Mutant: voted items are excluded unless they wait in a queue.
NotExcludedUnlessQueued(r, more) ==
    Items \ ((r.voted \cup more) \ UNION {r.queue[u] : u \in DOMAIN r.queue})

NotExcluded(r, more) == Items \ (r.voted \cup more)

\* The first k of a ranking: all there is, if there are fewer.
Top(k, S, rank) == {i \in S : Cardinality({j \in S : rank[j] < rank[i]}) < k}
FirstOf(k, S) == {Top(k, S \cap DOMAIN rank, rank) : rank \in Rankings}
GroupTopK(r, k) == FirstOf(k, NotExcluded(r, {}))

\* Restaurants have a ranking for tracked members only.
IndividualTopK(r, u, k, more) ==
    IF activity = "RESTAURANT" /\ u \notin r.tracked THEN {{}}
    ELSE FirstOf(k, NotExcluded(r, more))

\* HYBRID, round 0: common items, and individual ones to fill the window.
FirstDecks(r, u, common) ==
    {[fresh |-> common \cup own, again |-> {}] :
        own \in IndividualTopK(r, u, Window - Shared, common)}
FirstRound(r) ==
    UNION {{decks \in [r.users -> UNION {FirstDecks(r, u, common) : u \in r.users}] :
              \A u \in r.users : decks[u] \in FirstDecks(r, u, common)} :
           common \in GroupTopK(r, Shared)}

\* Redistributed items, and individual ones to fill the window.
NextDecks(r, u) ==
    {[fresh |-> own, again |-> popped] :
        own \in IndividualTopK(r, u, Window - RedistributedSize(r, u), {}),
        popped \in Popped(r, u)}
NextRoundOf(r, users) ==
    {decks \in [users -> UNION {NextDecks(r, u) : u \in users}] :
       \A u \in users : decks[u] \in NextDecks(r, u)}

\* Mutant: a voter who likes nothing is passed over.
NextRoundOfFans(r, bs) == NextRoundOf(r, {u \in DOMAIN bs : bs[u].liked # {}})

\* ASYNC, and HYBRID after round 0.
NextRound(r, bs) == NextRoundOf(r, DOMAIN bs)

\* SYNC: the same for every voter.
SyncRound(r, bs) ==
    {[u \in DOMAIN bs |-> [fresh |-> common, again |-> {}]] :
        common \in GroupTopK(r, Window)}

Recommendations(r, bs) ==
    IF method = "SYNC" THEN SyncRound(r, bs)
    ELSE IF method = "HYBRID" /\ r.round = 0 THEN FirstRound(r)
    ELSE NextRound(r, bs)

\* A voter the record was not created with has no queue: a KeyError.
Unknown(r, bs) == DOMAIN bs \ DOMAIN r.queue
RaisesKeyError(r, bs) ==
    /\ Unknown(r, bs) # {}
    /\ method = "ASYNC" \/ (method = "HYBRID" /\ r.round > 0)

\* The algorithm is read from the parameters of the creator, if connected.
NoAlgorithm(q) == ~hasRecord /\ creator \notin q.users

-----------------------------------------------------------------------------
(* The matching service, and the requests. *)

Voting(u) == IF u \in DOMAIN ballots THEN ballots[u] ELSE NoOpinion

\* The history keeps all votes; the first one on an item counts.
Liked(u) == rated[u].liked \cup (Voting(u).liked \ Rated(rated[u]))
Disliked(u) == rated[u].other \cup (Voting(u).other \ Rated(rated[u]))

\* Mutant: the round waits for one ballot more than there are members.
RoundSizeCounting(u) == IF size = 0 THEN inHand[u].size + 1 ELSE size

\* A round that is opened takes the size in the snapshot of the ballot that opens it.
RoundSize(u) == IF size = 0 THEN inHand[u].size ELSE size

\* handleUserFinishedDeckVoting up to its first await, which neither the connection
\* of the member nor anything else is checked after.  Of one member one ballot is in
\* hand at a time.
FinishDeck(u) ==
    /\ phase = "voting" /\ u \in holding \ DOMAIN inHand /\ requests < MaxRequests
    /\ inHand' = With(inHand, u, [items |-> Shown(deck[u]), size |-> Cardinality(connected)])
    /\ holding' = holding \ {u}
    /\ deck' = [deck EXCEPT ![u] = NoDeck]
    /\ UNCHANGED <<session, phase, connected, round, rated, records, forgotten, sent, late>>

Complete == Cardinality(DOMAIN ballots') >= size'

\* The rest: the ballot joins or opens the pending round.  A second ballot of one
\* member in one round, which only late ballots bring about, is not explored.
EvaluateVote(u) ==
    /\ phase = "voting" /\ u \in DOMAIN inHand \ DOMAIN ballots /\ requests < MaxRequests
    /\ \E liked \in SUBSET inHand[u].items :
          ballots' = With(ballots, u, [liked |-> liked, other |-> inHand[u].items \ liked])
    /\ size' = RoundSize(u)
    /\ inHand' = Without(inHand, u)
    /\ phase' = IF Complete THEN "resolving" ELSE "voting"
    /\ late' = (late \/ u \notin connected)
    /\ UNCHANGED <<session, connected, screens, rated, records, forgotten, sent>>

\* The members are sent without their metadata, which the recommender rejects: it
\* goes on keeping the record.
RequestEndOfRecommendation == UNCHANGED records

\* Disconnected for good: a running session is not joined again.  With one member
\* left it ends, and what ballots in hand do after that is not followed.
Leave(u) ==
    /\ phase = "voting" /\ u \in connected
    /\ connected' = connected \ {u}
    /\ phase' = IF Cardinality(connected') <= 1 THEN "over" ELSE phase
    /\ RequestEndOfRecommendation
    /\ UNCHANGED <<session, screens, inHand, round, rated, forgotten, sent, late>>

\* A complete round is resolved before anything else happens: a match, a refusal, or
\* a request.
Matched == {i \in Items : \A u \in connected : i \in Liked(u)}

\* The session is over; the recommender is told neither of the votes nor of the end.
Match ==
    /\ phase = "resolving" /\ Matched # {}
    /\ phase' = "over"
    /\ UNCHANGED <<session, connected, screens, inHand, round, rated, records, forgotten,
                   sent, late>>

\* Restaurants need the categories of every member.
Mappable == activity = "RESTAURANT" => connected \subseteq choosers

\* A DomainError, before anything is sent.  The complete round stays.
RefuseToAsk ==
    /\ phase = "resolving" /\ Matched = {} /\ ~Mappable
    /\ phase' = "voting"
    /\ UNCHANGED <<session, connected, screens, inHand, round, rated, records, forgotten,
                   sent, late>>

RequestNextData ==
    /\ phase = "resolving" /\ Matched = {} /\ Mappable
    /\ phase' = "voting"
    /\ requests' = requests + 1
    /\ asked' = With(asked, requests', [users |-> connected, votes |-> ballots])
    /\ UNCHANGED <<session, connected, screens, inHand, round, rated, records, forgotten, late>>

\* Items the provider of cards does not know are left out of the answer.
WithCards(d) == [fresh |-> d.fresh \ Cardless, again |-> d.again \ Cardless]

\* The decks go to the members they were made for who are still there, and whichever
\* round is pending by now is removed.
Deal(decks) ==
    LET served == DOMAIN decks \cap connected IN
    /\ holding' = holding \cup served
    /\ deck' = [u \in Members |-> IF u \in served THEN WithCards(decks[u]) ELSE deck[u]]
    /\ size' = 0 /\ ballots' = [v \in {} |-> NoOpinion]
    /\ rated' = [u \in Members |-> [liked |-> Liked(u), other |-> Disliked(u)]]

\* What was popped is gone from the queues, also of those who are not.
AfterRound(r, decks) ==
    [r EXCEPT !.round = @ + 1,
              !.queue = [u \in DOMAIN @ |-> IF u \in DOMAIN decks THEN @[u] \ decks[u].again
                                            ELSE @[u]]]

RecommendNext(n) ==
    /\ phase = "voting" /\ n \in DOMAIN asked /\ ~NoAlgorithm(asked[n])
    /\ LET votes == asked[n].votes
           r == UpdateGroupData(EnsureInitialized(asked[n]), asked[n])
       IN  /\ ~RaisesKeyError(r, votes)
           /\ \E decks \in Recommendations(Redistribute(r, votes), votes) :
                 Deal(decks) /\ record' = AfterRound(Redistribute(r, votes), decks)
    /\ hasRecord' = TRUE
    /\ asked' = Without(asked, n)
    /\ UNCHANGED <<session, phase, connected, inHand, forgotten, requests, late>>

\* Any failure ends the session: the request is lost, the algorithm or a voter is
\* unknown, the database fails.  The record stays, as far as it came.
RequestFails(n) ==
    /\ phase = "voting" /\ n \in DOMAIN asked
    /\ phase' = "over"
    /\ asked' = Without(asked, n)
    /\ \/ UNCHANGED records
       \/ /\ ~NoAlgorithm(asked[n]) /\ hasRecord' = TRUE
          /\ record' = UpdateGroupData(EnsureInitialized(asked[n]), asked[n])
    /\ UNCHANGED <<session, connected, screens, inHand, round, rated, forgotten, requests, late>>

\* The recommender is restarted, once, and its records are gone; when between two
\* answers makes no difference.
Restart ==
    /\ phase = "voting" /\ size = 0 /\ hasRecord /\ forgotten = {}
    /\ hasRecord' = FALSE /\ record' = NoRecord
    /\ forgotten' = UNION {Rated(rated[u]) : u \in Members}
    /\ UNCHANGED <<session, phase, connected, screens, inHand, round, rated, sent, late>>

Next ==
    \/ \E u \in Members : FinishDeck(u) \/ EvaluateVote(u) \/ Leave(u)
    \/ Match \/ RefuseToAsk \/ RequestNextData
    \/ \E n \in DOMAIN asked : RecommendNext(n) \/ RequestFails(n)
    \/ Restart

Spec == Init /\ [][Next]_vars

-----------------------------------------------------------------------------
\* What a member is being asked about: the deck on the screen, or in hand.
Asked(u) == Shown(deck[u]) \cup (IF u \in DOMAIN inHand THEN inHand[u].items ELSE {})

\* "all items user voted for" are excluded and not redistributed: nobody is asked
\* about an item he has voted on, unless the recommender was restarted since, or a
\* ballot counted after its voter had left has completed a round for others.
NeverAskedTwice ==
    ~late => \A u \in connected : Asked(u) \cap (Liked(u) \cup Disliked(u)) \subseteq forgotten

\* A deck shows no item twice, as a recommended and as a redistributed one.
DecksRepeatNothing == \A u \in Members : deck[u].fresh \cap deck[u].again = {}

\* What the redistribution is for: an item somebody liked after the first round,
\* and nobody did not like, reaches everybody who is there: it was voted on, is on
\* the deck, or waits in the queue.  An item voted on before a restart can be voted
\* on again, and rejected, by a member whose first vote counts: it leaves the queues.
\* A round that a late ballot completes does not fill the queues of who is missing.
LikedReachesAll ==
    ~late =>
        \A i \in Items \ forgotten :
            record.fans[i] # {} /\ (\A m \in Members : i \notin Disliked(m))
                => \A u \in connected :
                      i \in Liked(u) \cup Disliked(u) \cup Asked(u) \cup record.queue[u]

\* Everybody who is there has a deck, a ballot in hand or one in the round, as long as
\* no late ballot has completed a round in the place of a member's.
EverybodyServed ==
    phase # "over" /\ ~late => connected \subseteq holding \cup DOMAIN inHand \cup DOMAIN ballots

\* "ensures consistent state inside the session object": comparing numbers is enough
\* for the group model to track, after every request, the members of the request.
GroupModelFollows ==
    [][record'.round > record.round =>
          \E n \in DOMAIN asked \ DOMAIN asked' : record'.tracked = asked[n].users]_vars

=============================================================================
