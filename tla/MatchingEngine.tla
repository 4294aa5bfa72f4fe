---------------------------- MODULE MatchingEngine ----------------------------
(***************************************************************************)
(* SessionMatchingEngine of SessionCoordinator.ts: from the votes and the  *)
(* recommendations of all rounds so far, which items every active member   *)
(* wants, and how the items they all rated are ranked.                     *)
(*                                                                         *)
(* votes is the log of single votes in the order the engine visits them,   *)
(* round after round; recs the log of recommended items.  A recommender's  *)
(* score, a real number from 0 to 1, is a number of ScoreUnits.            *)
(***************************************************************************)
EXTENDS Integers, Sequences, FiniteSets, SequencesExt, FiniteSetsExt

CONSTANTS
    Members,     \* session.members, connected or not
    Items,
    ScoreUnit    \* how many units make a recommender's score of 1

ASSUME EngineAssumption == IsFiniteSet(Members) /\ Members # {} /\ ScoreUnit \in Nat \ {0}

Ratings == {-1, 0, 1}

VoteLogs == Seq([user : Members, item : Items, rating : Ratings])
RecLogs == Seq([user : Members, item : Items, score : 0..ScoreUnit])

Of(log, i) == {k \in DOMAIN log : log[k].item = i}

\* Mutant: a user who rates an item again changes the vote.
RatingsOfLast(votes, i) ==
    LET mine(u) == {k \in Of(votes, i) : votes[k].user = u} IN
    [u \in {votes[k].user : k \in Of(votes, i)} |-> votes[Max(mine(u))].rating]

\* Who rated the item, and how they first did: later ratings do not overwrite.
RatingsOf(votes, i) ==
    LET mine(u) == {k \in Of(votes, i) : votes[k].user = u} IN
    [u \in {votes[k].user : k \in Of(votes, i)} |-> votes[Min(mine(u))].rating]

\* Items rated by every active member.
Candidates(votes, active) ==
    {i \in {votes[k].item : k \in DOMAIN votes} : active \subseteq DOMAIN RatingsOf(votes, i)}

\* The likes of an item less its dislikes.
VoteSum(votes, i) ==
    LET rating == RatingsOf(votes, i) IN
    Cardinality({u \in DOMAIN rating : rating[u] = 1})
        - Cardinality({u \in DOMAIN rating : rating[u] = -1})

\* The highest score each user was recommended the item with.
RecScores(recs, i) ==
    [u \in {recs[k].user : k \in Of(recs, i)} |->
        Max({recs[k].score : k \in {n \in Of(recs, i) : recs[n].user = u}})]

\* The sum of the users' scores, unit by unit.
Total(scores) ==
    Cardinality({p \in (DOMAIN scores) \X (1..ScoreUnit) : p[2] <= scores[p[1]]})

\* Mutant: the recommender's scores are summed, not averaged.
FinalScoreSummed(votes, recs, i) ==
    [num |-> 2 * ScoreUnit * VoteSum(votes, i)
               + Cardinality(Members) * Total(RecScores(recs, i)),
     den |-> 2 * ScoreUnit * Cardinality(Members)]

\* 1 * (sum of votes / members) + 0.5 * (average score), as a fraction.
FinalScore(votes, recs, i) ==
    LET scored == Max({1, Cardinality(DOMAIN RecScores(recs, i))}) IN
    [num |-> 2 * ScoreUnit * scored * VoteSum(votes, i)
               + Cardinality(Members) * Total(RecScores(recs, i)),
     den |-> 2 * ScoreUnit * scored * Cardinality(Members)]

Higher(a, b) == a.num * b.den > b.num * a.den

\* The sort is by falling score; it is stable and starts from the order in which
\* the items were first voted on.
Precedes(votes, recs, i, j) ==
    LET a == FinalScore(votes, recs, i)
        b == FinalScore(votes, recs, j)
    IN Higher(a, b) \/ (~Higher(b, a) /\ Min(Of(votes, i)) < Min(Of(votes, j)))

\* The place of each candidate in the sorted list.
Ranked(votes, recs, active) ==
    LET candidates == Candidates(votes, active) IN
    [i \in candidates |->
        1 + Cardinality({j \in candidates : Precedes(votes, recs, j, i)})]

\* Mutant: any member's dislike prevents a match, also of those who left.
IsMatchOfAll(votes, active, i) ==
    \A u \in active \cup DOMAIN RatingsOf(votes, i) : RatingsOf(votes, i)[u] = 1

\* Mutant: a neutral rating is enough.
IsMatchUnlessDisliked(votes, active, i) == \A u \in active : RatingsOf(votes, i)[u] >= 0

IsMatch(votes, active, i) == \A u \in active : RatingsOf(votes, i)[u] = 1

\* MatchDecision: the matched items, and where they stand in the ranking.
Evaluate(votes, recs, active) ==
    [matchedItems |-> {i \in Candidates(votes, active) : IsMatch(votes, active, i)},
     rankedItems |-> Ranked(votes, recs, active)]

\* matchedItemId: the first of the matched items, if there are any.
MatchedItem(decision) ==
    CHOOSE i \in decision.matchedItems :
        \A j \in decision.matchedItems : decision.rankedItems[i] <= decision.rankedItems[j]
=============================================================================
