--------------------------- MODULE MCMatchingEngine ---------------------------
(***************************************************************************)
(* A session's log of votes and recommendations as it may grow, with       *)
(* members leaving: after every step the engine is compared with what its  *)
(* comments promise.                                                       *)
(***************************************************************************)
EXTENDS MatchingEngine, TLC

CONSTANTS
    MaxVotes, MaxRecs,    \* bounds on the two logs
    VoteRatings, Scores,  \* the ratings and scores that occur
    MinActive             \* sessions with fewer active members are terminated

ASSUME LogAssumption ==
    /\ VoteRatings \subseteq Ratings /\ Scores \subseteq 0..ScoreUnit
    /\ MinActive \in Nat \ {0}

EngineSymmetry == Permutations(Members) \cup Permutations(Items)

VARIABLES cast, recommended, active
log == <<cast, recommended, active>>

LogInit == cast = <<>> /\ recommended = <<>> /\ active = Members

Cast(u, i, r) ==
    /\ Len(cast) < MaxVotes
    /\ cast' = Append(cast, [user |-> u, item |-> i, rating |-> r])
    /\ UNCHANGED <<recommended, active>>

Recommend(u, i, s) ==
    /\ Len(recommended) < MaxRecs
    /\ recommended' = Append(recommended, [user |-> u, item |-> i, score |-> s])
    /\ UNCHANGED <<cast, active>>

Leave(u) ==
    /\ u \in active /\ Cardinality(active) > MinActive
    /\ active' = active \ {u}
    /\ UNCHANGED <<cast, recommended>>

LogNext ==
    \E u \in Members :
        \/ Leave(u)
        \/ \E i \in Items :
              \/ \E r \in VoteRatings : Cast(u, i, r)
              \/ \E s \in Scores : Recommend(u, i, s)

LogSpec == LogInit /\ [][LogNext]_log

Decision == Evaluate(cast, recommended, active)
Matches == Decision.matchedItems

\* Whether and how u first voted on i, looked up without the engine's maps.
Wants(u, i) ==
    \E k \in DOMAIN cast :
        /\ cast[k] = [user |-> u, item |-> i, rating |-> 1]
        /\ \A n \in 1..(k - 1) : cast[n].user # u \/ cast[n].item # i

\* Items are matched exactly if every active member's first vote is for them, so
\* nothing an active member never saw or disliked can win ("we don't want this").
MatchesAreWantedByAll ==
    Matches = {i \in Items : \A u \in active : Wants(u, i)}

\* A repeated vote changes nothing ("don't overwrite").
RevotesChangeNothing ==
    [][\A u \in Members, i \in Items, r \in VoteRatings :
          Cast(u, i, r) /\ (\E k \in DOMAIN cast : cast[k].user = u /\ cast[k].item = i)
             => Decision' = Decision]_log

\* Everyone who rated either item rated i at least as high, and was recommended it
\* with at least the score, and they do not tie.
Dominates(i, j) ==
    LET a == RatingsOf(cast, i)  b == RatingsOf(cast, j)
        p == RecScores(recommended, i)   q == RecScores(recommended, j)
    IN /\ DOMAIN a = DOMAIN b /\ \A u \in DOMAIN a : a[u] >= b[u]
       /\ DOMAIN p = DOMAIN q /\ \A u \in DOMAIN p : p[u] >= q[u]
       /\ (\E u \in DOMAIN a : a[u] > b[u]) \/ (\E u \in DOMAIN p : p[u] > q[u])

\* i has more votes than j by more than one for every two members.
Outvotes(i, j) == 2 * (VoteSum(cast, i) - VoteSum(cast, j)) > Cardinality(Members)

\* The ranking weighs votes by 1 and the recommender's average by a half: an item
\* that dominates another is ranked first, and so is one that outvotes it, however
\* often the other was recommended.
RankedByVotesThenScores ==
    LET rank == Decision.rankedItems IN
    \A i, j \in DOMAIN rank : Dominates(i, j) \/ Outvotes(i, j) => rank[i] < rank[j]
=============================================================================
