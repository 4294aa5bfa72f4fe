-------------------------- MODULE MCGroupRecommender --------------------------
(* Values for GroupRecommender, and what TLC need not tell apart: the members' names, *)
(* and sessions that are over, in which nothing happens any more. *)
EXTENDS GroupRecommender, TLC

CONSTANTS a, b, c, i1, i2, i3, i4

MCItems == {i1, i2, i3, i4}
\* Every method, and every activity; with the others, and without the bound, as well.
MCKinds == {<<"MOVIE", "HYBRID">>, <<"RESTAURANT", "ASYNC">>, <<"RESTAURANT", "SYNC">>}
\* All items, or all but one, in the opposite order.
MCRankings == {i1 :> 1 @@ i2 :> 2 @@ i3 :> 3 @@ i4 :> 4, i1 :> 3 @@ i3 :> 2 @@ i4 :> 1}

RecommenderSymmetry == Permutations(Members)
RecommenderView ==
    IF phase = "over" THEN <<phase>>
    ELSE <<activity, method, connected \ choosers,
           {n \in DOMAIN asked : creator \in asked[n].users}, {creator} \cap connected,
           phase, connected, screens, inHand, round, rated, records, forgotten, sent, late>>

\* Those who are there send their ballots one after the other; what a late ballot
\* brings about is followed until the second request is answered, anything else until
\* the last one is.
RecommenderBound ==
    /\ Cardinality(connected \cap DOMAIN inHand) <= 1
    /\ requests < (IF late THEN 2 ELSE MaxRequests) \/ DOMAIN asked # {}
    /\ late => requests <= 2
=============================================================================
