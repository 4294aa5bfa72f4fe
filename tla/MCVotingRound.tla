---------------------------- MODULE MCVotingRound ----------------------------
(* Symmetry and a view of VotingRound, for TLC. *)
EXTENDS VotingRound

VotingSymmetry == Permutations(Members) \cup Permutations(Handlers)

\* Of the votes and ballots, what matters where there is one item: who first voted
\* how, who sent ballots to the newest round, and how many.
VotingView ==
    <<cached, connected, pending, rounds, size, ToSet(results), Len(results),
      [i \in Items |-> RatingsOf(votes, i)], hasDeck, inHand, at, recipients,
      Len(announced), late>>
=============================================================================
