------------------------------ MODULE VotingRound ------------------------------
(***************************************************************************)
(* The voting rounds of one running session: MatchingSessionCoordinator in *)
(* SessionCoordinator.ts, and the part of sessionManagementService.ts that *)
(* feeds it votes and acts on its results.  A round collects the ballots   *)
(* of one deck; the ballot that completes it is answered for everyone, by  *)
(* a match or, one request to the recommender later, by the next decks.    *)
(*                                                                         *)
(* A ballot takes two steps.  Its handler takes a snapshot of the session  *)
(* and awaits an UPDATE of the member's metadata; then it joins or opens a *)
(* round, and asks neither whether the member is still connected nor       *)
(* whether there still is a session.                                       *)
(*                                                                         *)
(* A handler runs alone from one await to the next; at[h] names the await  *)
(* handler h is suspended at, recording the members whose ballots are at   *)
(* their first one.  How connections and rows are written is the subject   *)
(* of SessionLifecycle.                                                    *)
(***************************************************************************)
EXTENDS MatchingEngine

CONSTANTS
    Verdicts,         \* the ratings that occur
    Unseen,           \* an item that is not on a deck
    Handlers,         \* slots for handlers in progress: bounds how many overlap
    MembersLeave,     \* members disconnect, or are disconnected
    RequestsFail,     \* requests to the recommender and writes fail, or are refused
    MaxRounds         \* bound on the rounds explored

ASSUME VotingAssumption ==
    /\ {MembersLeave, RequestsFail} \subseteq BOOLEAN
    /\ Verdicts \subseteq Ratings /\ Unseen \notin Ratings /\ IsFiniteSet(Items)
    /\ MaxRounds \in Nat

VARIABLES
    cached,      \* the session is in the cache
    connected,   \* members whose isConnected flag is set; currentRealSize counts them
    pending,     \* pendingSessions has an entry: the newest round
    rounds,      \* rounds in allHistorySesInfos, the newest last
    size,        \* currentRealSize in the snapshot the newest round was opened with
    results,     \* who sent a ballot to the newest round, in order
    votes,       \* the single votes of all rounds
    hasDeck,     \* members with a deck on their screen
    recording,   \* members whose ballot waits for the UPDATE of their metadata
    snapshot,    \* currentRealSize in the snapshot each such ballot's handler took
    at,          \* the await each handler is suspended at
    recipients,  \* the members for whom a handler asked the recommender for decks
    announced,   \* the items announced as the match, one after the other
    late         \* history: ballots were counted of members who "left", or once all "ended"

round == <<pending, rounds, size, results, votes>>
inHand == <<recording, snapshot>>
vars == <<cached, connected, round, hasDeck, inHand, at, recipients, announced, late>>

Awaits == {"idle", "requestNextData", "storeMatch", "writeDisconnected", "writeBroken"}

TypeOK ==
    /\ cached \in BOOLEAN /\ pending \in BOOLEAN
    /\ connected \subseteq Members /\ hasDeck \subseteq Members
    /\ recording \subseteq Members /\ snapshot \in [Members -> 0..Cardinality(Members)]
    /\ rounds \in 0..MaxRounds /\ size \in 0..Cardinality(Members)
    /\ results \in Seq(Members)
    /\ votes \in VoteLogs
    /\ at \in [Handlers -> Awaits]
    /\ recipients \in [Handlers -> SUBSET Members]
    /\ announced \in Seq(Items) /\ late \subseteq {"left", "ended"}

\* The session has just been started, by whoever had connected.
Init ==
    /\ cached = TRUE /\ pending = FALSE
    /\ connected \in SUBSET Members \ {{}} /\ hasDeck = connected
    /\ rounds = 0 /\ size = 0 /\ results = <<>> /\ votes = <<>>
    /\ recording = {} /\ snapshot = [u \in Members |-> 0]
    /\ at = [h \in Handlers |-> "idle"]
    /\ recipients = [h \in Handlers |-> {}]
    /\ announced = <<>> /\ late = {}

-----------------------------------------------------------------------------
Suspended(h, await) == at[h] = await
Awaiting(h, await, users) ==
    /\ at' = [at EXCEPT ![h] = await]
    /\ recipients' = [recipients EXCEPT ![h] = users]
Ends(h) == Awaiting(h, "idle", {})

\* A ballot rates the items of a deck; the engine sees its votes one by one.
Ballots == [Items -> Verdicts \cup {Unseen}]
VotesOf(u, ballot) ==
    LET rated == SetToSeq({i \in Items : ballot[i] # Unseen}) IN
    [k \in DOMAIN rated |-> [user |-> u, item |-> rated[k], rating |-> ballot[rated[k]]]]

\* handleUserFinishedDeckVoting up to its first await: a snapshot, and the UPDATE.
\* Of one member one ballot is in hand at a time.
FinishDeck(u) ==
    /\ cached /\ u \in hasDeck \ recording
    /\ pending \/ rounds < MaxRounds
    /\ hasDeck' = hasDeck \ {u}
    /\ recording' = recording \cup {u}
    /\ snapshot' = [snapshot EXCEPT ![u] = Cardinality(connected)]
    /\ UNCHANGED <<cached, connected, round, at, recipients, announced, late>>

Recorded(u) ==
    /\ u \in recording
    /\ recording' = recording \ {u}
    /\ snapshot' = [snapshot EXCEPT ![u] = 0]

\* addNewWaitingSession: the snapshot of the ballot, in a round of its own.
OpenRound(u) ==
    /\ rounds < MaxRounds
    /\ rounds' = rounds + 1
    /\ size' = snapshot[u]
    /\ results' = <<u>>

JoinRound(u) ==
    /\ results' = Append(results, u)
    /\ UNCHANGED <<rounds, size>>

\* Mutant: the round is complete when one ballot is missing.
CompleteEarly == Len(results') + 1 >= size'

\* Mutant: the round waits for one ballot too many.
CompleteLate == Len(results') > size'

\* allClientsFinishedMatching: as many ballots as members in the snapshot.
Complete == Len(results') >= size'

\* resolveNextSessionState up to its first await on someone else: a match is
\* announced at once, otherwise the recommender is asked for the next decks.  It
\* makes them for the members of the request, or for those whose ballots it got.
Resolve(h) ==
    LET decision == Evaluate(votes', <<>>, connected) IN
    IF decision.matchedItems # {}
    THEN /\ announced' = Append(announced, MatchedItem(decision))
         /\ pending' = FALSE
         /\ Awaiting(h, "storeMatch", {})
    ELSE /\ pending' = TRUE
         /\ \E users \in {connected, ToSet(results')} : Awaiting(h, "requestNextData", users)
         /\ UNCHANGED announced

\* The session is not in the cache, and its data will not be cleared any more.
Gone == ~cached /\ \A h \in Handlers : at[h] # "writeBroken"

\* A ballot is late if its voter has left, or all is over.
Lateness(u) ==
    (IF u \in connected THEN {} ELSE {"left"}) \cup (IF Gone THEN {"ended"} ELSE {})

\* The rest of handleUserFinishedDeckVoting: getNextUserSessionData.
EvaluateVote(h, u, ballot) ==
    /\ Suspended(h, "idle")
    /\ Recorded(u)
    /\ votes' = votes \o VotesOf(u, ballot)
    /\ IF pending THEN JoinRound(u) ELSE OpenRound(u)
    /\ IF Complete
       THEN Resolve(h)
       ELSE /\ pending' = TRUE
            /\ UNCHANGED <<at, recipients, announced>>
    /\ late' = late \cup Lateness(u)
    /\ UNCHANGED <<cached, connected, hasDeck>>

\* Mutant: removeWaitingSession is forgotten.
NextDataKeepsRound(h) ==
    /\ Suspended(h, "requestNextData")
    /\ hasDeck' = hasDeck \cup recipients[h]
    /\ Ends(h)
    /\ UNCHANGED <<cached, connected, round, inHand, announced, late>>

\* removeWaitingSession removes whichever round is pending by now.
NextData(h) ==
    /\ Suspended(h, "requestNextData")
    /\ pending' = FALSE
    /\ hasDeck' = hasDeck \cup recipients[h]
    /\ Ends(h)
    /\ UNCHANGED <<cached, connected, rounds, size, results, votes, inHand, announced, late>>

\* A DomainError (a member without categories) is passed on, and nothing else.
NextDataRefused(h) ==
    /\ RequestsFail /\ Suspended(h, "requestNextData")
    /\ Ends(h)
    /\ UNCHANGED <<cached, connected, round, inHand, hasDeck, announced, late>>

-----------------------------------------------------------------------------
\* The synchronous part of terminateSession.
Terminate(h) ==
    IF cached
    THEN cached' = FALSE /\ Awaiting(h, "writeBroken", {})
    ELSE Ends(h) /\ UNCHANGED cached

\* handleVotingFailure, of the UPDATE that a ballot waits for ...
VoteFails(h, u) ==
    /\ RequestsFail /\ Suspended(h, "idle")
    /\ Recorded(u)
    /\ Terminate(h)
    /\ UNCHANGED <<connected, round, hasDeck, announced, late>>

\* ... and of whatever a resolved round asks for.
ResolutionFails(h) ==
    /\ RequestsFail /\ at[h] \in {"requestNextData", "storeMatch"}
    /\ Terminate(h)
    /\ UNCHANGED <<connected, round, inHand, hasDeck, announced, late>>

\* finalizeSessionWithMatch; what the coordinator keeps is not cleared.
EndSessionWithMatch(h) ==
    /\ Suspended(h, "storeMatch")
    /\ cached' = FALSE
    /\ Ends(h)
    /\ UNCHANGED <<connected, round, inHand, hasDeck, announced, late>>

TerminateSession(h) ==
    /\ cached /\ Suspended(h, "idle")
    /\ Terminate(h)
    /\ UNCHANGED <<connected, round, inHand, hasDeck, announced, late>>

\* Mutant: only the votes are dropped.
ClearAllSessionDataButRound(h) ==
    /\ Suspended(h, "writeBroken")
    /\ rounds' = 0 /\ votes' = <<>>
    /\ Ends(h)
    /\ UNCHANGED <<cached, connected, pending, size, results, inHand, hasDeck, announced, late>>

\* The rest of terminateSession; size and results go with the last round.
ClearAllSessionData(h) ==
    /\ Suspended(h, "writeBroken")
    /\ pending' = FALSE
    /\ rounds' = 0 /\ size' = 0 /\ results' = <<>> /\ votes' = <<>>
    /\ Ends(h)
    /\ UNCHANGED <<cached, connected, inHand, hasDeck, announced, late>>

\* By the member's request, or when the time to reconnect is over.
Disconnect(h, u) ==
    /\ MembersLeave /\ cached /\ u \in connected
    /\ Suspended(h, "idle")
    /\ connected' = connected \ {u}
    /\ Awaiting(h, "writeDisconnected", {})
    /\ UNCHANGED <<cached, round, inHand, hasDeck, announced, late>>

\* checkSessionIsEmpty, once the row is written.  No round is looked at again.
Disconnected(h) ==
    /\ Suspended(h, "writeDisconnected")
    /\ IF Cardinality(connected) <= 1 THEN Terminate(h) ELSE Ends(h) /\ UNCHANGED cached
    /\ UNCHANGED <<connected, round, inHand, hasDeck, announced, late>>

-----------------------------------------------------------------------------
Handler(h) ==
    \/ NextData(h) \/ NextDataRefused(h) \/ ResolutionFails(h)
    \/ EndSessionWithMatch(h) \/ ClearAllSessionData(h) \/ Disconnected(h)

Vote(h, u) == \E b \in Ballots : EvaluateVote(h, u, b)

Next ==
    \/ \E u \in Members : FinishDeck(u)
    \/ \E h \in Handlers :
          \/ Handler(h) \/ TerminateSession(h)
          \/ \E u \in Members : Disconnect(h, u) \/ Vote(h, u) \/ VoteFails(h, u)

Spec == Init /\ [][Next]_vars

\* Awaited calls return, and members finish the decks they are shown, while they
\* are connected.
Fairness ==
    /\ \A h \in Handlers : WF_vars(Handler(h))
    /\ \A u \in Members :
          /\ WF_vars(\E h \in Handlers : Vote(h, u))
          /\ WF_vars(u \in connected /\ FinishDeck(u))

FairSpec == Spec /\ Fairness

-----------------------------------------------------------------------------
Resolving(h) == at[h] \in {"requestNextData", "storeMatch"}

\* "called only once all the members finished their deck": a round is resolved only
\* with a ballot of every member who is connected then.  A ballot counted after its
\* voter had left, of this or an earlier round, can make up for one that is missing;
\* nothing else can, whoever leaves and whenever.
AllVotedWhenResolved ==
    [][\A h \in Handlers :
          ~Resolving(h) /\ Resolving(h)' /\ "left" \notin late'
             => connected \subseteq ToSet(results')]_vars

\* No round is resolved twice, as long as no ballot of a member who had left was
\* counted: no second request to the recommender overlaps the first, to remove the
\* round that follows, none overlaps a match, and a match is announced once.
ResolvedOnce ==
    "left" \notin late =>
        /\ \A h1, h2 \in Handlers : Resolving(h1) /\ Resolving(h2) => h1 = h2
        /\ Len(announced) <= 1

\* "a item that was never liked [...] by any of the currently active members could
\* win ==> we don't want this": a connected member wants the item announced, unless
\* ballots of members who had left were counted: then there may be nobody to ask.
WinnerIsLiked ==
    [][Len(announced') > Len(announced) /\ "left" \notin late'
          => LET rating == RatingsOf(votes', announced'[Len(announced')])
             IN  \E u \in connected : u \in DOMAIN rating /\ rating[u] = 1]_vars

\* "clears data": once a termination without a match has run to its end, no round and
\* no vote is left that a session's next vote or match would find, except those of
\* ballots that were in hand and are counted afterwards.
TerminatedLeavesNothing ==
    Gone /\ announced = <<>> /\ "ended" \notin late
        => ~pending /\ rounds = 0 /\ votes = <<>>

\* "Return next session data for given user once all the group members voted":
\* whoever waits for a deck gets one, unless the session ends, the member leaves, or
\* a late ballot has mixed up the rounds.
DecksFollow ==
    \A u \in Members :
        u \in connected \ hasDeck
            ~> u \in hasDeck \/ u \notin connected \/ ~cached \/ "left" \in late
=============================================================================
