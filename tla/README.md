# Verification of the match-it backend

TLA+ models of the match-it backend, TLC runs that check them on small
instances, and TLAPS proofs of what matters most. Paths are relative to `src/`;
`S/` stands for `services/matching-sessions-service/src/`, `F/`, `U/` and `A/` for
the friendship service, the user account service and the activity recommendation
system, up to their `src/`.

## The system

People who cannot decide on a film or a restaurant open a *matching session*.
Members swipe decks of recommended items; the session ends with a *match* when
an item is liked by every active member.

| part | state it keeps | operations | talks to |
|---|---|---|---|
| Session cache (`S/services/session/SessionsCachingService.ts`) | `sessions` Map of session objects; rows `matching_sessions`, `matching_session_users` | addNewSession, tryConnect/tryDisconnectMember, startSession, terminateSession, endSessionWithMatch, reloadAllSessions | PostgreSQL, `S/database` |
| Session management (`S/services/session/sessionManagementService.ts`) | creation timers (and maximal-duration timers nobody starts) | create, invite, connect, disconnect, start, vote, terminate | the cache, the coordinator, web sockets, FCM |
| Coordinator and engine (`S/services/session/SessionCoordinator.ts`) | pending round per session, history of rounds with their votes | addClientsResult, resolveNextSessionState, clearAllSessionData; the engine is a pure function of the history | recommender over HTTP |
| Web-socket manager (`S/api/ws/manager/wsManager.ts`, `S/index.ts`) | registered socket, disconnect record, heartbeat timer, reliable queue, each per user | register, replace, disconnect, grace period, sendReliable, acknowledge, resend | clients; session management when a user is given up |
| Inbound protocol (`S/api/ws/connections/messageProtocol.ts`) | last sequence number per client | acknowledge, drop repetitions, dispatch | session management, chat |
| Session chat (`S/services/chatting`) | rows of messages and members | store, route to the other members, replay | PostgreSQL, web sockets |
| Set-up of a session (`S/api/rest/v1/controllers/sessionController.ts`, `S/services/groups`, `S/services/usersAvailibilityService.ts`) | rows of groups; promises nobody awaits | find or create a group; invite; announce who connected; who is available | session management, PostgreSQL, FCM |
| Friendship service (`F/services`, `F/database`) | rows of requests and friendships | request, admit, search (removing answers OK and does nothing; there is no declining) | PostgreSQL, FCM |
| User account service (`U/services`, `U/database`) | users, credentials, verification and refresh tokens, devices, pictures | register, verify, log in, log out, remove, refresh | PostgreSQL, mail |
| Recommender (`A/services/recommendations`) | per-session records under locks; group model; a queue of liked items per member | initialise, update, recommend_next, redistribute | models, PostgreSQL |

`PROJECT.json` lists all components with what is modelled of each.

**How they interact.** REST and web-socket handlers run in one Node.js process:
a handler runs alone from one `await` to the next, and anything may happen while
it is suspended. The cache is changed synchronously, the rows after an `await`.
The web-socket manager calls back into session management when a user's grace
period ends. The coordinator awaits the recommender in the middle of a round.
The Python recommender is multi-threaded and locks per session. The account and the
friendship service are processes of their own that meet in the database: the
friendship service reads the users the account service writes, and the removal
of a user cascades into its tables.

**What is hard.**
Suspended handlers overlap with timers and with each other (start/terminate,
match/terminate, two leaving members); cache and rows are written at different
times and the write may fail; the process may die with sessions in the cache;
sockets are replaced, die unnoticed and close late; messages and
acknowledgements are lost and repeated, and acknowledged before they are handled;
rounds count ballots of a membership that changes, an `await` after they were sent; services check in one
transaction and act in the next; the recommender forgets its records at a
restart, and remembers the members by their number. `PROJECT.json` lists each such place under `hazards` with the
properties aimed at it.

**What makes each component correct.**
* Cache and management: a session is ended once, by one handler; it is not both
  matched and terminated; a waiting session has its timer and a running one has
  not; its row says what the cache says; a session never comes back once over.
* Set-up: a session's group holds its members; of two connected members one was told
  of the other; set-up goes through no change of a session but those of the life cycle.
* Coordinator: a round is resolved once, when every member has voted; a match is
  wanted by whoever is there; decks follow; nothing is left of a terminated session;
  all of it as long as no ballot is counted after its voter has left or the session
  is over, against which the code does nothing.
* Engine: what is matched is what all active members' first votes want; ranking is
  monotone in votes and scores.
* Reliable messages: received in order, none skipped, all in the end.
* Connections: the registered socket is the one the client uses; a user who is gone
  is awaited, then removed.
* Inbound protocol and chat: what was acknowledged is handled, once per life of the
  server; every message reaches whoever stays.
* Recommender: nobody is asked twice about an item; a deck repeats nothing; what is
  liked reaches everybody; everybody who is there is served; the group model
  tracks the members of the request; the first, third and fourth with the same proviso.
* Friendship: two users have one relation; a request is admitted once.
* Accounts: a log-in that nothing overlaps lasts, a log-out leaves nothing; a removed
  user leaves no refresh token, device, request or friendship.

## Modules

| module | models | state and actions |
|---|---|---|
| `SessionLifecycle` | cache, management, rows, timers, crash and reload | `at[t]` is the await task `t` is suspended at; every stretch of code between two awaits is one action named after the function (`StartSession`, `WriteRunning`, `AnnounceStart` are the three stretches of startSessionRecommendation). The callback of a session's creation timer is a task named by the session |
| `SessionRows` | tables `matching_sessions` and `matching_session_users` | the rows, and one operator per query of `sessionManagementQueries.ts`; each is one transaction |
| `SessionLife` | abstract: none → CREATED → RUNNING → over; a creation that fails half-way is abandoned | refined by `SessionLifecycle` through `phase` |
| `SessionSetup` | the controllers around the life cycle, groups, invitations, announcements, availability | extends `SessionLifecycle`; each of its actions is one of that module's with what the controller does around it, or a step of the set-up (`step[s]`) that leaves the life cycle alone. `doomed` says that a promise nobody awaits was rejected, which ends the process |
| `MatchingEngine` | SessionMatchingEngine | operators without state over logs of votes and recommendations. The sorted list is the function from an item to its place (`Ranked`); `MatchedItem` is the first of the matched ones |
| `MCMatchingEngine` | logs that grow while members leave | `Cast`, `Recommend`, `Leave` extend the log; properties compare the engine with what its comments promise |
| `VotingRound` | coordinator and the vote handler of the management service | extends `MatchingEngine`. The vote handler is two actions: `FinishDeck` takes the snapshot and awaits the UPDATE of the metadata, `EvaluateVote` counts the ballot with that snapshot, whether or not the voter is still connected and the session cached (`recording`, `snapshot` are the ballots in between). Handlers are suspended at the recommender, the stored match, the rows. `late` is a history variable: whose ballots came late |
| `ReliableDelivery` | sendReliable, acknowledgement, resending, clearing | one user's queue; the wire loses everything when it is cut |
| `ReliableChannel` | abstract FIFO channel | refined by `ReliableDelivery` through `Undelivered` |
| `WsPresence` | accepting, registering, replacing, losing a connection; grace period; heartbeat | one user's sockets; `client` names how careful the client is |
| `SessionChat` | the inbound protocol, and storing, routing and receiving of chat messages | numbers on the wires, `lastProcessed` per client, running handlers with the await each is at, rows, queues |
| `GroupRecommender` | a session's record, the group model and the redistribution unit in the recommender; the matching service as far as it decides what it is asked | ballots as in `VotingRound` (`inHand`); `RequestNextData` sends a request, `RecommendNext` processes it under the session's lock, built from operators named after the methods it calls; `record` is the session record with the queues |
| `UserTable` | table `users` | the common state of the next two |
| `Accounts` | the account service | `task[t]` is what a request is about to do: one action per database transaction, the guards being what the transaction finds |
| `Friendship` | the friendship service | `asking[t]`, likewise; `notifying` for look-ups nobody waits for |
| `People` | composition of the two | interleaves their actions over one table of users; the removal of an account is one action of both, with the cascade of the schema |
| `*_proofs` | theorems | see below |
| `MC*` | TLC instances | symmetry sets and constants |

Operators marked *Mutant* are plausible bugs, kept beside the definition they
change; substituted for it they violate the property they are meant for, which
shows that the property depends on that code. No specification uses them.

### Abstractions

* Sessions, users and items are model values, messages are numbers. Ratings keep
  their values; a score is a whole number of `ScoreUnit`s, and scores are compared
  as fractions, since only their order matters.
* `SessionLifecycle` has votes only as far as they end a session (`Match` may
  happen at any vote); which vote matches is the subject of `VotingRound`, which
  in turn has connections only as a set. Invitations, groups and announcements
  are those of `SessionSetup`; metadata changes nothing the properties tell apart.
* `SessionLifecycle`: the creator is not among the invited. No code checks it; the app
  shows a user the others.
* `SessionSetup`: the app invites only users it was told are available, a user knows a
  session from the response or the invitation, and members decline only what they
  have not accepted. The order of the Map the scans go through is free, so a scan
  that would throw at a session without members may also find its match before. A
  request nobody awaits that is rejected dooms the process: nothing happens then but
  the restart.
* In `MatchingEngine` a rating is -1, 0 or 1, so that a sum of votes is a difference of two
  counts, and a sum of scores counts units; both are the sums of the code, stated so
  that they can be reasoned about without recursion.
* Each database statement is atomic and takes effect at one point between call
  and return; a failed one is rolled back. The order of two concurrent ones is
  free: no lock or version is taken.
* `ReliableDelivery` assumes a client that acknowledges every copy, recognises the
  copies it has, and gives up its old socket when it opens a new one; nothing is
  under way for longer than the 60-second grace period.
* In `SessionChat` the client, which is not in the repository, numbers its messages in
  order, keeps its numbering, and resends in order what it has no acknowledgement
  for, on a new connection before anything else, and not before its `CONNECTION_OK`. The
  server attaches the listener for messages up to a second and a half after it accepts
  a connection (`S/index.ts:104-121`) and sends `CONNECTION_OK` after that (`:129`): a client
  that does not wait loses what comes earlier, and has it acknowledged and dropped
  as a repetition once a later number was taken. Chat messages and finished decks
  are the reliable messages; the latter take the same road and are left out. The
  sending queue of `ReliableDelivery` is a set that may lose nothing but at a
  restart. Queries that fail are part of `Restart`: nobody catches them.
* In `GroupRecommender` the models may rank the catalogue in any of the given ways for
  every request and member, which stands for trained weights, ratings and
  numerical updates; the order within a queue is free. A request is sent in one step
  and processed and answered in another: the session's lock orders the processing, and
  nothing but the answer shows what has changed. Requests overlap only when late ballots
  complete a second round; they are then processed in any order, and their answers
  arrive in the same. A second ballot of one member in one round, which takes a late
  ballot too, is left to `VotingRound`. What ballots in hand do once the session is
  over is not followed: the recommender is asked nothing about it. A restart of the
  recommender happens between requests, once.
* In `Accounts` and `Friendship` each transaction is atomic and may fail; a unique index
  is a guard of the action that would violate it. Names, passwords, pictures,
  preferences and what a token says are left out; tokens differ by user and
  second, as the code's do. `current`, `loggedOut` and `answered` are history variables.
* `WsPresence` orders timers by what their lengths imply (0.5 s wait, 0.7 s kill,
  1 s registration, 60 s grace). `ping` on an open socket does not throw, so
  that branch of `pingClients` is left out.

## Runs

Deadlock is not checked in any run: requests, votes and connections are bounded
or may simply stop coming, and a system all of whose sessions are over rests.

| run | instance | what it shows |
|---|---|---|
| `lifecycle_two` | 2 sessions, 2 users, 2 requests, failing transactions | invariants of cache, rows and timers, also when creating one session breaks the row of the other |
| `lifecycle_patient` | 3 users, 2 requests, 1 restart | for clients that wait for answers: sizes and rows follow who is connected, no member is left alone; with fairness, `LivesOnce` (refinement of `SessionLife`) and recovery of rows after a crash |
| `session_setup` | 2 sessions, 3 users, 2 requests, 2 groups, 4 memberships | groups hold the members, members are told of each other, with declined invitations, timeouts, and set-ups that fail |
| `engine_decides` | 3 members, 2 items, 3 votes, 2 recommendations | matches are wanted by all, first votes stay, ranking follows votes, then scores |
| `voting_orderly` | 3 members, 2 rounds, 2 handlers beside the ballots that wait | rounds with leaving members, failing requests, terminations, ballots counted late |
| `voting_settles` | 3 members, 2 rounds | nobody leaves, the recommender answers: decks follow |
| `voting_left` | violation | a member leaves without voting: decks do not follow |
| `delivery_order` | 5 messages, 4 connections, 2 retries | refinement of the FIFO channel, and arrival once a connection stays |
| `presence_grace` | 4 sockets, all kinds of client | nobody forgotten, nobody deregistered, the lost are removed |
| `chat_routed` | 2 messages from one member to another, 1 broken connection, 2 restarts | acknowledged messages are handled, once per life of the server; every message reaches who stays |
| `recommender_rounds` | 3 members, 4 items, decks of 2, 3 requests, 1 restart, each activity and each method | who is asked what; liked items pass from member to member; the group model follows, late ballots or not |
| `people_requests` | 2 registered users and one more, 2 devices, 4 requests, 2 at a time in each service | tokens, devices, requests and friendships under overlapping requests, removals and failures |

**Why the bounds are enough.** Two requests and the creation timers, which are
handlers of their own, are as many as any hazard of `SessionLifecycle` needs; one
restart separates rows written before it from sessions created after it. Two
sessions are needed for the rows `createNewSession` breaks. Transactions fail at
every await but `writeDisconnected`, whose failure, leaving empty sessions behind,
multiplies the states; the invariants of `lifecycle_two` are proved without any
bound, with that failure, and for clients that repeat requests. `session_setup` needs two sessions for a group that is found again and for a member who
is busy elsewhere; `MCBound` leaves starting and voting, which touch neither groups nor
announcements, to one session at a time, and explores nothing after a termination
was announced; its theorems have no such bound. Three members are
the fewest where one leaves and two must still agree; two rounds let a late
ballot meet the next one. In `voting_settles` and `voting_left` a member likes the item or does not see it,
which is enough for rounds with and without a match. Two retries against five messages let a message
exhaust them with others behind it, and every reconnection be the one that
rescues it. Four sockets let a late close event of the first arrive while two
later ones replace each other. Two messages are the fewest where one can overtake the other's acknowledgement; two
restarts let what the first one left be repeated after the second. Three requests
to the recommender let an item liked after the first round wait in a queue, be
redistributed by the second and voted on by the third, with decks of two items
of which one is shared and one redistributed; one ranking omits an item, so that
decks come out short. `RecommenderBound` has the members who are there send their ballots one
after the other, and follows what a late ballot brings about until the second request is
answered. The bound keeps the run short: without it the same properties were checked of
each of the six pairs of an activity and a method alone, of which the run has three,
up to 5 million states. Four requests of people are two
pairs that overlap: a log-in with a log-out or a removal while a friend request
crosses its opposite or is admitted twice.
`WireBound` limits copies and acknowledgements
together, where the sender only: it never keeps anything from arriving.

**Fairness.** Only what the run-time guarantees: resolved promises continue,
timers that are due fire, an awaited call returns, TCP reports a dead connection
in the end, and what is on a wire that stays up arrives. For the chat: clients
send, resend and take acknowledgements, what is on a wire is handled, and queries
are answered. The recommender and the people modules state safety only: a request
may always fail. Requests, restarts, failures, heartbeats and the heartbeat timeout (which every heartbeat
puts off) may never come. Votes may never come where safety is concerned; `DecksFollow`
is stated of members who finish their decks while they are connected, and its
fairness (`FairSpec` of `VotingRound`) says so.

### Disagreements of code and comments

* `voting_left`: the size of a round is a snapshot and a disconnection does not look
  at it, so the others wait for ever (`SessionCoordinator.ts:229`).

Without a run: the first two were found by checking the properties named there
without their conditions; of the others one line, or the absence of one, shows them.

* a ballot is counted after the UPDATE of its voter's metadata
  (`sessionManagementService.ts:517`), and nothing looks at the voter or the session again.
  A member who leaves in between can complete a round with it in the place of one who
  has not voted, although `allClientsFinishedMatching` is "called only once all the members
  finished their deck" (`SessionCoordinator.ts:252`), and start a second resolution, which
  asks the recommender again, or announces a second match, and removes the round that
  follows; with nobody connected any more both loops of the engine are vacuous and an
  item nobody there likes wins, which "we don't want" (`:87-88`); and a ballot that waits
  while the session is terminated makes a round and votes which the termination, that
  "clears data" (`sessionManagementService.ts:140`), does not know of. The properties of
  `VotingRound` are therefore stated up to the first such ballot (`late`), and without
  that condition TLC finds each of them violated;
* the recommender suffers from the same ballots: it updates the queues, and what is
  seen, of voters only, so what was liked in such a round does not reach the member it
  was completed without, who is left with the old deck, and an item which it takes for
  common to all voters can be shown again to a member who has voted on it.
  `LikedReachesAll`, `EverybodyServed` and `NeverAskedTwice` have the same condition,
  and fail without it;
* the removal of an account leaves its gallery and profile pictures: "we should also
  delete user gallery" (`U/services/userCreationService.ts:79`), and `005_gallery.sql` has no
  cascade from users. Nor do ratings, groups and sessions have one. `RemovedUserHasNoTies`
  is about refresh tokens, devices, requests and friendships;
* "there is double directional edge if there is an relationship"
  (`databases/postgresql/db1/init/002_friends.sql:34`), but the unique index above that line
  admits one row for two users, whichever way: the code inserts one. `OneRelation` is
  the index's view;
* a terminated session is "marked as BROKEN" (`SessionsCachingService.ts:273`), but
  `startSession` (`:268`) awaits an UPDATE without looking at the session again: where the
  two overlap, the row says RUNNING until the next restart, and members are told of a
  start after the end. `RowFollowsCache` states what does hold of the rows;
* nothing enforces "at most in one matching session" (`S/services/usersAvailibilityService.ts:75`):
  `createNewSession` marks rows of older sessions but leaves them in the cache;
* the ranking covers all candidates, so rank 1 need not be the match, contrary to
  `databases/postgresql/db1/init/004_matching_sessions.sql:25`;
* the registration timer does not look at `readyState` and calls off the grace period: a
  user whose connection is lost in the second and a half it takes to accept it is
  never kicked (`S/services/session/sessionWSConnectionErrorHandler.ts:11`).
  `SteadyUsersAreKicked` is stated of the other clients;
* `removeFriend` answers OK and removes nothing
  (`F/controllers/friendsManagementController.ts:29`);
* members who are busy were to get no invitation, but `in` on an array looks for an index
  (`sessionManagementService.ts:107`): everyone is invited, and the creator is told that
  the busy ones will not come.

One that the models show beyond what the runs explore: `LikedReachesAll`, first stated of
every item, fails with five requests and a restart. The recommender forgets at
a restart what was voted on; a member who rated an item before and is asked again,
and rejects it this time, makes the recommender drop it from the queues of the others,
although his first vote, which counts, liked it. The property is now stated of the
items voted on within the record's life; the attempt to prove it showed the case.

Assumptions of the passing runs that are not idle:
with `PatientClients = FALSE` a repeated connect counts a member twice and
`TwoMembersRemain` fails.

## Proofs

The theorems hold for every value of the constants, finite or infinite sets of
sessions, sockets, users and requests included, and every bound; each rests on
the named assumption of its module (members are finitely many, placeholders are
no members, and the like), on the hypothesis given with it, and on nothing else.
Every safety property that a run checks is the subject of one.

| module | theorem | statement |
|---|---|---|
| `SessionLifecycle_proofs` | `TypeCorrect` | `Spec => []TypeOK` |
| | `EndedOnceHolds` | `Spec => []EndedOnce`: ended once, and not both matched and terminated |
| | `TimerArmed` | `Spec => []CreationTimerArmed` |
| | `RowFollows` | `Spec => []RowFollowsCache` |
| | `SizeCounts` | `PatientClients` implies `Spec => []SizeCountsConnected` |
| | `TwoRemain` | `PatientClients` implies `Spec => TwoMembersRemain` |
| | `RowsAgree` | `Spec => []RowsAgreeOnConnected`, for patient clients and writes that succeed |
| | `LivesOnceSafely` | `Spec => Life!Spec`, the refinement of `SessionLife` without its fairness |
| `SessionSetup_proofs` | `SetupTypeCorrect` | `SetupSpec => []SetupTypeOK` |
| | `SetupIsLifecycle` | `SetupSpec => Spec`: every theorem above holds of the set-up too |
| | `GroupsHold` | `SetupSpec => []GroupHoldsMembers` |
| | `ConnectionsAnnounced` | `SetupSpec => []ConnectionsAreAnnounced`, if writing a connection does not fail |
| `VotingRound_proofs` | `TypeCorrect` | `Spec => []TypeOK` |
| | `RoundResolvedOnce` | `Spec => []ResolvedOnce` |
| | `ResolvedByAll` | `Spec => AllVotedWhenResolved` |
| | `WinnerLiked` | `Spec => WinnerIsLiked` |
| | `NothingLeft` | `Spec => []TerminatedLeavesNothing` |
| | `MatchesAreWanted` | `LogSpec => []MatchesAreWantedByAll` |
| | `RevotesIgnored` | `LogSpec => RevotesChangeNothing` |
| | `RankingFollows` | `LogSpec => []RankedByVotesThenScores` |
| | `RankingIsAList` | for any logs, `Ranked` is a bijection from the candidates to `1..n` |
| `ReliableDelivery_proofs` | `TypeCorrect` | `Spec => []TypeOK` |
| | `ImplementsChannel` | `Spec => InOrder`, the refinement of `ReliableChannel` |
| `WsPresence_proofs` | `TypeCorrect` | `Spec => []TypeOK` |
| | `AbsentAccounted` | `Spec => []AbsentAreAwaitedOrRemoved` |
| | `LiveRegistered` | `Spec => []LiveClientRegistered` |
| `SessionChat_proofs` | `TypeCorrect` | `Spec => []TypeOK` |
| | `AcknowledgedHandledOnceHolds` | `Spec => []AcknowledgedHandledOnce` |
| `GroupRecommender_proofs` | `TypeCorrect` | `Spec => []TypeOK` |
| | `NobodyAskedTwice` | `Spec => []NeverAskedTwice` |
| | `LikesReachEverybody` | `Spec => []LikedReachesAll` |
| | `DecksDisjoint` | `Spec => []DecksRepeatNothing` |
| | `EverybodyIsServed` | `Spec => []EverybodyServed` |
| | `ModelFollowsMembers` | `Spec => GroupModelFollows` |
| `People_proofs` | `PeopleTypeCorrect` | `Spec => []TypeOK` |
| | `LogoutIsComplete` | `Spec => []LogoutLeavesNothing` |
| | `LoneLoginHolds` | `Spec => []LoneLoginLasts` |
| | `RelationsAreSingle` | `Spec => []OneRelation` |
| | `AdmittedOnceHolds` | `Spec => []AdmittedOnce` |
| | `RemovalCutsTies` | `Spec => []RemovedUserHasNoTies` |

**The arguments.** None of the properties is inductive as it stands. In each module
`Init => IInv`, one lemma per action for `IInv /\ [Next]_vars => IInv'`, and
`IInv => Inv` give the theorems by temporal reasoning; the strengthenings are these.

`SessionLifecycle_proofs`: `Typed` strengthens `TypeOK` with what each await implies
about its task's session; `Safe` adds:

* `CreatingInv`: a session being created is in no other hands: not cached, announced
  to nobody, and no other task is about it; `UnusedInv`: an identity no request has
  claimed has left no trace. So inserting a row never overwrites a live session.
* `EndingInv`: a handler that ends a session is the only one, the session is out of
  the cache, and its end is neither recorded nor announced yet: removal from the
  Map, not the row, decides who ends it.
* `OverInv`: a cached session is neither recorded as matched nor announced as
  terminated, and none is both.
* `SelectedInv`: the reload and a creation only mark rows that exist.
* `StartInv`: a row that runs ahead of the cache belongs to a start about to be
  announced.

For patient clients, `SizeInv` has the size count the flags of every cached session, and
`ConnInv` the rows: a write under way is the only one for its member and says what
the cache says (`WriteInv`), and whoever has none under way has it written
(`WrittenInv`). The refinement adds `ExistsInv`: what is cached, or in a handler past
its creation, has a row, so that `phase` never returns to "none".

`SessionSetup_proofs`: every action of the set-up is an action of the life cycle or leaves
its variables alone, which gives `SetupIsLifecycle` and with it all invariants of
`SessionLifecycle_proofs`. `GroupInv`: a session's group was found or made for its
roster, which does not change (`HoldsInv`), and only the creator is connected before
the invitations (`InvitedInv`). `ConnectionsAreAnnounced` is then inductive: a
connection that ends its write is announced to whoever is connected by then, so the
later of two reaches the earlier.

`VotingRound_proofs`: `Orderly` is what holds until a ballot is counted whose voter has
left. `TurnInv`: while a round is being resolved no connected member has a deck or a
ballot in hand, so that no ballot but a late one can complete another round meanwhile,
although nothing locks the round. `BallotInv` and `HandInv`: each voter is in the
pending round once, and not in hand as well; its size, and that of every snapshot in
hand, is at least the number of members connected or in it: a snapshot that is out of
date only errs towards waiting. As many ballots as that are everybody's. `MatchInv`:
after a match nobody connected has a ballot in hand, and its handler ends the session.
`EndInv`, which needs no such condition: a session that ended without a match is cleared, a handler is suspended
just before it, or a ballot has been counted since.
The engine: `FirstVote` says what the map of ratings holds; sums are counts, so more
votes or higher scores are larger sets (`MoreVotes`, `MoreScores`), and the rest is the
arithmetic of fractions (`DominantIsHigher`, `OutvotedIsLower`: a score average is at
most `ScoreUnit`). Comparing by score, then by first vote, is a strict total order of the
candidates (`PrecedenceIsOrder`), so an item's place, one more than the number of those
before it, is its own. `MatchedItem` exists since places are natural numbers (`Least`, from
their being well-founded).

`ReliableDelivery_proofs`: `IdInv`: sequence numbers are one-to-one on the messages sent
since they last began at 0; `QueueInv`: the message in flight and the queue are in
sending order, and the queue was not received; `WireInv`: every copy under way is of
the message in flight or of one received, and every acknowledgement of one
received. So an acknowledgement that matches is not an old one (`AckIsOwn`), and each
action is a step of the channel or leaves it alone (`Step`).

`WsPresence_proofs`: `OrderlyInv`: for clients that open one connection at a time, a live
socket is being accepted, is the registered one, or is the one a socket being added
has yet to replace. `AbsentAreAwaitedOrRemoved` and `TypeOK`, which has the two queues of
timers free of repetitions, are inductive together.

`SessionChat_proofs`: `ProcessedKept`: what was acknowledged or counted as processed is
stored, in hand, or lost at a restart; `WireInOrder` and `NothingSkipped`: before a number
on the wire, and before the one sent next, come all those not kept, so that raising
`lastProcessedSeq` over a gap never drops a message; `OneRowPerLife`: a second row takes a
second life of the server.

`GroupRecommender_proofs`: `RecordInv`: the record of a session that goes on tracks at
least who is connected, and of the members of any two requests, or of a request and the
record, one set holds the other, so equal numbers mean equal members; `QueuesVoted`:
queues hold voted items only, which the models exclude. These hold whatever comes
late. `InTime` holds until a late ballot is counted: a round, or a snapshot in hand,
waits for a set of members that contains all who are connected or have voted, and
while a request is under way it is the only one and everybody's ballot is in it.
So does `RedistributionInv`, which
says what becomes of a vote: it is in the record, or was forgotten at a restart; queues
hold nothing their member is asked or has voted on; and everybody else has an item that
somebody liked in a queue, on a deck, in hand or behind them, unless somebody rejected it.

`People_proofs`: `AccountInv` and `RelationInv`: every row refers to users there are, each
transaction that writes one finding them; `AdmissionInv`: the identity of a request is
unused, in the table, in the hands of one admission, or answered, and never two of
these. `LoginInv` says what each overlapping request may still do to a user's rows: a
request that none has run into shares neither user nor device with another that
writes (`ApartInv`), so what it has done so far (`Done`), and what the last log-in
(`Lasts`) or log-out (`Gone`) left, stays until another begins.

**Only model-checked.** Liveness, which is beyond the prover: `ArrivesOnceConnected`,
`SteadyUsersAreKicked`, `ReachesEveryone`, `DecksFollow`, `StuckRowsRecovered`, and of the
refinement `LivesOnce` the fairness of its target.

## Not modelled

* Statistics and history queries, the search for people, the replay of a
  chat: they read, and change nothing. The comment of `usersAvailibilityService.ts`
  that a user is in at most one session is held by no code: the app asks who is
  available, and nothing looks again when a session is created, so sessions share users
  in the models. Two set-ups that find no group both make one; no text forbids it.
* FCM, mail, image storage, third-party APIs: external, fire-and-forget.
* Scores, similarities and trained weights of the recommender: numerical; their
  rankings are free in `GroupRecommender`.
* HTTP error mapping, authentication middleware, data preparation, scripts and
  containers: no protocol state. The RabbitMQ recommendation client is not used by
  the service.

**Hazards seen, without a property.** `PROJECT.json` has the hazards the properties are
for. Others are left to tests or to a decision, since no property of the models could
add to what one line shows:

* *Limits*: the timer that would bound a running session is never started
  (`sessionManagementService.ts:683`); a match leaves `allHistorySesInfos` behind (`:637`); a
  user's sending queue has no limit (`wsManager.ts:313`); `clients` of the inbound protocol
  (`messageProtocol.ts:12`) and the recommender's records
  (`RecommendationSystemGateway.ts:199`) are never deleted.
* *Chat*: a client that skips a number loses what it skipped (`messageProtocol.ts:59`); the
  handlers of two messages overlap and may be stored in either order
  (`chatService.ts:39`); a replay by timestamp misses a message being stored
  (`sessionChatDatabase.ts:14`).
* *Accounts and pictures*: an update of `is_verified` that fails is answered as if it had
  not, with the token gone (`userCreationService.ts:46`); a verification mail that fails leaves an account nobody can
  verify or register again (`userCreationService.ts:138`); two uploads leave two pictures
  (`imagesDatabase.ts:13`).
* *Wrong for every input*: `uid` read
  where `uuid` was selected (`usersSearchQueries.ts:101`), a taken name answered as a taken
  e-mail (`001_users.sql:15`).

## Plan

1. `SessionLifecycle`, its abstraction and theorems — done.
2. `MatchingEngine`, `VotingRound` and its theorems — done.
3. `ReliableDelivery`, `ReliableChannel` and the refinement — done.
4. `WsPresence` and its theorems — done.
5. `SessionChat` with the inbound protocol, and its theorems — done.
6. `GroupRecommender` and its theorems — done.
7. `Accounts`, `Friendship`, `People` and their theorems — done.
8. `SessionRows`, `SessionSetup` with groups, invitations and availability, and their
   theorems — done.
9. The theorems for patient clients, the safety part of the refinement of `SessionLife`,
   and those of the engine — done.
10. Left: a composition of `WsPresence` with `SessionLifecycle` (an absent user leaves his
    session), of which each half is proved; `RowsAgree` and `ConnectionsAnnounced` for writes
    that fail, which needs a weaker statement, since a member whose write fails stays
    connected in the cache alone.
