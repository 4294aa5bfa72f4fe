SPECIFICATION Spec
CONSTANTS
    Members = {a, b, c}
    Items = {x}
    ScoreUnit = 1
    Verdicts = {0, 1}
    Unseen = Unseen
    Handlers = {h1, h2}
    MembersLeave = TRUE
    RequestsFail = TRUE
    MaxRounds = 2
INVARIANTS ResolvedOnce TerminatedLeavesNothing
PROPERTIES AllVotedWhenResolved WinnerIsLiked
VIEW VotingView
SYMMETRY VotingSymmetry
CHECK_DEADLOCK FALSE
