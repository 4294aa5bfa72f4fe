SPECIFICATION LogSpec
CONSTANTS
    Members = {a, b, c}
    Items = {x, y}
    ScoreUnit = 2
    MaxVotes = 3
    MaxRecs = 2
    VoteRatings <- Ratings
    MinActive = 1
    Scores = {0, 2}
INVARIANTS MatchesAreWantedByAll RankedByVotesThenScores
PROPERTIES RevotesChangeNothing
SYMMETRY EngineSymmetry
CHECK_DEADLOCK FALSE
