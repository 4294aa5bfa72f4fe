SPECIFICATION FairSpec
CONSTANTS
    Members = {a, b, c}
    Items = {x}
    ScoreUnit = 1
    Verdicts = {1}
    Unseen = Unseen
    Handlers = {h1, h2}
    MembersLeave = FALSE
    RequestsFail = FALSE
    MaxRounds = 2
PROPERTY DecksFollow
CHECK_DEADLOCK FALSE
