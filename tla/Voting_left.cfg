SPECIFICATION FairSpec
CONSTANTS
    Members = {a, b, c}
    Items = {x}
    ScoreUnit = 1
    Verdicts = {1}
    Unseen = Unseen
    Handlers = {h1, h2}
    MembersLeave = TRUE
    RequestsFail = FALSE
    MaxRounds = 1
PROPERTY DecksFollow
CHECK_DEADLOCK FALSE
