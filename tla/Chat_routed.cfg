SPECIFICATION FairSpec
CONSTANTS
    a = a
    b = b
    Users <- MCUsers
    Texts <- MCTexts
    WireBound = 2
    MaxCuts = 1
    MaxRestarts = 2
INVARIANTS AcknowledgedHandledOnce
PROPERTIES ReachesEveryone
CHECK_DEADLOCK FALSE
