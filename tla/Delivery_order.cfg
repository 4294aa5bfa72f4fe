SPECIFICATION FairSpec
CONSTANTS
    MaxResend = 2
    None = None
    MaxSent = 5
    MaxConnects = 3
    WireBound = 4
INVARIANTS TypeOK
PROPERTIES InOrder ArrivesOnceConnected
CHECK_DEADLOCK FALSE
