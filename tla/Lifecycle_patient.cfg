SPECIFICATION FairSpec
CONSTANTS
    Sessions = {s1}
    Users = {u1, u2, u3}
    Requests = {r1, r2}
    s1 = s1
    u1 = u1
    u2 = u2
    u3 = u3
    r1 = r1
    r2 = r2
    None = None
    PatientClients = TRUE
    MayFail = {}
    SizeBound = 3
    MaxRestarts = 1
INVARIANTS SizeCountsConnected RowsAgreeOnConnected
PROPERTIES TwoMembersRemain LivesOnce StuckRowsRecovered
CHECK_DEADLOCK FALSE
