SPECIFICATION Spec
CONSTANTS
    Sessions = {s1, s2}
    Users = {u1, u2}
    Requests = {r1, r2}
    s1 = s1
    s2 = s2
    u1 = u1
    u2 = u2
    r1 = r1
    r2 = r2
    None = None
    PatientClients = TRUE
    MayFail = {"markOldSessions", "insertSession", "markFcmFailed", "writeConnected",
               "writeRunning", "writeBroken", "writeMatched"}
    SizeBound = 2
    MaxRestarts = 0
INVARIANTS TypeOK EndedOnce CreationTimerArmed RowFollowsCache
SYMMETRY MCSymmetry
CHECK_DEADLOCK FALSE
