SPECIFICATION MCSpec
CONSTANTS
    Sessions = {s1, s2}
    Users = {u1, u2, u3}
    Requests = {r1, r2}
    Groups = {g1, g2}
    s1 = s1
    s2 = s2
    u1 = u1
    u2 = u2
    u3 = u3
    r1 = r1
    r2 = r2
    g1 = g1
    g2 = g2
    MaxMembers = 4
    None = None
    PatientClients = TRUE
    MayFail = {"writeBroken"}
    SizeBound = 3
    MaxRestarts = 1
    SetupMayFail = TRUE
INVARIANTS GroupHoldsMembers ConnectionsAreAnnounced
CONSTRAINT MCBound
SYMMETRY MCSymmetry
CHECK_DEADLOCK FALSE
