SPECIFICATION Spec
CONSTANTS
    a = a
    b = b
    c = c
    mailA = mailA
    mailB = mailB
    Ids = {a, b, c}
    Emails = {mailA, mailB}
    Devices = {d1, d2}
    AccountTasks = {t1, t2}
    RowIds = {1, 2, 3, 4, 5}
    MaxSecond = 1
    NoDevice = NoDevice
    NoToken = NoToken
    FriendTasks = {f1, f2}
    Requests = {q1, q2}
    Registered <- MCRegistered
    MaxBegun = 4
INVARIANTS TypeOK LogoutLeavesNothing LoneLoginLasts RemovedUserHasNoTies OneRelation AdmittedOnce
SYMMETRY PeopleSymmetry
CHECK_DEADLOCK FALSE
