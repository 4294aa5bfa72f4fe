SPECIFICATION FairSpec
CONSTANTS
    MaxSockets = 4
    None = None
    Clients = {"steady", "orderly", "hasty"}
INVARIANTS TypeOK AbsentAreAwaitedOrRemoved LiveClientRegistered
PROPERTY SteadyUsersAreKicked
CHECK_DEADLOCK FALSE
