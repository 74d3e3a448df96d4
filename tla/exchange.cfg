SPECIFICATION FairSpec
CONSTANTS
    Clients = {c1}
    MaxConns = 2
    MaxCalls = 2
INVARIANTS
    RolesAgree
    NothingUnread
PROPERTIES
    ImplementsCall
    EveryCallSettles
    AbandonedThreadsEnd
