SPECIFICATION FairSpec
CONSTANTS
    Threads = {t1, t2}
    Stoppers = {s1, s2}
    Handles = {h1, h2, h3}
    Repos = {courses, admins}
    None = None
CHECK_DEADLOCK FALSE
INVARIANTS
    SocketsOwnedOnce
    ThreadsHaveSockets
    ServesUntilAsked
PROPERTIES
    ShutdownCompletes
