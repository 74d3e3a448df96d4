SPECIFICATION FairSpec
CONSTANTS
    Threads = {t1, t2}
    CourseKeys = {c1, c2}
    Slots = {s1}
    Details = {d1}
    Rooms = {r1}
    None = None
    Requests <- WriteAndViewRequests
    Faults <- FaultKinds
INVARIANTS
    ReferentialIntegrity
    NoLeakedTransaction
PROPERTIES
    EveryRequestAnswered
    TransactionEnds
