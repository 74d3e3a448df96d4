SPECIFICATION LedgerSpec
CONSTANTS
    Threads = {t1}
    CourseKeys = {c1, c2}
    Slots = {s1, s2}
    Details = {d1, d2}
    Rooms = {r1, r2}
    None = None
    Requests <- AllRequests
    Faults <- FaultKinds
SYMMETRY Symmetric
INVARIANTS
    DeletedStays
PROPERTIES
    AtomicRequests
    ReadsCommitted
