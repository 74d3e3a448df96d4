SPECIFICATION LedgerSpec
CONSTANTS
    Threads = {t1, t2, t3}
    CourseKeys = {c1, c2}
    Slots = {s1}
    Details = {d1}
    Rooms = {r1}
    None = None
    Requests <- WriteRequests
    Faults <- StatementFaults
SYMMETRY Symmetric
INVARIANTS
    TypeOK
    ReferentialIntegrity
    OneTransaction
    NoUnscheduledCourse
    AddedStays
