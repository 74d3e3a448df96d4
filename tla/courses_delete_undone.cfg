SPECIFICATION SteadySpec
CONSTANTS
    Threads = {t1, t2}
    CourseKeys = {c1}
    Slots = {s1}
    Details = {d1}
    Rooms = {r1}
    None = None
    Requests <- WriteRequests
    Faults <- NoFaults
SYMMETRY Symmetric
INVARIANT DeletedStays
