SPECIFICATION Spec
CONSTANTS
    Threads = {t1}
    Stoppers = {s1}
    Handles = {h1, h2}
    Repos = {courses, admins}
    None = None
CHECK_DEADLOCK FALSE
INVARIANT
    NoUseAfterClose
