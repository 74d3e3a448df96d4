SPECIFICATION Spec
CONSTANTS
    Courses <- MCCourses
    Width = 2
    Rank <- MCRank
    DefaultLimit = 2
    MaxLimit = 3
    Limits <- MCLimits
    MaxChanges = 2
INVARIANTS
    NothingMissed
    NothingTwice
    OthersArrive
