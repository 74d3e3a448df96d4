------------------------------- MODULE MCCourse -------------------------------
(* Instances of CourseRepository for TLC. *)
EXTENDS CourseRepository, TLC

\* Everything the handlers of an administrator send to the repository.
WriteRequests == Writes \cup Deletes

\* One query, that of view_all_courses.
ViewAll == [op |-> "query", keys |-> CourseKeys, details |-> Details,
            slots |-> Slots]

\* The queries of one filter: by code, by instructor, by semester, none.
QueryRequests ==
    {[ViewAll EXCEPT !.keys = {c}] : c \in CourseKeys}
    \cup {[ViewAll EXCEPT !.details = {d}] : d \in Details}
    \cup {[ViewAll EXCEPT !.slots = {s}] : s \in Slots}
    \cup {ViewAll}

AllRequests          == WriteRequests \cup QueryRequests
WriteAndViewRequests == WriteRequests \cup {ViewAll}

NoFaults        == {}
StatementFaults == {"statement"}

\* Not for the runs that check liveness.
Symmetric == Permutations(Threads) \cup Permutations(CourseKeys)

=============================================================================
