------------------------------ MODULE MCListing ------------------------------
(* Instances of Listing for TLC: courses of two fields. *)
EXTENDS Listing

Course(first, second) == <<first, second>>

Algebra   == Course(<<"a">>, <<"x">>)
Botany    == Course(<<"b">>, <<>>)
Chemistry == Course(<<"c">>, <<"x">>)
Garbled   == Course(<<"a", FieldSep, "b">>, <<"x", RecordSep, "y">>)

MCCourses == {Algebra, Botany, Chemistry, Garbled}

\* Two are given on one day, with two durations.
MCRank == [c \in MCCourses |->
    CASE c = Algebra -> 1 [] c = Botany -> 2 [] OTHER -> 3]

\* A garbled limit is 0 (atoi).
MCLimits == {0, 1, 3, 4}

=============================================================================
