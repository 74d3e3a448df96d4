------------------------------ MODULE CourseText ------------------------------
(***************************************************************************)
(* The text in which courses travel: serialize_courses of the server, and  *)
(* split and parse_courses of the client.                                  *)
(***************************************************************************)
EXTENDS Integers, SequencesExt

CONSTANTS
    Courses,        \* joined rows; a row is the sequence of its Width fields
    Width           \* fields of a course (8 in the code)

\* A field is a sequence of characters.
Text(c) == c \in Seq(Seq(STRING)) /\ Len(c) = Width

ASSUME CoursesAssumption == \A c \in Courses : Text(c)
ASSUME WidthAssumption   == Width \in Nat \ {0}

RecordSep == "RS"
FieldSep  == "US"

\* Mutant: a separator after each record, not before it.
SerializeAfter(cs) == <<"N">> \o FlattenSeq([i \in DOMAIN cs |->
    FlattenSeq([j \in 1 .. Width |-> cs[i][j] \o
        (IF j = Width THEN <<RecordSep>> ELSE <<FieldSep>>)])])

\* A course after its separators; fields are not escaped.
Record(c) == FlattenSeq([j \in 1 .. Width |->
    (IF j = 1 THEN <<RecordSep>> ELSE <<FieldSep>>) \o c[j]])

\* serialize_courses: the number of courses, and the courses.
Serialize(cs) == <<"N">> \o FlattenSeq([i \in DOMAIN cs |-> Record(cs[i])])

\* split of the client.
Split(text, sep) ==
    FoldLeft(LAMBDA out, ch : IF ch = sep THEN Append(out, <<>>)
                              ELSE [out EXCEPT ![Len(out)] = Append(@, ch)],
             <<<<>>>>, text)

\* parse_courses: the number is skipped, a record that is too short dropped,
\* and what exceeds the fields of a course ignored.
CourseOf(fields) == IF Len(fields) < Width THEN <<>> ELSE <<SubSeq(fields, 1, Width)>>
CoursesOf(records) ==
    FlattenSeq([i \in DOMAIN records |-> CourseOf(Split(records[i], FieldSep))])
Parse(text) == CoursesOf(Tail(Split(text, RecordSep)))

\* No separator in any field.
Clean(c) == \A j \in 1 .. Width : \A i \in DOMAIN c[j] : c[j][i] \notin {RecordSep, FieldSep}

=============================================================================
