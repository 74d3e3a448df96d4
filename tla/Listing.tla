-------------------------------- MODULE Listing --------------------------------
(***************************************************************************)
(* The table of courses read page by page: VIEW_ALL_PAGE of the client,    *)
(* handle_view_all_page and view_all_courses_paged of the server, while    *)
(* other clients change the table between two pages.  The text of the      *)
(* answers is in CourseText.                                               *)
(*                                                                         *)
(* No source tells how a reader goes on, so the reader is external: it     *)
(* asks next for the offset at which its rows end, and stops at an empty   *)
(* page.  What goes on inside one query is in CourseRepository.            *)
(*                                                                         *)
(* All clients share one connection, so a reader sees what another one's   *)
(* open transaction has done so far, a deletion that a third one made in   *)
(* it is part of it, and its ROLLBACK takes all of that back.  A row whose *)
(* text is changed counts as taken away and added.  A change that comes    *)
(* between two rows of a page counts as before the page if its row is yet  *)
(* to come, and as after it otherwise.                                     *)
(***************************************************************************)
EXTENDS Integers, FiniteSets, SequencesExt, CourseText

CONSTANTS
    Rank,           \* a row's place in ORDER BY code, section, semester, day
    DefaultLimit,   \* 200 in the code
    MaxLimit,       \* 1000 in the code
    Limits,         \* what readers pass as limit
    MaxChanges      \* changes of the table: a bound

ASSUME FiniteAssumption  == IsFiniteSet(Courses)
ASSUME RankAssumption    == \A c \in Courses : Rank[c] \in Nat
ASSUME LimitsAssumption  == MaxLimit \in Nat /\ DefaultLimit \in 1 .. MaxLimit /\ Limits \subseteq Int

VARIABLES
    table,      \* the rows of courses JOIN schedules, as statements see them
    disk,       \* the rows as last committed
    inTx,       \* some client has a transaction open
    page,       \* the rows the last query returned
    got,        \* the courses the reader has been shown
    done,       \* it was shown an empty page
    start,      \* the rows when it began
    happened,   \* what came in between since then
    changes     \* the number of changes: a bound counts them

vars == <<table, disk, inTx, page, got, done, start, happened, changes>>

-----------------------------------------------------------------------------
(* The query. *)

\* handle_view_all_page.
LimitOf(l)  == IF l <= 0 \/ l > MaxLimit THEN DefaultLimit ELSE l
OffsetOf(o) == IF o < 0 THEN 0 ELSE o

\* The orders in which a query may return the rows: duration is part of their
\* key and not of ORDER BY.
Orders == {s \in SetToSeqs(table) :
              \A i, j \in DOMAIN s : i < j => Rank[s[i]] <= Rank[s[j]]}

\* What makes places in the list uncertain, or what is shown of it.
Doubts(rows) ==
    {d \in {"tied"} : \E a, b \in table : a # b /\ Rank[a] = Rank[b]}
    \cup {d \in {"garbled"} : \E a \in ToSet(rows) : ~Clean(a)}

Slice(s, first, last) == SubSeq(s, first, IF last < Len(s) THEN last ELSE Len(s))

\* Mutants: OFFSET one too far, and one short.
PageLate(s, o, l)  == Slice(s, o + 2, o + l + 1)
PageEarly(s, o, l) == IF o = 0 THEN Slice(s, 1, l) ELSE Slice(s, o, o + l - 1)

\* view_all_courses_paged: LIMIT l OFFSET o.
Page(s, o, l) == Slice(s, o + 1, o + l)

-----------------------------------------------------------------------------
(* The reader and the other clients. *)

\* A reader begins to read.
Begin ==
    /\ done' = FALSE /\ got' = <<>> /\ page' = <<>>
    /\ start' = table /\ happened' = {}
    /\ UNCHANGED <<table, disk, inTx, changes>>

\* send_and_recv, and DATA.
Shows(rows, seen) ==
    /\ page' = rows
    /\ got' = got \o Parse(Serialize(rows))
    /\ done' = (Parse(Serialize(rows)) = <<>>)
    /\ happened' = happened \cup seen
    /\ UNCHANGED <<table, disk, inTx, start, changes>>

\* One VIEW_ALL_PAGE.  A query that fails is answered with the rows it had
\* returned until then (prepare_and_collect's result is not looked at).
ReadPage ==
    /\ ~done
    /\ \E s \in Orders, l \in Limits, o \in {Len(got), -1} :
          /\ o < 0 => got = <<>>
          /\ LET rows == Page(s, OffsetOf(o), LimitOf(l))
             IN  \/ Shows(rows, Doubts(rows))
                 \/ \E n \in 0 .. Len(rows) - 1 :
                       Shows(SubSeq(rows, 1, n), Doubts(rows) \cup {"failed"})

Changes(rows, what) ==
    /\ ~done /\ changes < MaxChanges
    /\ table' = rows
    /\ disk' = IF inTx THEN disk ELSE rows
    /\ changes' = changes + 1
    /\ happened' = happened \cup {what}
    /\ UNCHANGED <<inTx, page, got, done, start>>

\* Statements of insert_or_replace, update and delete_course of other clients:
\* a DELETE may be one of its own or fall into another client's transaction.
AddRow    == \E c \in Courses \ table : Changes(table \cup {c}, "added")
RemoveRow == \E c \in table : Changes(table \ {c}, "removed")

\* BEGIN of another client's insert_or_replace or update.
BeginTx ==
    /\ ~done /\ ~inTx
    /\ inTx' = TRUE
    /\ UNCHANGED <<table, disk, page, got, done, start, happened, changes>>

\* Its COMMIT.
CommitTx ==
    /\ ~done /\ inTx
    /\ inTx' = FALSE
    /\ disk' = table
    /\ UNCHANGED <<table, page, got, done, start, happened, changes>>

\* Its ROLLBACK after a statement or a COMMIT that failed, SQLite's own, or a
\* crash of the server: everybody's changes since BEGIN are gone.
UndoTx ==
    /\ ~done /\ inTx
    /\ inTx' = FALSE
    /\ table' = disk
    /\ happened' = happened \cup {w \in {"undone"} : table # disk}
    /\ UNCHANGED <<disk, page, got, done, start, changes>>

Init ==
    /\ table \in SUBSET Courses /\ disk = table /\ inTx = FALSE /\ start = table
    /\ page = <<>> /\ got = <<>> /\ done = FALSE
    /\ happened = {} /\ changes = 0

Next == Begin \/ ReadPage \/ AddRow \/ RemoveRow \/ BeginTx \/ CommitTx \/ UndoTx

Spec == Init /\ [][Next]_vars

-----------------------------------------------------------------------------
(* Properties. *)

\* A reader who goes on until an empty page has been shown every course that
\* was there when it began, whatever limits it passed and however many courses
\* were added meanwhile, committed or not yet.  It can miss one only if a course
\* was deleted, something was undone, a query failed, ORDER BY left two rows
\* unordered or a field held a separator.
NothingMissed ==
    done /\ happened \subseteq {"added"} => start \subseteq ToSet(got)

\* No course is shown twice unless one was added meanwhile, a ROLLBACK undid
\* something, or for the last two of these reasons: deletions that last and
\* failed queries repeat nothing.
NothingTwice ==
    happened \subseteq {"removed", "failed"} => IsInjective(got)

\* A separator in a field spoils its own course and no other one of the page:
\* the other courses arrive, whole and in their order, among what the reader
\* makes of the text.
OthersArrive ==
    LET shown == Parse(Serialize(page))
        whole == {i \in DOMAIN page : Clean(page[i])}
    IN  \E f \in [whole -> DOMAIN shown] :
            /\ \A i, j \in whole : i < j => f[i] < f[j]
            /\ \A i \in whole : shown[f[i]] = page[i]

=============================================================================
