----------------------------- MODULE Listing_proofs -----------------------------
(***************************************************************************)
(* Proofs of NothingMissed, NothingTwice and OthersArrive of Listing.      *)
(*                                                                         *)
(* The first two count: the place of a row in every order a query may      *)
(* return is the number of rows that come no later, and the reader asks    *)
(* next for the place that is the number of its courses.  What the reader  *)
(* makes of the text of a page is in CourseText_proofs.                    *)
(***************************************************************************)
EXTENDS Listing, CourseText_proofs, FiniteSetTheorems, SequenceTheorems, TLAPS

\* The rows that come no later than a row does.
Below(rows, r) == {q \in rows : Rank[q] <= Rank[r]}

\* No two rows are at one place of ORDER BY.
Untied == \A a, b \in table : a # b => Rank[a] # Rank[b]

-----------------------------------------------------------------------------
(* The query. *)

\* The rows that come no later than a row are as many as there are, at most.
LEMMA BelowFinite ==
    ASSUME NEW rows \in SUBSET Courses, NEW r
    PROVE  /\ IsFiniteSet(Below(rows, r))
           /\ Cardinality(Below(rows, r)) \in Nat
  <1>1. IsFiniteSet(Below(rows, r))
    BY FS_Subset, FiniteAssumption, Below(rows, r) \in SUBSET Courses DEF Below
  <1> QED
    BY <1>1, FS_CardinalityType

\* They are no fewer after other rows came in, or before some were taken away,
\* and seen from a later row.
LEMMA BelowGrows ==
    ASSUME NEW rows \in SUBSET Courses, NEW more \in SUBSET Courses,
           NEW r \in Courses, NEW q \in Courses,
           rows \subseteq more, Rank[r] <= Rank[q]
    PROVE  Cardinality(Below(rows, r)) <= Cardinality(Below(more, q))
  <1>1. Below(rows, r) \in SUBSET Below(more, q)
    BY RankAssumption DEF Below
  <1> QED
    BY <1>1, BelowFinite, FS_Subset

\* An order is a sequence of courses.
LEMMA OrderType ==
    ASSUME table \in SUBSET Courses, NEW s \in Orders
    PROVE  s \in Seq(Courses)
  <1>1. Cardinality(table) \in Nat
    BY FS_Subset, FS_CardinalityType, FiniteAssumption
  <1>2. s \in [1 .. Cardinality(table) -> table]
    BY DEF Orders, SetToSeqs
  <1> QED
    BY <1>1, <1>2

\* Every order a query may return holds each row once, and each at the place
\* that is the number of the rows that come no later.
LEMMA Places ==
    ASSUME table \in SUBSET Courses, Untied, NEW s \in Orders
    PROVE  /\ Len(s) \in Nat /\ s \in Seq(Courses)
           /\ \A r \in table : \E i \in 1 .. Len(s) : s[i] = r
           /\ \A i \in 1 .. Len(s) : s[i] \in table /\ Cardinality(Below(table, s[i])) = i
           /\ \A i, j \in 1 .. Len(s) : i < j => Rank[s[i]] < Rank[s[j]]
  <1> DEFINE n == Cardinality(table)
  <1>1. IsFiniteSet(table) /\ n \in Nat
    BY FS_Subset, FS_CardinalityType, FiniteAssumption
  <1>2. s \in [1 .. n -> table] /\ \A i, j \in 1 .. n : i # j => s[i] # s[j]
    BY DEF Orders, SetToSeqs
  <1>3. Len(s) = n /\ DOMAIN s = 1 .. n /\ s \in Seq(Courses)
    BY <1>1, <1>2
  <1>4. s \in Injection(1 .. n, table)
    BY <1>2 DEF Injection, IsInjective
  <1>5. IsFiniteSet(1 .. n) /\ Cardinality(1 .. n) = n
    BY <1>1, FS_Interval
  <1>6. s \in Surjection(1 .. n, table)
    BY <1>1, <1>4, <1>5, FS_Injection
  <1>7. \A r \in table : \E i \in 1 .. n : s[i] = r
    BY <1>6 DEF Surjection
  <1>8. \A i, j \in 1 .. n : i < j => Rank[s[i]] < Rank[s[j]]
    <2> SUFFICES ASSUME NEW i \in 1 .. n, NEW j \in 1 .. n, i < j
                 PROVE  Rank[s[i]] < Rank[s[j]]
      OBVIOUS
    <2>1. Rank[s[i]] <= Rank[s[j]]
      BY <1>3 DEF Orders
    <2>2. Rank[s[i]] # Rank[s[j]]
      BY <1>1, <1>2 DEF Untied
    <2> QED
      BY <1>1, <1>2, <2>1, <2>2, RankAssumption
  <1>9. \A i \in 1 .. n : Cardinality(Below(table, s[i])) = i
    <2> SUFFICES ASSUME NEW i \in 1 .. n
                 PROVE  Cardinality(Below(table, s[i])) = i
      OBVIOUS
    <2> DEFINE first == [k \in 1 .. i |-> s[k]]
    <2>1. \A k \in 1 .. i : k \in 1 .. n /\ s[k] \in Below(table, s[i])
      <3> SUFFICES ASSUME NEW k \in 1 .. i
                   PROVE  k \in 1 .. n /\ s[k] \in Below(table, s[i])
        OBVIOUS
      <3>1. k \in 1 .. n
        BY <1>1
      <3>2. k = i \/ k < i
        BY <1>1
      <3> QED
        BY <1>1, <1>2, <1>8, <3>1, <3>2, RankAssumption DEF Below
    <2>2. \A q \in Below(table, s[i]) : \E k \in 1 .. i : s[k] = q
      <3> SUFFICES ASSUME NEW q \in Below(table, s[i])
                   PROVE  \E k \in 1 .. i : s[k] = q
        OBVIOUS
      <3>1. PICK k \in 1 .. n : s[k] = q
        BY <1>7 DEF Below
      <3>2. ~(i < k)
        BY <1>1, <1>2, <1>8, <3>1, RankAssumption DEF Below
      <3> QED
        BY <1>1, <3>1, <3>2
    <2>3. first \in Bijection(1 .. i, Below(table, s[i]))
      BY <1>2, <2>1, <2>2 DEF Bijection, Injection, Surjection, IsInjective
    <2>4. i \in Nat /\ ExistsBijection(1 .. i, Below(table, s[i]))
      BY <1>1, <2>3 DEF ExistsBijection
    <2> QED
      BY <2>4, FS_CountingElements
  <1> QED
    BY <1>1, <1>2, <1>3, <1>7, <1>8, <1>9

\* A page holds the rows from its offset on, is empty only past the last row and
\* never longer than the limit.
LEMMA PageRows ==
    ASSUME NEW s \in Seq(Courses), NEW o \in Nat, NEW l \in Int
    PROVE  LET rows == Page(s, o, LimitOf(l))
           IN  /\ rows \in Seq(Courses)
               /\ Len(rows) \in 0 .. MaxLimit
               /\ \A i \in 1 .. Len(rows) : o + i \in 1 .. Len(s) /\ rows[i] = s[o + i]
               /\ rows = <<>> => Len(s) <= o
  <1> DEFINE limit == LimitOf(l)
             last  == IF o + limit < Len(s) THEN o + limit ELSE Len(s)
             rows  == Page(s, o, limit)
  <1>1. limit \in 1 .. MaxLimit
    BY LimitsAssumption DEF LimitOf
  <1>2. last \in Nat /\ last <= Len(s) /\ last <= o + limit /\ Len(s) \in Nat
    BY <1>1, LimitsAssumption
  <1>3. rows = SubSeq(s, o + 1, last)
    BY DEF Page, Slice
  <1>4. \A i \in o + 1 .. last : s[i] \in Courses
    BY <1>2
  <1> HIDE DEF last, rows, limit
  <1>5. /\ rows \in Seq(Courses)
        /\ Len(rows) = IF o + 1 <= last THEN last - o ELSE 0
        /\ \A i \in 1 .. last - o : rows[i] = s[o + i]
    <2>1. /\ SubSeq(s, o + 1, last) \in Seq(Courses)
          /\ Len(SubSeq(s, o + 1, last)) = IF o + 1 <= last THEN last - (o + 1) + 1 ELSE 0
          /\ \A i \in 1 .. last - (o + 1) + 1 : SubSeq(s, o + 1, last)[i] = s[o + 1 + i - 1]
      BY <1>2, <1>4, SubSeqProperties
    <2> QED
      BY <1>2, <1>3, <2>1
  <1>6. Len(rows) \in 0 .. MaxLimit
    BY <1>1, <1>2, <1>5, LimitsAssumption
  <1>7. \A i \in 1 .. Len(rows) : o + i \in 1 .. Len(s) /\ rows[i] = s[o + i]
    BY <1>2, <1>5
  <1>8. rows = <<>> => Len(s) <= o
    BY <1>1, <1>2, <1>5 DEF last
  <1> QED
    BY <1>5, <1>6, <1>7, <1>8 DEF rows, limit

-----------------------------------------------------------------------------
(* One page. *)

\* What a reader makes of an answer is what the query returned, when no field of
\* it holds a separator.
LEMMA Arrives ==
    ASSUME NEW rows \in Seq(Courses), "garbled" \notin Doubts(rows)
    PROVE  Parse(Serialize(rows)) = rows
  <1>1. \A i \in 1 .. Len(rows) : Clean(rows[i])
    BY DEF Doubts, ToSet
  <1> QED
    BY <1>1, RoundTrip

\* Rows that follow, in an order, those the reader was shown.
Follows(rows, s) ==
    /\ rows \in Seq(Courses) /\ Len(rows) \in 0 .. MaxLimit
    /\ \A i \in 1 .. Len(rows) : Len(got) + i \in 1 .. Len(s) /\ rows[i] = s[Len(got) + i]

\* The page at the end of what was shown follows it, and if it is empty the order
\* ends there.
LEMMA PageFollows ==
    ASSUME NEW s \in Seq(Courses), NEW l \in Limits,
           NEW o \in {Len(got), -1}, o < 0 => got = <<>>, Len(got) \in Nat
    PROVE  LET rows == Page(s, OffsetOf(o), LimitOf(l))
           IN  Follows(rows, s) /\ (rows = <<>> => Len(s) <= Len(got))
  <1>1. OffsetOf(o) = Len(got)
    BY DEF OffsetOf
  <1>2. l \in Int
    BY LimitsAssumption
  <1> DEFINE at   == Len(got)
             rows == Page(s, at, LimitOf(l))
  <1>3. at \in Nat
    OBVIOUS
  <1> HIDE DEF at
  <1>4. /\ rows \in Seq(Courses) /\ Len(rows) \in 0 .. MaxLimit
        /\ \A i \in 1 .. Len(rows) : at + i \in 1 .. Len(s) /\ rows[i] = s[at + i]
        /\ rows = <<>> => Len(s) <= at
    BY <1>2, <1>3, PageRows
  <1> QED
    BY <1>1, <1>4 DEF Follows, at

\* So do the first rows of a page.
LEMMA PrefixFollows ==
    ASSUME NEW s, NEW rows, Follows(rows, s), NEW n \in 0 .. Len(rows) - 1
    PROVE  Follows(SubSeq(rows, 1, n), s)
  <1>1. \A i \in 1 .. n : rows[i] \in Courses
    BY DEF Follows
  <1>2. /\ SubSeq(rows, 1, n) \in Seq(Courses)
        /\ Len(SubSeq(rows, 1, n)) = IF 1 <= n THEN n - 1 + 1 ELSE 0
        /\ \A i \in 1 .. n - 1 + 1 : SubSeq(rows, 1, n)[i] = rows[1 + i - 1]
    BY <1>1, SubSeqProperties
  <1>3. rows \in Seq(Courses) /\ Len(rows) \in 0 .. MaxLimit
    BY DEF Follows
  <1>4. /\ Len(SubSeq(rows, 1, n)) = n /\ n \in Nat
        /\ \A i \in 1 .. n : SubSeq(rows, 1, n)[i] = rows[i]
    BY <1>2, <1>3, LimitsAssumption
  <1>5. \A i \in 1 .. n : i \in 1 .. Len(rows)
    BY <1>3
  <1>6. n \in 0 .. MaxLimit
    BY <1>3, LimitsAssumption
  <1> QED
    BY <1>2, <1>4, <1>5, <1>6 DEF Follows

\* What happened before a page is read is not forgotten.
LEMMA PageSeen == ReadPage => happened \subseteq happened'
  BY DEF ReadPage, Shows

\* What one page adds to what was shown, when the rows were in doubt neither then
\* nor before: rows that follow it in an order of the table.
LEMMA PageRead ==
    ASSUME table \in SUBSET Courses, Len(got) \in Nat, ReadPage,
           "tied" \notin happened', "garbled" \notin happened'
    PROVE  /\ Untied /\ UNCHANGED <<table, start>> /\ happened \subseteq happened'
           /\ \E s \in Orders, rows \in Seq(Courses) :
                 /\ Follows(rows, s)
                 /\ got' = got \o rows
                 /\ done' = (rows = <<>>)
                 /\ "failed" \notin happened' => (rows = <<>> => Len(s) <= Len(got))
  <1>1. PICK s \in Orders, l \in Limits, o \in {Len(got), -1} :
           /\ o < 0 => got = <<>>
           /\ LET rows == Page(s, OffsetOf(o), LimitOf(l))
              IN  \/ Shows(rows, Doubts(rows))
                  \/ \E n \in 0 .. Len(rows) - 1 :
                        Shows(SubSeq(rows, 1, n), Doubts(rows) \cup {"failed"})
    BY DEF ReadPage
  <1> DEFINE rows == Page(s, OffsetOf(o), LimitOf(l))
  <1>2. Doubts(rows) \subseteq happened' /\ UNCHANGED <<table, start>>
        /\ happened \subseteq happened'
    BY <1>1 DEF Shows
  <1>3. Untied /\ "garbled" \notin Doubts(rows)
    BY <1>2 DEF Doubts, Untied
  <1>4. s \in Seq(Courses)
    BY <1>3, Places
  <1>5. Follows(rows, s) /\ (rows = <<>> => Len(s) <= Len(got))
    BY <1>1, <1>4, PageFollows
  <1>6. \/ Shows(rows, Doubts(rows))
        \/ \E n \in 0 .. Len(rows) - 1 :
              Shows(SubSeq(rows, 1, n), Doubts(rows) \cup {"failed"})
    BY <1>1
  <1> HIDE DEF rows
  <1>7. CASE Shows(rows, Doubts(rows))
    <2>1. Parse(Serialize(rows)) = rows
      BY <1>3, <1>5, Arrives DEF Follows
    <2>2. got' = got \o rows /\ done' = (rows = <<>>)
      BY <1>7, <2>1 DEF Shows
    <2> QED
      BY <1>2, <1>3, <1>5, <2>2 DEF Follows
  <1>8. CASE \E n \in 0 .. Len(rows) - 1 :
                Shows(SubSeq(rows, 1, n), Doubts(rows) \cup {"failed"})
    <2>1. PICK n \in 0 .. Len(rows) - 1 :
             Shows(SubSeq(rows, 1, n), Doubts(rows) \cup {"failed"})
      BY <1>8
    <2> DEFINE some == SubSeq(rows, 1, n)
    <2>2. Follows(some, s) /\ "failed" \in happened'
      BY <1>5, <2>1, PrefixFollows DEF Shows
    <2>3. "garbled" \notin Doubts(some)
      <3>1. ToSet(some) \subseteq ToSet(rows)
        <4>1. \A i \in 1 .. n : some[i] \in ToSet(rows)
          BY <1>5 DEF Follows, ToSet
        <4> QED
          BY <1>5, <2>2 DEF Follows, ToSet
      <3> HIDE DEF some
      <3> QED
        BY <1>3, <3>1 DEF Doubts
    <2>4. Parse(Serialize(some)) = some
      BY <2>2, <2>3, Arrives DEF Follows
    <2>5. got' = got \o some /\ done' = (some = <<>>)
      BY <2>1, <2>4 DEF Shows
    <2> HIDE DEF some
    <2> QED
      BY <1>2, <1>3, <2>2, <2>5 DEF Follows
  <1> QED
    BY <1>6, <1>7, <1>8

-----------------------------------------------------------------------------
(* NothingMissed. *)

\* The rows are courses, committed or not, and so were those at the beginning.
RowsOK == /\ table \in SUBSET Courses /\ disk \in SUBSET Courses
          /\ start \in SUBSET Courses

\* While courses are only added, one that was there and is still to be shown has
\* more rows up to it than were shown: the next offset does not pass it.
Missing ==
    happened \subseteq {"added"} =>
        /\ start \subseteq table /\ got \in Seq(Courses)
        /\ \A r \in start \ ToSet(got) : Len(got) < Cardinality(Below(table, r))
        /\ done => start \subseteq ToSet(got)

MissedInv == RowsOK /\ Missing

\* Every step leaves courses in the table.
LEMMA RowsStep == RowsOK /\ [Next]_vars => RowsOK'
  <1> SUFFICES ASSUME RowsOK, [Next]_vars PROVE RowsOK'
    OBVIOUS
  <1> USE DEF RowsOK
  <1>1. CASE Begin
    BY <1>1 DEF Begin
  <1>2. CASE ReadPage
    BY <1>2 DEF ReadPage, Shows
  <1>3. CASE AddRow \/ RemoveRow
    BY <1>3 DEF AddRow, RemoveRow, Changes
  <1>4. CASE BeginTx \/ CommitTx \/ UndoTx
    BY <1>4 DEF BeginTx, CommitTx, UndoTx
  <1>5. CASE UNCHANGED vars
    BY <1>5 DEF vars
  <1> QED
    BY <1>1, <1>2, <1>3, <1>4, <1>5 DEF Next

\* BEGIN and COMMIT change no rows, and a ROLLBACK that does is not forgotten.
LEMMA TxStep ==
    ASSUME BeginTx \/ CommitTx \/ UndoTx, "undone" \notin happened'
    PROVE  UNCHANGED <<table, got, done, start, happened>>
  <1>1. CASE BeginTx \/ CommitTx
    BY <1>1 DEF BeginTx, CommitTx
  <1>2. CASE UndoTx
    <2>1. table = disk
      BY <1>2 DEF UndoTx
    <2> QED
      BY <1>2, <2>1 DEF UndoTx
  <1> QED
    BY <1>1, <1>2

\* A page is read up to where a missing course is next, and additions only move it on.
LEMMA MissedStep ==
    ASSUME MissedInv, [Next]_vars
    PROVE  MissedInv'
  <1> SUFFICES ASSUME (happened \subseteq {"added"})'
               PROVE  /\ (start \subseteq table /\ got \in Seq(Courses))'
                      /\ (\A r \in start \ ToSet(got) :
                             Len(got) < Cardinality(Below(table, r)))'
                      /\ (done => start \subseteq ToSet(got))'
    BY RowsStep DEF MissedInv, Missing
  <1> USE DEF MissedInv, RowsOK
  <1>1. CASE Begin
    <2> USE <1>1 DEF Begin
    <2> SUFFICES ASSUME NEW r \in start'
                 PROVE  0 < Cardinality(Below(table', r))
      OBVIOUS
    <2>1. r \in Below(table', r) /\ table' \in SUBSET Courses
      BY RankAssumption DEF Below
    <2>2. Cardinality(Below(table', r)) # 0
      BY <2>1, BelowFinite, FS_EmptySet
    <2> QED
      BY <2>1, <2>2, BelowFinite
  <1>2. CASE ReadPage
    <2>1. happened \subseteq happened' /\ ReadPage
      BY <1>2, PageSeen
    <2>2. /\ start \subseteq table /\ got \in Seq(Courses) /\ Len(got) \in Nat
          /\ \A r \in start \ ToSet(got) : Len(got) < Cardinality(Below(table, r))
      BY <2>1 DEF Missing
    <2>3. /\ "tied" \notin happened' /\ "garbled" \notin happened'
          /\ "failed" \notin happened'
      OBVIOUS
    <2>4. Untied /\ UNCHANGED <<table, start>>
      BY <2>1, <2>2, <2>3, PageRead
    <2>5. PICK s \in Orders, rows \in Seq(Courses) :
             /\ Follows(rows, s)
             /\ got' = got \o rows
             /\ done' = (rows = <<>>)
             /\ rows = <<>> => Len(s) <= Len(got)
      BY <2>1, <2>2, <2>3, PageRead
    <2>6. /\ Len(s) \in Nat
          /\ \A r \in table : \E i \in 1 .. Len(s) : s[i] = r
          /\ \A i \in 1 .. Len(s) : Cardinality(Below(table, s[i])) = i
      BY <2>4, Places
    <2>7. \A r \in start' \ ToSet(got') :
             /\ Len(got') < Cardinality(Below(table', r))
             /\ rows # <<>>
      <3> SUFFICES ASSUME NEW r \in start \ ToSet(got')
                   PROVE  Len(got') < Cardinality(Below(table, r)) /\ rows # <<>>
        BY <2>4
      <3>1. r \in table
        BY <2>2
      <3>2. PICK i \in 1 .. Len(s) : s[i] = r /\ Cardinality(Below(table, r)) = i
        BY <2>6, <3>1
      <3>3. /\ \A k \in 1 .. Len(got) : got'[k] = got[k]
            /\ \A k \in 1 .. Len(rows) : got'[Len(got) + k] = rows[k]
            /\ Len(got') = Len(got) + Len(rows) /\ Len(rows) \in Nat
            /\ DOMAIN got' = 1 .. Len(got') /\ DOMAIN got = 1 .. Len(got)
        BY <2>2, <2>5
      <3>4. r \notin ToSet(got)
        BY <2>2, <3>3 DEF ToSet
      <3>5. Len(got) < i
        BY <2>2, <3>2, <3>4
      <3>6. ~(i <= Len(got) + Len(rows))
        <4> SUFFICES ASSUME i <= Len(got) + Len(rows)
                     PROVE  r \in ToSet(got')
          OBVIOUS
        <4> DEFINE k == i - Len(got)
        <4>1. k \in 1 .. Len(rows) /\ Len(got) + k = i
          BY <2>2, <2>6, <3>3, <3>5
        <4>2. rows[k] = r
          BY <2>5, <3>2, <4>1 DEF Follows
        <4>3. got'[i] = r
          BY <3>3, <4>1, <4>2
        <4>4. i \in DOMAIN got'
          BY <2>2, <2>6, <3>3
        <4> QED
          BY <4>3, <4>4 DEF ToSet
      <3>7. rows # <<>>
        BY <2>2, <2>5, <2>6, <3>5
      <3> QED
        BY <2>2, <2>6, <3>2, <3>3, <3>6, <3>7
    <2>8. (start \subseteq table /\ got \in Seq(Courses))'
      BY <2>2, <2>4, <2>5
    <2>9. (\A r \in start \ ToSet(got) : Len(got) < Cardinality(Below(table, r)))'
      BY <2>7 DEF Below, ToSet
    <2>10. done' => start' \subseteq ToSet(got')
      BY <2>5, <2>7
    <2> QED
      BY <2>8, <2>9, <2>10 DEF ToSet
  <1>3. CASE AddRow
    <2> USE <1>3 DEF AddRow, Changes
    <2>1. happened \subseteq {"added"} /\ table \subseteq table'
      OBVIOUS
    <2> SUFFICES ASSUME NEW r \in start \ ToSet(got)
                 PROVE  Len(got) < Cardinality(Below(table', r))
      BY <2>1 DEF Missing, Below, ToSet
    <2>2. Len(got) < Cardinality(Below(table, r)) /\ Len(got) \in Nat
      BY <2>1 DEF Missing
    <2>3. Cardinality(Below(table, r)) <= Cardinality(Below(table', r))
      BY <2>1, RowsStep, RankAssumption, BelowGrows
    <2> QED
      BY <2>2, <2>3, RowsStep, BelowFinite
  <1>4. CASE RemoveRow
    BY <1>4 DEF RemoveRow, Changes
  <1>5. CASE BeginTx \/ CommitTx \/ UndoTx
    <2>1. "undone" \notin happened'
      OBVIOUS
    <2>2. UNCHANGED <<table, got, done, start, happened>>
      BY <1>5, <2>1, TxStep
    <2>3. happened \subseteq {"added"}
      BY <2>2
    <2>4. /\ start \subseteq table /\ got \in Seq(Courses)
          /\ \A r \in start \ ToSet(got) : Len(got) < Cardinality(Below(table, r))
          /\ done => start \subseteq ToSet(got)
      BY <2>3 DEF Missing
    <2> QED
      BY <2>2, <2>4 DEF ToSet, Below
  <1>6. CASE UNCHANGED vars
    BY <1>6 DEF vars, Missing
  <1> QED
    BY <1>1, <1>2, <1>3, <1>4, <1>5, <1>6 DEF Next

\* A course that is there has a row up to it: its own.
LEMMA MissedInit == Init => MissedInv
  <1> SUFFICES ASSUME Init, NEW r \in start
               PROVE  0 < Cardinality(Below(table, r))
    <2>1. Init => RowsOK /\ start = table /\ got = <<>> /\ ~done
      BY DEF Init, RowsOK
    <2>2. Len(<<>>) = 0 /\ <<>> \in Seq(Courses)
      OBVIOUS
    <2> QED
      BY <2>1, <2>2 DEF MissedInv, Missing
  <1>1. table \in SUBSET Courses /\ r \in Below(table, r)
    BY RankAssumption DEF Init, Below
  <1>2. Cardinality(Below(table, r)) # 0
    BY <1>1, BelowFinite, FS_EmptySet
  <1> QED
    BY <1>1, <1>2, BelowFinite

\* A reader who goes on until an empty page has been shown every course that was
\* there when it began, however many were added meanwhile and whatever limits it
\* passed, unless something was undone, deleted, tied or garbled or a query failed:
\* view_all_courses_paged's LIMIT and OFFSET over a table that changes.
THEOREM EveryCourseShown == Spec => []NothingMissed
  <1>1. MissedInv /\ [Next]_vars => MissedInv'
    BY MissedStep
  <1>2. MissedInv => NothingMissed
    BY DEF MissedInv, Missing, NothingMissed
  <1> QED
    BY MissedInit, <1>1, <1>2, PTL DEF Spec

-----------------------------------------------------------------------------
(* NothingTwice. *)

\* While rows are only taken away for good, what was shown is in order, and no
\* more rows than were shown come up to the last of it: the next offset is past it.
Ordered ==
    happened \subseteq {"removed", "failed"} =>
        /\ got \in Seq(Courses)
        /\ \A i, j \in 1 .. Len(got) : i < j => Rank[got[i]] < Rank[got[j]]
        /\ got # <<>> => Cardinality(Below(table, got[Len(got)])) <= Len(got)

OrderedInv == RowsOK /\ Ordered

\* A page comes after all that was shown, and deletions move it closer at most.
LEMMA OrderedStep ==
    ASSUME OrderedInv, [Next]_vars
    PROVE  OrderedInv'
  <1> SUFFICES ASSUME (happened \subseteq {"removed", "failed"})'
               PROVE  /\ got' \in Seq(Courses)
                      /\ \A i, j \in 1 .. Len(got') :
                            i < j => Rank[got'[i]] < Rank[got'[j]]
                      /\ got' # <<>> =>
                            Cardinality(Below(table', got'[Len(got')])) <= Len(got')
    BY RowsStep DEF OrderedInv, Ordered, Below
  <1> USE DEF OrderedInv, RowsOK
  <1>1. CASE Begin
    BY <1>1 DEF Begin
  <1>2. CASE ReadPage
    <2>1. happened \subseteq happened' /\ ReadPage
      BY <1>2, PageSeen
    <2>2. /\ got \in Seq(Courses) /\ Len(got) \in Nat
          /\ \A i, j \in 1 .. Len(got) : i < j => Rank[got[i]] < Rank[got[j]]
          /\ got # <<>> => Cardinality(Below(table, got[Len(got)])) <= Len(got)
      BY <2>1 DEF Ordered
    <2>3. "tied" \notin happened' /\ "garbled" \notin happened'
      OBVIOUS
    <2>4. Untied /\ UNCHANGED <<table, start>>
      BY <2>1, <2>2, <2>3, PageRead
    <2>5. PICK s \in Orders, rows \in Seq(Courses) :
             Follows(rows, s) /\ got' = got \o rows
      BY <2>1, <2>2, <2>3, PageRead
    <2>6. /\ Len(s) \in Nat /\ s \in Seq(Courses)
          /\ \A i \in 1 .. Len(s) : s[i] \in table /\ Cardinality(Below(table, s[i])) = i
          /\ \A i, j \in 1 .. Len(s) : i < j => Rank[s[i]] < Rank[s[j]]
      BY <2>4, Places
    <2>7. /\ \A k \in 1 .. Len(got) : got'[k] = got[k]
          /\ \A k \in 1 .. Len(rows) :
                Len(got) + k \in 1 .. Len(s) /\ got'[Len(got) + k] = s[Len(got) + k]
          /\ Len(got') = Len(got) + Len(rows) /\ Len(rows) \in Nat
          /\ got' \in Seq(Courses)
      <3>1. \A k \in 1 .. Len(rows) :
               Len(got) + k \in 1 .. Len(s) /\ rows[k] = s[Len(got) + k]
        BY <2>5 DEF Follows
      <3>2. /\ got \o rows \in Seq(Courses)
            /\ Len(got \o rows) = Len(got) + Len(rows) /\ Len(rows) \in Nat
        BY <2>2
      <3>3. /\ \A k \in 1 .. Len(got) : (got \o rows)[k] = got[k]
            /\ \A k \in 1 .. Len(rows) : (got \o rows)[Len(got) + k] = rows[k]
        BY <2>2
      <3> QED
        BY <2>5, <3>1, <3>2, <3>3
    <2>8. \A k \in Len(got) + 1 .. Len(got') : k \in 1 .. Len(s) /\ got'[k] = s[k]
      <3> SUFFICES ASSUME NEW k \in Len(got) + 1 .. Len(got')
                   PROVE  k \in 1 .. Len(s) /\ got'[k] = s[k]
        OBVIOUS
      <3>1. k - Len(got) \in 1 .. Len(rows) /\ Len(got) + (k - Len(got)) = k
        BY <2>2, <2>7
      <3> QED
        BY <2>7, <3>1
    \* The rows of the page come later than all that was shown.
    <2>9. \A i \in 1 .. Len(got), j \in Len(got) + 1 .. Len(got') :
             Rank[got[i]] < Rank[s[j]]
      <3> SUFFICES ASSUME NEW i \in 1 .. Len(got), NEW j \in Len(got) + 1 .. Len(got')
                   PROVE  Rank[got[i]] < Rank[s[j]]
        OBVIOUS
      <3> DEFINE final == got[Len(got)]
      <3>1. final \in Courses /\ got[i] \in Courses /\ s[j] \in Courses /\ j \in Nat
        BY <2>2, <2>6, <2>7, <2>8
      <3>2. Rank[got[i]] <= Rank[final]
        <4>1. i = Len(got) \/ i < Len(got)
          BY <2>2
        <4>2. Len(got) \in 1 .. Len(got)
          BY <2>2
        <4> QED
          BY <2>2, <3>1, <4>1, <4>2, RankAssumption
      <3>3. Cardinality(Below(table, final)) <= Len(got)
        BY <2>2
      <3>4. Cardinality(Below(table, s[j])) = j /\ Len(got) < j
        BY <2>2, <2>6, <2>7, <2>8
      <3>5. ~(Rank[s[j]] <= Rank[final])
        <4> SUFFICES ASSUME Rank[s[j]] <= Rank[final] PROVE FALSE
          OBVIOUS
        <4>1. Cardinality(Below(table, s[j])) <= Cardinality(Below(table, final))
          BY <3>1, BelowGrows
        <4> QED
          BY <2>2, <3>1, <3>3, <3>4, <4>1, BelowFinite
      <3> QED
        BY <3>1, <3>2, <3>5, RankAssumption
    <2>10. \A i, j \in 1 .. Len(got') : i < j => Rank[got'[i]] < Rank[got'[j]]
      <3> SUFFICES ASSUME NEW i \in 1 .. Len(got'), NEW j \in 1 .. Len(got'), i < j
                   PROVE  Rank[got'[i]] < Rank[got'[j]]
        OBVIOUS
      <3>1. \/ i \in 1 .. Len(got) /\ j \in 1 .. Len(got)
            \/ i \in 1 .. Len(got) /\ j \in Len(got) + 1 .. Len(got')
            \/ i \in Len(got) + 1 .. Len(got') /\ j \in Len(got) + 1 .. Len(got')
        BY <2>2, <2>7
      <3> QED
        BY <2>2, <2>6, <2>7, <2>8, <2>9, <3>1
    <2>11. ASSUME got' # <<>>
           PROVE  Cardinality(Below(table', got'[Len(got')])) <= Len(got')
      <3>1. CASE rows = <<>>
        BY <2>2, <2>4, <2>5, <2>11, <3>1
      <3>2. CASE rows # <<>>
        <4>1. Len(got') \in Len(got) + 1 .. Len(got') /\ Len(got') \in Nat
          BY <2>2, <2>7, <3>2
        <4>2. got'[Len(got')] = s[Len(got')] /\ Len(got') \in 1 .. Len(s)
          BY <2>8, <4>1
        <4> QED
          BY <2>4, <2>6, <4>1, <4>2
      <3> QED
        BY <3>1, <3>2
    <2> QED
      BY <2>7, <2>10, <2>11
  <1>3. CASE AddRow
    BY <1>3 DEF AddRow, Changes
  <1>4. CASE RemoveRow
    <2> USE <1>4 DEF RemoveRow, Changes
    <2>1. /\ happened \subseteq {"removed", "failed"} /\ table' \subseteq table
          /\ UNCHANGED got /\ table' \in SUBSET Courses
      OBVIOUS
    <2>2. /\ got \in Seq(Courses) /\ Len(got) \in Nat
          /\ \A i, j \in 1 .. Len(got) : i < j => Rank[got[i]] < Rank[got[j]]
          /\ got # <<>> => Cardinality(Below(table, got[Len(got)])) <= Len(got)
      BY <2>1 DEF Ordered
    <2>3. ASSUME got # <<>>
          PROVE  Cardinality(Below(table', got[Len(got)])) <= Len(got)
      <3>1. got[Len(got)] \in Courses
        BY <2>2, <2>3
      <3>2. Cardinality(Below(table', got[Len(got)]))
              <= Cardinality(Below(table, got[Len(got)]))
        BY <2>1, <3>1, RankAssumption, BelowGrows
      <3> QED
        BY <2>1, <2>2, <2>3, <3>2, BelowFinite
    <2> QED
      BY <2>1, <2>2, <2>3
  <1>5. CASE BeginTx \/ CommitTx \/ UndoTx
    <2>1. "undone" \notin happened'
      OBVIOUS
    <2>2. UNCHANGED <<table, got, happened>>
      BY <1>5, <2>1, TxStep
    <2>3. happened \subseteq {"removed", "failed"}
      BY <2>2
    <2> QED
      BY <2>2, <2>3 DEF Ordered, Below
  <1>6. CASE UNCHANGED vars
    BY <1>6 DEF vars, Ordered
  <1> QED
    BY <1>1, <1>2, <1>3, <1>4, <1>5, <1>6 DEF Next

\* No course is shown twice, whatever is deleted meanwhile and whatever query
\* fails, unless a row came in, by an add or by a ROLLBACK: the offset is the
\* number of the courses shown, and rows only move up.
THEOREM NoCourseTwice == Spec => []NothingTwice
  <1>1. Init => OrderedInv
    BY DEF Init, OrderedInv, RowsOK, Ordered
  <1>2. OrderedInv /\ [Next]_vars => OrderedInv'
    BY OrderedStep
  <1>3. OrderedInv => NothingTwice
    <2> SUFFICES ASSUME OrderedInv, happened \subseteq {"removed", "failed"},
                        NEW i \in DOMAIN got, NEW j \in DOMAIN got, i # j
                 PROVE  got[i] # got[j]
      BY DEF NothingTwice, IsInjective
    <2>1. /\ got \in Seq(Courses)
          /\ \A a, b \in 1 .. Len(got) : a < b => Rank[got[a]] < Rank[got[b]]
      BY DEF OrderedInv, Ordered
    <2>2. i < j \/ j < i
      BY <2>1
    <2> QED
      BY <2>1, <2>2, RankAssumption
  <1> QED
    BY <1>1, <1>2, <1>3, PTL DEF Spec

-----------------------------------------------------------------------------
(* OthersArrive. *)

\* A page holds courses, whatever happens to the table and to the query, and the
\* reader has rows of text.
PageInv == RowsOK /\ page \in Seq(Courses) /\ got \in Seq(AnyRows)

\* Every step leaves courses on the page.
LEMMA PageStep == PageInv /\ [Next]_vars => PageInv'
  <1> SUFFICES ASSUME PageInv, [Next]_vars
               PROVE  page' \in Seq(Courses) /\ got' \in Seq(AnyRows)
    BY RowsStep DEF PageInv
  <1> USE DEF PageInv, RowsOK
  <1>1. CASE Begin
    BY <1>1, EmptySeq DEF Begin
  <1>2. CASE ReadPage
    <2>1. PICK s \in Orders, l \in Limits, o \in {Len(got), -1} :
             LET rows == Page(s, OffsetOf(o), LimitOf(l))
             IN  \/ Shows(rows, Doubts(rows))
                 \/ \E n \in 0 .. Len(rows) - 1 :
                       Shows(SubSeq(rows, 1, n), Doubts(rows) \cup {"failed"})
      BY <1>2 DEF ReadPage
    <2> DEFINE rows == Page(s, OffsetOf(o), LimitOf(l))
    <2>2. Len(got) \in Nat
      BY LenProperties
    <2>3. s \in Seq(Courses) /\ l \in Int /\ OffsetOf(o) \in Nat
      BY <2>2, OrderType, LimitsAssumption DEF OffsetOf
    <2>4. rows \in Seq(Courses)
      BY <2>3, PageRows
    <2>5. ASSUME NEW n \in 0 .. Len(rows) - 1
          PROVE  SubSeq(rows, 1, n) \in Seq(Courses)
      <3> HIDE DEF rows
      <3>1. \A i \in 1 .. n : rows[i] \in Courses
        BY <2>4
      <3> QED
        BY <3>1, SubSeqProperties
    <2>6. page' \in Seq(Courses) /\ got' = got \o Parse(Serialize(page'))
      BY <2>1, <2>4, <2>5 DEF Shows
    <2>7. Parse(Serialize(page')) \in Seq(AnyRows)
      BY <2>6, ParseType
    <2> DEFINE more == Parse(Serialize(page'))
    <2>8. got' = got \o more
      BY <2>6
    <2> HIDE DEF more
    <2> QED
      BY <2>6, <2>7, <2>8, ConcatProperties DEF more
  <1>3. CASE AddRow \/ RemoveRow \/ UNCHANGED vars
    BY <1>3 DEF AddRow, RemoveRow, Changes, vars
  <1>4. CASE BeginTx \/ CommitTx \/ UndoTx
    BY <1>4 DEF BeginTx, CommitTx, UndoTx
  <1> QED
    BY <1>1, <1>2, <1>3, <1>4 DEF Next

\* A field that holds a separator spoils its own course and no other of the page:
\* serialize_courses does not escape, and split and parse_courses of the client
\* read on at the next record.
THEOREM OthersUnspoilt == Spec => []OthersArrive
  <1>1. Init => PageInv
    BY EmptySeq DEF Init, PageInv, RowsOK
  <1>2. PageInv => OthersArrive
    BY AllArrive DEF PageInv, Arrive, OthersArrive
  <1> QED
    BY <1>1, <1>2, PageStep, PTL DEF Spec

=============================================================================
