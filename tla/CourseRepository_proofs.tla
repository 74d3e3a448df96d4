----------------------- MODULE CourseRepository_proofs -----------------------
(***************************************************************************)
(* Theorems about CourseRepository, for any set of threads, courses, slots *)
(* and requests.                                                           *)
(***************************************************************************)
EXTENDS CourseRepository, TLAPS

-----------------------------------------------------------------------------
(* The statements map tables to tables. *)

\* The database starts as tables without rows.
LEMMA EmptyTablesType == EmptyTables \in Tables
  BY DEF EmptyTables, Tables

\* The three statements of the repository leave tables behind.
LEMMA StatementType ==
    ASSUME NEW db \in Tables
    PROVE  /\ \A r \in Writes : PutCourse(db, r) \in Tables
           /\ \A r \in Writes : PutSchedule(db, r) \in Tables
           /\ \A c \in CourseKeys : DropCourse(db, c) \in Tables
<1>1. ASSUME NEW r \in Writes PROVE PutCourse(db, r) \in Tables
  BY <1>1 DEF PutCourse, Writes, Tables
<1>2. ASSUME NEW r \in Writes PROVE PutSchedule(db, r) \in Tables
  BY <1>2 DEF PutSchedule, Writes, Tables
<1>3. ASSUME NEW c \in CourseKeys PROVE DropCourse(db, c) \in Tables
  BY <1>3 DEF DropCourse, Tables
<1> QED
  BY <1>1, <1>2, <1>3

-----------------------------------------------------------------------------
(* Type correctness. *)

\* A thread inside a handler serves a request of that handler.
InHandler ==
    \A t \in Threads :
        /\ pc[t] # "idle" => req[t] \in Requests
        /\ pc[t] \in Inside \cup {"begin"} => req[t] \in Writes
        /\ pc[t] = "delete" => req[t] \in Deletes
        /\ pc[t] = "select" => req[t] \in Queries

TypeInv == TypeOK /\ InHandler

\* What a request asks for tells which handler it belongs to.
LEMMA RequestByOp ==
    ASSUME NEW r \in Requests
    PROVE  /\ r.op \in {"add", "update"} => r \in Writes
           /\ r.op = "delete" => r \in Deletes
           /\ r.op = "query" => r \in Queries
  BY RequestAssumption DEF Writes, Deletes, Queries

\* What a query returns are rows.
LEMMA MatchingType == \A db, c, s, q : Matching(db, c, s, q) \subseteq Rows
  BY DEF Matching, JoinRows

\* Whatever becomes of a statement that fails, the connection stays typed.
LEMMA FaultedType ==
    ASSUME TypeOK, NEW t \in Threads, NEW label \in Labels, Faulted(t, label)
    PROVE  /\ inTx' \in BOOLEAN /\ work' \in Tables /\ disk' \in Tables
           /\ pc' = [pc EXCEPT ![t] = label]
  BY DEF TypeOK, Faulted, StatementFault, TransactionFault, Goto, Discard,
         connection

\* The empty file is typed.
THEOREM TypeInit == Init => TypeInv
<1> SUFFICES ASSUME Init PROVE TypeInv
  OBVIOUS
<1> QED
  BY EmptyTablesType DEF Init, TypeInv, TypeOK, InHandler, Labels, Inside

\* Every statement of a request, and a crash, keeps the types.
THEOREM TypeStep == TypeInv /\ [Next]_vars => TypeInv'
<1> SUFFICES ASSUME TypeInv, [Next]_vars PROVE TypeInv'
  OBVIOUS
<1> USE DEF TypeInv, TypeOK, InHandler, Labels, Inside, Goto
<1>1. ASSUME NEW t \in Threads, Receive(t) PROVE TypeInv'
  <2>1. PICK r \in Requests : Receive(t)!2!(r)
    BY <1>1 DEF Receive
  <2> QED
    BY <1>1, <2>1, RequestByOp DEF Receive, connection, Queries
<1>2. ASSUME NEW t \in Threads, Begin(t) PROVE TypeInv'
  BY <1>2 DEF Begin, StatementFault, connection, cursors
<1>3. ASSUME NEW t \in Threads, WriteCourse(t) PROVE TypeInv'
  <2>1. PutCourse(work, req[t]) \in Tables
    BY <1>3, StatementType DEF WriteCourse
  <2> QED
    BY <1>3, <2>1, FaultedType DEF WriteCourse, Store, cursors
<1>4. ASSUME NEW t \in Threads, WriteSchedule(t) PROVE TypeInv'
  <2>1. PutSchedule(work, req[t]) \in Tables
    BY <1>4, StatementType DEF WriteSchedule
  <2> QED
    BY <1>4, <2>1, FaultedType DEF WriteSchedule, Store, connection, cursors
<1>5. ASSUME NEW t \in Threads, Commit(t) PROVE TypeInv'
  <2>1. CASE Faulted(t, "rollback")
    BY <1>5, <2>1, FaultedType DEF Commit, cursors
  <2>2. CASE inTx' = FALSE /\ disk' = work /\ Goto(t, "ok") /\ UNCHANGED work
    BY <1>5, <2>2 DEF Commit, cursors
  <2>3. CASE Goto(t, "rollback") /\ UNCHANGED connection
    BY <1>5, <2>3 DEF Commit, connection, cursors
  <2> QED
    BY <1>5, <2>1, <2>2, <2>3 DEF Commit
<1>6. ASSUME NEW t \in Threads, Rollback(t) PROVE TypeInv'
  BY <1>6 DEF Rollback, Discard, cursors
<1>7. ASSUME NEW t \in Threads, Delete(t) PROVE TypeInv'
  <2>1. DropCourse(work, req[t].key) \in Tables
    BY <1>7, StatementType DEF Delete, Deletes
  <2> QED
    BY <1>7, <2>1, FaultedType DEF Delete, Store, cursors
<1>8. ASSUME NEW t \in Threads, SelectStep(t) PROVE TypeInv'
  BY <1>8, MatchingType DEF SelectStep, connection
<1>9. ASSUME NEW t \in Threads, SelectEnd(t) PROVE TypeInv'
  BY <1>9, FaultedType DEF SelectEnd, connection, cursors
<1>10. ASSUME NEW t \in Threads, Reply(t) PROVE TypeInv'
  BY <1>10 DEF Reply, connection
<1>11. CASE Crash
  BY <1>11 DEF Crash, Discard
<1>12. CASE UNCHANGED vars
  BY <1>12 DEF vars
<1> QED
  BY <1>1, <1>2, <1>3, <1>4, <1>5, <1>6, <1>7, <1>8, <1>9, <1>10, <1>11, <1>12
     DEF Next, Serve

\* The types hold for ever, with the kind of request at each label.
LEMMA TypeInvariant == Spec => []TypeInv
<1>1. Init => TypeInv
  BY TypeInit
<1>2. TypeInv /\ [Next]_vars => TypeInv'
  BY TypeStep
<1> QED
  BY <1>1, <1>2, PTL DEF Spec

\* Every variable keeps its type.
THEOREM TypeCorrect == Spec => []TypeOK
<1>1. TypeInv => TypeOK
  BY DEF TypeInv
<1> QED
  BY <1>1, TypeInvariant, PTL

-----------------------------------------------------------------------------
(* Referential integrity. *)

\* The statements keep every schedule with its course: an upsert of a schedule
\* by its foreign key, an UPDATE because it creates no row, a DELETE by its
\* cascade.
LEMMA StatementSound ==
    ASSUME NEW db \in Tables, Sound(db)
    PROVE  /\ \A r \in Writes : Sound(PutCourse(db, r))
           /\ \A r \in Writes : ForeignKeyHolds(db, r) => Sound(PutSchedule(db, r))
           /\ \A c \in CourseKeys : Sound(DropCourse(db, c))
<1> USE DEF Sound, Tables
<1>1. ASSUME NEW r \in Writes PROVE Sound(PutCourse(db, r))
  BY <1>1, NoneAssumption DEF PutCourse, Writes
<1>2. ASSUME NEW r \in Writes, ForeignKeyHolds(db, r) PROVE Sound(PutSchedule(db, r))
  BY <1>2, NoneAssumption DEF PutSchedule, ForeignKeyHolds, Writes
<1>3. ASSUME NEW c \in CourseKeys PROVE Sound(DropCourse(db, c))
  BY <1>3 DEF DropCourse
<1> QED
  BY <1>1, <1>2, <1>3

\* A statement that fails changes the tables at most to the committed ones.
LEMMA FaultedTables ==
    ASSUME NEW t, NEW label, Faulted(t, label)
    PROVE  disk' = disk /\ (work' = work \/ work' = disk)
  BY DEF Faulted, StatementFault, TransactionFault, Discard, connection

\* No step leaves a schedule without its course, in the file or on the connection.
LEMMA SoundStep ==
    TypeInv /\ ReferentialIntegrity /\ [Next]_vars => ReferentialIntegrity'
<1> SUFFICES ASSUME TypeInv, ReferentialIntegrity, [Next]_vars
             PROVE  Sound(work)' /\ Sound(disk)'
  BY DEF ReferentialIntegrity
<1> Sound(work) /\ Sound(disk)
  BY DEF ReferentialIntegrity
<1>1. ASSUME work' \in {work, disk}, disk' \in {work, disk}
      PROVE  Sound(work)' /\ Sound(disk)'
  BY <1>1 DEF Sound
<1>2. ASSUME NEW db, Sound(db), Store(db) PROVE Sound(work)' /\ Sound(disk)'
  BY <1>2 DEF Store, Sound
<1>3. ASSUME NEW t \in Threads, WriteCourse(t) PROVE Sound(work)' /\ Sound(disk)'
  <2>1. CASE Store(PutCourse(work, req[t]))
    <3>1. Sound(PutCourse(work, req[t]))
      BY <1>3, StatementSound DEF WriteCourse, TypeInv, TypeOK, InHandler, Inside
    <3> QED
      BY <2>1, <3>1, <1>2
  <2> QED
    BY <1>3, <2>1, <1>1, FaultedTables DEF WriteCourse
<1>4. ASSUME NEW t \in Threads, WriteSchedule(t) PROVE Sound(work)' /\ Sound(disk)'
  <2>1. CASE ForeignKeyHolds(work, req[t]) /\ Store(PutSchedule(work, req[t]))
    <3>1. Sound(PutSchedule(work, req[t]))
      BY <1>4, <2>1, StatementSound DEF WriteSchedule, TypeInv, TypeOK, InHandler, Inside
    <3> QED
      BY <2>1, <3>1, <1>2
  <2> QED
    BY <1>4, <2>1, <1>1, FaultedTables DEF WriteSchedule, connection
<1>5. ASSUME NEW t \in Threads, Delete(t) PROVE Sound(work)' /\ Sound(disk)'
  <2>1. CASE Store(DropCourse(work, req[t].key))
    <3>1. Sound(DropCourse(work, req[t].key))
      BY <1>5, StatementSound DEF Delete, Deletes, TypeInv, TypeOK, InHandler
    <3> QED
      BY <2>1, <3>1, <1>2
  <2> QED
    BY <1>5, <2>1, <1>1, FaultedTables DEF Delete
<1>6. ASSUME NEW t \in Threads,
             Receive(t) \/ Begin(t) \/ Commit(t) \/ Rollback(t)
                \/ SelectStep(t) \/ SelectEnd(t) \/ Reply(t)
      PROVE  Sound(work)' /\ Sound(disk)'
  <2>1. work' \in {work, disk} /\ disk' \in {work, disk}
    BY <1>6, FaultedTables
       DEF Receive, Begin, StatementFault, Commit, Rollback, SelectStep,
           SelectEnd, Reply, Discard, connection
  <2> QED
    BY <2>1, <1>1
<1>7. CASE Crash
  BY <1>7, <1>1 DEF Crash, Discard
<1>8. CASE UNCHANGED vars
  BY <1>8, <1>1 DEF vars
<1> QED
  BY <1>3, <1>4, <1>5, <1>6, <1>7, <1>8 DEF Next, Serve

\* No schedule is ever without its course, on disk or in what a thread sees,
\* for any number of threads and whichever statements fail.
THEOREM Integrity == Spec => []ReferentialIntegrity
<1>1. Init => ReferentialIntegrity
  BY DEF Init, ReferentialIntegrity, Sound, EmptyTables
<1>2. TypeInv /\ ReferentialIntegrity /\ [Next]_vars => ReferentialIntegrity'
  BY SoundStep
<1> QED
  BY <1>1, <1>2, TypeInvariant, PTL DEF Spec

-----------------------------------------------------------------------------
(* Transactions. *)

\* No path out of insert_or_replace or update leaves the shared connection in
\* a transaction, not even when SQLite has rolled the thread's own back.
THEOREM NoLeak == Spec => []NoLeakedTransaction
<1>1. Init => NoLeakedTransaction
  BY DEF Init, NoLeakedTransaction
<1>2. TypeOK /\ NoLeakedTransaction /\ [Next]_vars => NoLeakedTransaction'
  <2> SUFFICES ASSUME TypeOK, NoLeakedTransaction, [Next]_vars
               PROVE  NoLeakedTransaction'
    OBVIOUS
  <2> USE DEF NoLeakedTransaction, TypeOK, Inside, Goto
  <2>1. ASSUME NEW t \in Threads, pc[t] \notin Inside, UNCHANGED inTx,
               \A u \in Threads \ {t} : pc'[u] = pc[u]
        PROVE  NoLeakedTransaction'
    BY <2>1
  <2>2. ASSUME NEW t \in Threads, Begin(t) PROVE NoLeakedTransaction'
    BY <2>2 DEF Begin, StatementFault, connection
  <2>3. ASSUME NEW t \in Threads, WriteCourse(t) \/ WriteSchedule(t)
        PROVE  NoLeakedTransaction'
    BY <2>3 DEF WriteCourse, WriteSchedule, Store, Faulted, StatementFault,
                TransactionFault, Discard, connection
  <2>4. ASSUME NEW t \in Threads, Commit(t) PROVE NoLeakedTransaction'
    BY <2>4 DEF Commit, Faulted, StatementFault, TransactionFault, Discard,
                connection
  <2>5. ASSUME NEW t \in Threads, Rollback(t) PROVE NoLeakedTransaction'
    BY <2>5 DEF Rollback, Discard
  <2>6. ASSUME NEW t \in Threads, Receive(t) \/ SelectStep(t) \/ Reply(t)
        PROVE  NoLeakedTransaction'
    BY <2>6, <2>1 DEF Receive, SelectStep, Reply, connection
  <2>7. ASSUME NEW t \in Threads, Delete(t) \/ SelectEnd(t)
        PROVE  NoLeakedTransaction'
    BY <2>7, <2>1 DEF Delete, SelectEnd, Store, Faulted, StatementFault,
                      TransactionFault, Discard, connection
  <2>8. CASE Crash
    BY <2>8 DEF Crash, Discard
  <2>9. CASE UNCHANGED vars
    BY <2>9 DEF vars
  <2> QED
    BY <2>2, <2>3, <2>4, <2>5, <2>6, <2>7, <2>8, <2>9 DEF Next, Serve
<1> QED
  BY <1>1, <1>2, TypeCorrect, PTL DEF Spec

-----------------------------------------------------------------------------
(* While SQLite does not roll transactions back by itself. *)

\* A second BEGIN fails, and only the thread inside commits or rolls back.
LEMMA OneTransactionStep ==
    ASSUME "transaction" \notin Faults
    PROVE  TypeOK /\ OneTransaction /\ [Next]_vars => OneTransaction'
<1> SUFFICES ASSUME TypeOK, OneTransaction, [Next]_vars PROVE OneTransaction'
  OBVIOUS
<1> USE DEF OneTransaction, TypeOK, Inside, Goto
<1>1. ASSUME NEW t \in Threads, pc[t] \notin Inside, pc'[t] \notin Inside,
             UNCHANGED inTx, \A u \in Threads \ {t} : pc'[u] = pc[u]
      PROVE  OneTransaction'
  BY <1>1
<1>2. ASSUME NEW t \in Threads, pc[t] \in Inside, pc'[t] \in Inside,
             UNCHANGED inTx, \A u \in Threads \ {t} : pc'[u] = pc[u]
      PROVE  OneTransaction'
  BY <1>2
<1>3. ASSUME NEW t \in Threads, pc[t] \in Inside, pc'[t] \notin Inside,
             inTx' = FALSE, \A u \in Threads \ {t} : pc'[u] = pc[u]
      PROVE  OneTransaction'
  BY <1>3
<1>4. ASSUME NEW t, NEW label, Faulted(t, label) PROVE UNCHANGED inTx
  BY <1>4 DEF Faulted, StatementFault, TransactionFault, connection
<1>5. ASSUME NEW t \in Threads, Begin(t) PROVE OneTransaction'
  <2>1. CASE ~inTx /\ inTx' = TRUE /\ Goto(t, "course")
    BY <1>5, <2>1 DEF Begin
  <2>2. CASE Goto(t, "error") /\ UNCHANGED connection
    BY <1>5, <2>2, <1>1 DEF Begin, connection
  <2> QED
    BY <1>5, <2>1, <2>2 DEF Begin, StatementFault
<1>6. ASSUME NEW t \in Threads, WriteCourse(t) PROVE OneTransaction'
  BY <1>6, <1>2, <1>4 DEF WriteCourse, Store, Faulted, StatementFault,
                          TransactionFault
<1>7. ASSUME NEW t \in Threads, WriteSchedule(t) PROVE OneTransaction'
  BY <1>7, <1>2, <1>4 DEF WriteSchedule, Store, Faulted, StatementFault,
                          TransactionFault, connection
<1>8. ASSUME NEW t \in Threads, Commit(t) PROVE OneTransaction'
  <2>1. CASE inTx' = FALSE /\ Goto(t, "ok")
    BY <1>8, <2>1, <1>3 DEF Commit
  <2>2. CASE Goto(t, "rollback") /\ UNCHANGED inTx
    BY <1>8, <2>2, <1>2 DEF Commit
  <2> QED
    BY <1>8, <2>1, <2>2, <1>4
       DEF Commit, Faulted, StatementFault, TransactionFault, connection
<1>9. ASSUME NEW t \in Threads, Rollback(t) PROVE OneTransaction'
  BY <1>9, <1>3 DEF Rollback, Discard
<1>10. ASSUME NEW t \in Threads, Receive(t) \/ SelectStep(t) \/ Reply(t)
       PROVE  OneTransaction'
  BY <1>10, <1>1 DEF Receive, SelectStep, Reply, connection
<1>11. ASSUME NEW t \in Threads, Delete(t) \/ SelectEnd(t)
       PROVE  OneTransaction'
  BY <1>11, <1>1, <1>4 DEF Delete, SelectEnd, Store, Faulted, StatementFault,
                           TransactionFault, connection
<1>12. CASE Crash
  BY <1>12 DEF Crash, Discard
<1>13. CASE UNCHANGED vars
  BY <1>13 DEF vars
<1> QED
  BY <1>5, <1>6, <1>7, <1>8, <1>9, <1>10, <1>11, <1>12, <1>13 DEF Next, Serve

\* BEGIN on the shared connection is a lock: the thread whose BEGIN succeeds is
\* alone between BEGIN and COMMIT or ROLLBACK, and ends its own transaction.
THEOREM Exclusive ==
    ASSUME "transaction" \notin Faults
    PROVE  Spec => []OneTransaction
<1>1. Init => OneTransaction
  BY DEF Init, OneTransaction, Inside
<1>2. TypeOK /\ OneTransaction /\ [Next]_vars => OneTransaction'
  BY OneTransactionStep
<1> QED
  BY <1>1, <1>2, TypeCorrect, PTL DEF Spec

-----------------------------------------------------------------------------
(* The thread on its way to a COMMIT finds its own transaction open.        *)
(* SQLite may roll a transaction back by itself only if there is one thread: *)
(* with two, the statement of one may take the transaction of the other.    *)

Alone == \A t, u \in Threads : t = u

Undisturbed == "transaction" \notin Faults \/ Alone

Writing == {"course", "schedule", "commit"}

Owned ==
    \A t \in Threads :
        pc[t] \in Writing => inTx /\ \A u \in Threads : pc[u] \in Inside => u = t

\* A single thread is the one inside, even if SQLite drops its transactions.
LEMMA OwnedStep ==
    ASSUME Alone
    PROVE  TypeOK /\ Owned /\ [Next]_vars => Owned'
<1> SUFFICES ASSUME TypeOK, Owned, [Next]_vars PROVE Owned'
  OBVIOUS
<1> USE DEF Owned, Writing, TypeOK, Goto
<1>1. ASSUME NEW t \in Threads, pc'[t] \in Writing => inTx' PROVE Owned'
  BY <1>1 DEF Alone
<1>2. ASSUME NEW t \in Threads, NEW label, Faulted(t, label)
      PROVE  pc'[t] = label
  BY <1>2 DEF Faulted, StatementFault, TransactionFault
<1>3. ASSUME NEW t \in Threads, Receive(t) \/ Serve(t) PROVE Owned'
  <2>1. ASSUME Begin(t) PROVE Owned'
    BY <1>3, <2>1, <1>1 DEF Begin, StatementFault
  <2>2. ASSUME WriteCourse(t) PROVE Owned'
    BY <1>3, <2>2, <1>1, <1>2 DEF WriteCourse, Store
  <2>3. ASSUME WriteSchedule(t) PROVE Owned'
    BY <1>3, <2>3, <1>1, <1>2 DEF WriteSchedule, Store
  <2>4. ASSUME Receive(t) \/ Commit(t) \/ Rollback(t) \/ Delete(t)
                  \/ SelectEnd(t) \/ Reply(t)
        PROVE  Owned'
    BY <1>3, <2>4, <1>1, <1>2 DEF Receive, Commit, Rollback, Delete, SelectEnd,
                                  Reply
  <2>5. ASSUME SelectStep(t) PROVE Owned'
    BY <2>5 DEF SelectStep, connection
  <2> QED
    BY <1>3, <2>1, <2>2, <2>3, <2>4, <2>5 DEF Serve
<1>4. CASE Crash
  BY <1>4 DEF Crash
<1>5. CASE UNCHANGED vars
  BY <1>5 DEF vars
<1> QED
  BY <1>3, <1>4, <1>5 DEF Next

\* A transaction has its thread, and what is said of it while it lasts holds.
LEMMA OwnedInvariant ==
    ASSUME Undisturbed
    PROVE  Spec => []Owned
<1>1. CASE "transaction" \notin Faults
  <2>1. OneTransaction => Owned
    BY DEF OneTransaction, Owned, Writing, Inside
  <2> QED
    BY <1>1, <2>1, Exclusive, PTL
<1>2. CASE Alone
  <2>1. Init => Owned
    BY DEF Init, Owned, Writing
  <2>2. TypeOK /\ Owned /\ [Next]_vars => Owned'
    BY <1>2, OwnedStep
  <2> QED
    BY <2>1, <2>2, TypeCorrect, PTL DEF Spec
<1> QED
  BY <1>1, <1>2 DEF Undisturbed

\* A statement that fails takes back at most what its own thread has written.
LEMMA FaultedOwn ==
    ASSUME Undisturbed, TypeOK, NEW t \in Threads, NEW label, Faulted(t, label)
    PROVE  /\ pc' = [pc EXCEPT ![t] = label]
           /\ disk' = disk
           /\ UNCHANGED work \/ (work' = disk /\ \A u \in Threads : u = t)
  BY DEF Undisturbed, Alone, Faulted, StatementFault, TransactionFault, Goto,
         Discard, connection

-----------------------------------------------------------------------------
(* Atomicity of what is committed. *)

\* Outside a transaction the connection sees what is on disk.
Settled == ~inTx => work = disk

\* Outside a transaction all that was executed is committed.
LEMMA SettledInvariant == Spec => []Settled
<1>1. Init => Settled
  BY DEF Init, Settled
<1>2. Settled /\ [Next]_vars => Settled'
  <2> SUFFICES ASSUME Settled, [Next]_vars PROVE Settled'
    OBVIOUS
  <2> USE DEF Settled, Discard, connection
  <2>1. ASSUME NEW t, NEW label, Faulted(t, label) PROVE Settled'
    BY <2>1 DEF Faulted, StatementFault, TransactionFault
  <2>2. ASSUME NEW db, Store(db) PROVE Settled'
    BY <2>2 DEF Store
  <2>3. ASSUME NEW t \in Threads, Receive(t) \/ Serve(t) PROVE Settled'
    <3>1. ASSUME Begin(t) PROVE Settled'
      BY <3>1 DEF Begin, StatementFault
    <3>2. ASSUME WriteCourse(t) PROVE Settled'
      BY <3>2, <2>1, <2>2 DEF WriteCourse
    <3>3. ASSUME WriteSchedule(t) PROVE Settled'
      BY <3>3, <2>1, <2>2 DEF WriteSchedule
    <3>4. ASSUME Commit(t) PROVE Settled'
      BY <3>4, <2>1 DEF Commit
    <3>5. ASSUME Delete(t) PROVE Settled'
      BY <3>5, <2>1, <2>2 DEF Delete
    <3>6. ASSUME SelectEnd(t) PROVE Settled'
      BY <3>6, <2>1 DEF SelectEnd
    <3>7. ASSUME Receive(t) \/ Rollback(t) \/ SelectStep(t) \/ Reply(t)
          PROVE  Settled'
      BY <3>7 DEF Receive, Rollback, SelectStep, Reply
    <3> QED
      BY <2>3, <3>1, <3>2, <3>3, <3>4, <3>5, <3>6, <3>7 DEF Serve
  <2>4. CASE Crash
    BY <2>4 DEF Crash
  <2>5. CASE UNCHANGED vars
    BY <2>5 DEF vars
  <2> QED
    BY <2>3, <2>4, <2>5 DEF Next
<1> QED
  BY <1>1, <1>2, PTL DEF Spec

HasSchedule(db, c) ==
    db.courses[c] # None => \E s \in Slots : db.schedules[c][s] # None

\* The only course that can lack a schedule is the one a thread is adding, in
\* its transaction, between its two statements or on its way to ROLLBACK.
HalfAdded ==
    /\ NoUnscheduledCourse
    /\ \A c \in CourseKeys :
          \/ HasSchedule(work, c)
          \/ \E t \in Threads : /\ pc[t] \in {"schedule", "rollback"}
                                /\ req[t].op = "add"
                                /\ req[t].key = c

\* Only the course that the thread inside has just written lacks its schedule.
LEMMA HalfAddedStep ==
    ASSUME Undisturbed
    PROVE  TypeInv /\ Owned /\ Settled /\ HalfAdded /\ [Next]_vars
              => HalfAdded'
<1> SUFFICES ASSUME TypeInv, Owned, Settled, HalfAdded, [Next]_vars
             PROVE  HalfAdded'
  OBVIOUS
<1> DEFINE Adding(t, c) == /\ pc[t] \in {"schedule", "rollback"}
                           /\ req[t].op = "add"
                           /\ req[t].key = c
<1>1. \A c \in CourseKeys : HasSchedule(disk, c)
  BY DEF HalfAdded, NoUnscheduledCourse, HasSchedule
<1>2. ASSUME \A c \in CourseKeys : HasSchedule(disk', c),
             \A c \in CourseKeys :
                HasSchedule(work', c) \/ \E t \in Threads : Adding(t, c)'
      PROVE  HalfAdded'
  BY <1>2 DEF HalfAdded, NoUnscheduledCourse, HasSchedule
<1>3. ASSUME UNCHANGED <<work, disk>>, NEW t \in Threads,
             pc[t] \in {"schedule", "rollback"} =>
                /\ pc'[t] \in {"schedule", "rollback"}
                /\ req'[t] = req[t],
             \A u \in Threads \ {t} : pc'[u] = pc[u] /\ req'[u] = req[u]
      PROVE  HalfAdded'
  BY <1>3, <1>1, <1>2 DEF HalfAdded, HasSchedule
<1>4. ASSUME work' = disk, disk' = disk PROVE HalfAdded'
  BY <1>4, <1>1, <1>2
<1> USE DEF TypeInv, TypeOK, InHandler, Inside, Goto
<1>5. ASSUME NEW t \in Threads, NEW label, Faulted(t, label), UNCHANGED req,
             pc[t] \in {"schedule", "rollback"} => label = "rollback"
      PROVE  HalfAdded'
  BY <1>5, <1>3, <1>4, FaultedOwn
<1>6. ASSUME NEW t \in Threads, Receive(t) \/ Begin(t) \/ SelectStep(t)
                                  \/ SelectEnd(t) \/ Reply(t)
      PROVE  HalfAdded'
  BY <1>6, <1>3, <1>5 DEF Receive, Begin, StatementFault, SelectStep, SelectEnd,
                          Reply, connection, cursors
<1>7. ASSUME NEW t \in Threads, WriteCourse(t) PROVE HalfAdded'
  <2>1. CASE Store(PutCourse(work, req[t])) /\ Goto(t, "schedule")
    <3>1. inTx /\ \A c \in CourseKeys : HasSchedule(work, c)
      BY <1>7 DEF WriteCourse, Owned, Writing, HalfAdded
    <3>2. disk' = disk /\ work' = PutCourse(work, req[t])
      BY <2>1, <3>1 DEF Store
    <3>3. ASSUME NEW c \in CourseKeys, ~HasSchedule(work', c) PROVE Adding(t, c)'
      BY <1>7, <2>1, <3>1, <3>2, <3>3, NoneAssumption
         DEF WriteCourse, PutCourse, HasSchedule, Tables, Writes, cursors
    <3> QED
      BY <1>1, <1>2, <3>2, <3>3
  <2> QED
    BY <1>7, <2>1, <1>5 DEF WriteCourse, cursors
<1>8. ASSUME NEW t \in Threads, WriteSchedule(t) PROVE HalfAdded'
  <2>1. CASE Store(PutSchedule(work, req[t])) /\ Goto(t, "commit")
    <3>1. disk' = disk /\ work' = PutSchedule(work, req[t])
      BY <1>8, <2>1 DEF WriteSchedule, Owned, Writing, Store
    <3>2. ASSUME NEW c \in CourseKeys PROVE HasSchedule(work', c)
      <4>1. HasSchedule(work, c) \/ (req[t].op = "add" /\ req[t].key = c)
        BY <1>8 DEF WriteSchedule, Owned, Writing, HalfAdded
      <4>2. req[t] \in Writes
        BY <1>8 DEF WriteSchedule
      <4>3. CASE c = req[t].key /\ (req[t].op = "add" \/ work.schedules[c][req[t].slot] # None)
        <5>1. work'.schedules[c][req[t].slot] = req[t].room /\ req[t].room # None
          BY <3>1, <4>2, <4>3, NoneAssumption DEF PutSchedule, Tables, Writes
        <5> QED
          BY <4>2, <5>1 DEF HasSchedule, Writes
      <4>4. CASE c # req[t].key \/ (req[t].op # "add" /\ work.schedules[c][req[t].slot] = None)
        <5>1. work'.courses[c] = work.courses[c] /\ work'.schedules[c] = work.schedules[c]
          BY <3>1, <4>2, <4>4 DEF PutSchedule, Tables, Writes
        <5> QED
          BY <4>1, <4>4, <5>1 DEF HasSchedule
      <4> QED
        BY <4>3, <4>4
    <3> QED
      BY <1>1, <1>2, <3>1, <3>2
  <2> QED
    BY <1>8, <2>1, <1>3, <1>5 DEF WriteSchedule, connection, cursors
<1>9. ASSUME NEW t \in Threads, Commit(t) PROVE HalfAdded'
  <2>1. \A c \in CourseKeys : HasSchedule(work, c)
    BY <1>9 DEF Commit, Owned, Writing, HalfAdded
  <2>2. work' \in {work, disk} /\ disk' \in {work, disk}
    BY <1>9, FaultedOwn DEF Commit, connection
  <2> QED
    BY <1>1, <1>2, <2>1, <2>2
<1>10. ASSUME NEW t \in Threads, Rollback(t) PROVE HalfAdded'
  BY <1>10, <1>4 DEF Rollback, Discard
<1>11. ASSUME NEW t \in Threads, Delete(t) PROVE HalfAdded'
  <2>1. CASE Store(DropCourse(work, req[t].key))
    <3>1. \A u \in Threads, c \in CourseKeys : Adding(u, c) => Adding(u, c)'
      BY <1>11, FaultedOwn DEF Delete, cursors
    <3>2. work' = DropCourse(work, req[t].key) /\ disk' \in {disk, work'}
      BY <2>1 DEF Store
    <3>3. ASSUME NEW c \in CourseKeys, HasSchedule(work, c)
          PROVE  HasSchedule(work', c)
      BY <1>11, <3>2, <3>3 DEF Delete, Deletes, DropCourse, HasSchedule, Tables
    <3>4. ~inTx => disk' = work' /\ work = disk
      BY <2>1 DEF Store, Settled
    <3>5. inTx => disk' = disk
      BY <2>1 DEF Store
    <3> QED
      BY <1>1, <1>2, <3>1, <3>3, <3>4, <3>5 DEF HalfAdded
  <2> QED
    BY <1>11, <2>1, <1>5 DEF Delete, cursors
<1>12. CASE Crash
  BY <1>12, <1>4 DEF Crash, Discard
<1>13. CASE UNCHANGED vars
  BY <1>13, <1>1, <1>2 DEF vars, HalfAdded, HasSchedule
<1> QED
  BY <1>6, <1>7, <1>8, <1>9, <1>10, <1>11, <1>12, <1>13 DEF Next, Serve

\* A course is never committed without a schedule, whatever other threads
\* delete while it is being added; for one thread also when SQLite rolls its
\* transaction back by itself.
THEOREM NoHalfAdd ==
    ASSUME Undisturbed
    PROVE  Spec => []NoUnscheduledCourse
<1>1. Init => HalfAdded
  BY DEF Init, HalfAdded, HasSchedule, NoUnscheduledCourse, EmptyTables
<1>2. TypeInv /\ Owned /\ Settled /\ HalfAdded /\ [Next]_vars => HalfAdded'
  BY HalfAddedStep
<1>3. HalfAdded => NoUnscheduledCourse
  BY DEF HalfAdded
<1> QED
  BY <1>1, <1>2, <1>3, TypeInvariant, OwnedInvariant, SettledInvariant, PTL
     DEF Spec

-----------------------------------------------------------------------------
(* Refinement of CourseStore: by any number of threads when nobody deletes, *)
(* by one thread with every request and every fault.                        *)

\* What the thread inside the transaction has written of its request so far.
Progress ==
    \A t \in Threads :
        /\ pc[t] = "course"   => work = disk
        /\ pc[t] = "schedule" => work = PutCourse(disk, req[t])
        /\ pc[t] = "commit"   => work = PutSchedule(PutCourse(disk, req[t]), req[t])

OnlyPuts == Requests \cap Deletes = {}

\* No DELETE runs in the transaction of another thread.
Unmixed == \/ Alone
           \/ "transaction" \notin Faults /\ OnlyPuts

\* Where no DELETE runs in the transaction of another thread, none is dropped there either.
LEMMA UnmixedUndisturbed == Unmixed => Undisturbed
  BY DEF Unmixed, Undisturbed

\* What is not yet committed is what the thread inside has executed of its request.
LEMMA ProgressStep ==
    ASSUME Unmixed
    PROVE  TypeInv /\ Owned /\ Settled /\ Progress /\ [Next]_vars => Progress'
<1> SUFFICES ASSUME TypeInv, Owned, Settled, Progress, [Next]_vars
             PROVE  Progress'
  OBVIOUS
<1>0. Undisturbed
  BY UnmixedUndisturbed
<1> USE DEF Writing
<1>1. ASSUME UNCHANGED <<work, disk>>, NEW t \in Threads, pc'[t] \notin Writing,
             \A u \in Threads \ {t} : pc'[u] = pc[u] /\ req'[u] = req[u]
      PROVE  Progress'
  BY <1>1 DEF Progress
<1>2. ASSUME NEW t \in Threads, pc[t] \in Inside,
             \A u \in Threads \ {t} : pc'[u] = pc[u]
      PROVE  \A u \in Threads \ {t} : pc'[u] \notin Writing
  BY <1>2 DEF Owned, Inside
<1> USE DEF TypeInv, TypeOK, InHandler, Inside, Goto
<1>3. ASSUME NEW t \in Threads, NEW label, label \notin Writing,
             Faulted(t, label), UNCHANGED req
      PROVE  Progress'
  <2>1. CASE UNCHANGED work
    BY <1>0, <1>3, <2>1, <1>1, FaultedOwn
  <2>2. CASE \A u \in Threads : u = t
    BY <1>0, <1>3, <2>2, FaultedOwn DEF Progress
  <2> QED
    BY <1>0, <1>3, <2>1, <2>2, FaultedOwn
<1>4. ASSUME NEW t \in Threads, Receive(t) \/ SelectEnd(t) \/ Reply(t)
      PROVE  Progress'
  BY <1>4, <1>1, <1>3 DEF Receive, SelectEnd, Reply, connection, cursors
<1>5. ASSUME NEW t \in Threads, Begin(t) PROVE Progress'
  <2>1. CASE ~inTx /\ inTx' = TRUE /\ Goto(t, "course") /\ UNCHANGED <<work, disk>>
    BY <1>5, <2>1 DEF Begin, Owned, Progress, Settled
  <2>2. CASE Goto(t, "error") /\ UNCHANGED connection
    BY <1>5, <2>2, <1>1 DEF Begin, connection, cursors
  <2> QED
    BY <1>5, <2>1, <2>2 DEF Begin, StatementFault
<1>6. ASSUME NEW t \in Threads, WriteCourse(t) PROVE Progress'
  <2>1. CASE Store(PutCourse(work, req[t])) /\ Goto(t, "schedule")
    BY <1>6, <2>1, <1>2 DEF WriteCourse, Owned, Store, Progress, cursors
  <2> QED
    BY <1>6, <2>1, <1>3 DEF WriteCourse, cursors
<1>7. ASSUME NEW t \in Threads, WriteSchedule(t) PROVE Progress'
  <2>1. CASE Store(PutSchedule(work, req[t])) /\ Goto(t, "commit")
    BY <1>7, <2>1, <1>2 DEF WriteSchedule, Owned, Store, Progress, cursors
  <2> QED
    BY <1>7, <2>1, <1>1, <1>3 DEF WriteSchedule, connection, cursors
<1>8. ASSUME NEW t \in Threads, Commit(t) \/ Rollback(t) PROVE Progress'
  <2>1. pc'[t] \notin Writing /\ \A u \in Threads \ {t} : pc'[u] = pc[u]
    BY <1>0, <1>8, FaultedOwn DEF Commit, Rollback
  <2> QED
    BY <1>8, <2>1, <1>2 DEF Commit, Rollback, Progress
<1>9. ASSUME NEW t \in Threads, SelectStep(t) PROVE Progress'
  BY <1>9 DEF SelectStep, connection, Progress
<1>10. ASSUME NEW t \in Threads, Delete(t) PROVE Progress'
  <2>1. \A u \in Threads : u = t
    BY <1>10 DEF Delete, Unmixed, Alone, OnlyPuts
  <2>2. pc'[t] \notin Writing
    BY <1>0, <1>10, FaultedOwn DEF Delete
  <2> QED
    BY <2>1, <2>2 DEF Progress
<1>11. CASE Crash
  BY <1>11 DEF Crash, Progress
<1>12. CASE UNCHANGED vars
  BY <1>12 DEF vars, Progress
<1> QED
  BY <1>4, <1>5, <1>6, <1>7, <1>8, <1>9, <1>10, <1>11, <1>12 DEF Next, Serve

\* So it is for ever.
LEMMA ProgressInvariant ==
    ASSUME Unmixed
    PROVE  Spec => []Progress
<1>1. Init => Progress
  BY DEF Init, Progress
<1>2. TypeInv /\ Owned /\ Settled /\ Progress /\ [Next]_vars => Progress'
  BY ProgressStep
<1> QED
  BY <1>1, <1>2, UnmixedUndisturbed, TypeInvariant, OwnedInvariant,
     SettledInvariant, PTL DEF Spec

\* The two statements together have the effect that the store promises.
LEMMA PutsTogether ==
    ASSUME NEW r \in Writes, disk \in Tables, Sound(disk)
    PROVE  PutSchedule(PutCourse(disk, r), r) = Promise!Effect(r)
<1> USE DEF Tables, Writes
<1>1. CASE r.op = "add"
  BY <1>1 DEF PutSchedule, PutCourse, Promise!Effect
<1>2. CASE r.op = "update"
  <2>1. CASE disk.schedules[r.key][r.slot] # None
    BY <1>2, <2>1 DEF PutSchedule, PutCourse, Promise!Effect, Promise!Scheduled,
                      Sound
  <2>2. CASE disk.schedules[r.key][r.slot] = None
    BY <1>2, <2>2 DEF PutSchedule, PutCourse, Promise!Effect, Promise!Scheduled,
                      Promise!Exists
  <2> QED
    BY <2>1, <2>2
<1> QED
  BY <1>1, <1>2

Stages == [t \in Threads |-> Stage(t)]

\* How a step of one thread looks in the store.
LEMMA StageStep ==
    ASSUME TypeOK, NEW t \in Threads, NEW label \in Labels, Goto(t, label)
    PROVE  Stages' = [Stages EXCEPT ![t] =
               IF label \in {"idle", "ok", "error"} THEN label ELSE "asked"]
  BY DEF TypeOK, Goto, Stages, Stage

\* Each step of the repository is a step of the store, or none.
LEMMA RefinementStep ==
    ASSUME Unmixed
    PROVE  /\ TypeInv /\ Owned /\ NoLeakedTransaction /\ Settled
           /\ Progress /\ Sound(disk)
           /\ [Next]_vars
           => [Promise!Next]_(Promise!vars)
<1> SUFFICES ASSUME TypeInv, Owned, NoLeakedTransaction, Settled, Progress,
                    Sound(disk), [Next]_vars
             PROVE  Promise!Next \/ UNCHANGED Promise!vars
  OBVIOUS
<1> DEFINE Next1(t) == \/ Promise!Ask(t) \/ Promise!CarryOut(t)
                       \/ Promise!Refuse(t) \/ Promise!Answer(t)
           Skip == UNCHANGED <<disk, req, Stages>>
<1>1. ASSUME NEW t \in Threads, Next1(t) PROVE Promise!Next
  BY <1>1 DEF Promise!Next
<1>2. ASSUME Skip PROVE UNCHANGED Promise!vars
  BY <1>2 DEF Stages, Promise!vars
<1>3. TypeOK
  BY DEF TypeInv
<1>4. ASSUME NEW t, NEW label, Faulted(t, label)
      PROVE  UNCHANGED disk /\ Goto(t, label)
  BY <1>4, FaultedTables DEF Faulted, StatementFault, TransactionFault, Goto
<1>5. \A t \in Threads : Stages[t] = Stage(t)
  BY DEF Stages
<1>6. ASSUME NEW t \in Threads, NEW label \in Labels \ {"idle", "ok", "error"},
             Stage(t) = "asked", Goto(t, label)
      PROVE  UNCHANGED Stages
  <2>1. Stages' = [Stages EXCEPT ![t] = Stages[t]]
    BY <1>3, <1>5, <1>6, StageStep
  <2> QED
    BY <2>1 DEF Stages
<1> USE DEF Labels, Inside
<1>7. ASSUME NEW t \in Threads, NEW label \in {"ok", "error"},
             Stage(t) = "asked", Goto(t, label), UNCHANGED req,
             label = "ok" => disk' = Promise!Effect(req[t]),
             label = "error" => disk' = disk
      PROVE  Promise!Next
  <2>1. Stages' = [Stages EXCEPT ![t] = label]
    BY <1>3, <1>7, StageStep
  <2>2. CASE label = "ok"
    BY <1>1, <1>5, <1>7, <2>1, <2>2 DEF Promise!CarryOut, Stages
  <2>3. CASE label = "error"
    BY <1>1, <1>5, <1>7, <2>1, <2>3 DEF Promise!Refuse, Stages
  <2> QED
    BY <2>2, <2>3
<1>8. ASSUME NEW t \in Threads, Receive(t) PROVE Promise!Next
  <2>1. PICK r \in Requests : req' = [req EXCEPT ![t] = r]
    BY <1>8 DEF Receive
  <2>2. PICK label \in {"begin", "delete", "select"} : Goto(t, label)
    BY <1>8 DEF Receive
  <2>3. Stages' = [Stages EXCEPT ![t] = "asked"]
    BY <1>3, <2>2, StageStep
  <2> QED
    BY <1>1, <1>5, <1>8, <2>1, <2>3
       DEF Receive, Stage, Stages, connection, Promise!Ask
<1>9. ASSUME NEW t \in Threads, Begin(t) PROVE Promise!Next \/ Skip
  BY <1>9, <1>6, <1>7 DEF Begin, StatementFault, Stage, connection
<1>10. ASSUME NEW t \in Threads, WriteCourse(t) \/ WriteSchedule(t) PROVE Skip
  <2>1. disk' = disk
    BY <1>10, <1>4 DEF WriteCourse, WriteSchedule, Store, Owned, Writing,
                       connection
  <2> QED
    BY <1>10, <2>1, <1>4, <1>6 DEF WriteCourse, WriteSchedule, Stage
<1>11. ASSUME NEW t \in Threads, Commit(t) PROVE Promise!Next \/ Skip
  <2>1. CASE disk' = work /\ Goto(t, "ok")
    <3>1. work = Promise!Effect(req[t])
      BY <1>11, PutsTogether DEF Commit, Progress, TypeInv, TypeOK, InHandler
    <3> QED
      BY <1>11, <2>1, <3>1, <1>7 DEF Commit, Stage
  <2>2. CASE disk' = disk /\ Goto(t, "rollback")
    BY <1>11, <2>2, <1>6 DEF Commit, Stage
  <2> QED
    BY <1>11, <2>1, <2>2, <1>4 DEF Commit, connection
<1>12. ASSUME NEW t \in Threads, Rollback(t) PROVE Promise!Next
  BY <1>12, <1>7 DEF Rollback, Discard, Stage
<1>13. ASSUME NEW t \in Threads, Delete(t) PROVE Promise!Next
  <2>1. req[t] \in Deletes /\ pc[t] = "delete"
    BY <1>13 DEF Delete, TypeInv, InHandler
  <2>2. Alone
    BY <1>13, <2>1 DEF Delete, Unmixed, OnlyPuts, TypeInv, InHandler
  <2>3. ~inTx /\ work = disk
    BY <2>1, <2>2 DEF NoLeakedTransaction, Alone, Settled
  <2>4. DropCourse(work, req[t].key) = Promise!Effect(req[t])
    BY <2>1, <2>3 DEF DropCourse, Deletes, Promise!Effect, Promise!Absent
  <2> QED
    BY <1>4, <1>7, <1>13, <2>1, <2>3, <2>4 DEF Delete, Store, Stage, cursors
<1>14. ASSUME NEW t \in Threads, SelectStep(t) PROVE Skip
  BY <1>14 DEF SelectStep, connection, Stages, Stage
<1>15. ASSUME NEW t \in Threads, SelectEnd(t) PROVE Promise!Next
  <2>1. disk = Promise!Effect(req[t])
    BY <1>15 DEF SelectEnd, TypeInv, InHandler, Queries, Promise!Effect
  <2>2. disk' = disk /\ Goto(t, "ok")
    BY <1>15, <1>4 DEF SelectEnd, connection
  <2> QED
    BY <1>15, <2>1, <2>2, <1>7 DEF SelectEnd, Stage
<1>16. ASSUME NEW t \in Threads, Reply(t) PROVE Promise!Next
  <2>1. Stages' = [Stages EXCEPT ![t] = "idle"]
    BY <1>3, <1>16, StageStep DEF Reply
  <2> QED
    BY <1>1, <1>5, <1>16, <2>1
       DEF Reply, Stage, Stages, connection, Promise!Answer
<1>17. CASE Crash
  <2>1. Promise!Restart
    BY <1>17 DEF Crash, Discard, Stage, Promise!Restart
  <2> QED
    BY <2>1 DEF Promise!Next
<1>18. CASE UNCHANGED vars
  BY <1>18, <1>2 DEF vars, Stages, Stage
<1> QED
  BY <1>2, <1>8, <1>9, <1>10, <1>11, <1>12, <1>13, <1>14, <1>15, <1>16, <1>17,
     <1>18 DEF Next, Serve

\* The mapped state moves only when a request is carried out or refused.
LEMMA Atomic ==
    ASSUME Unmixed
    PROVE  Spec => AtomicRequests
<1>1. Init => Promise!Init
  BY DEF Init, EmptyTables, Stage, Promise!Init, Promise!Absent
<1>2. /\ TypeInv /\ Owned /\ NoLeakedTransaction /\ Settled /\ Progress
      /\ Sound(disk)
      /\ [Next]_vars
      => [Promise!Next]_(Promise!vars)
  BY RefinementStep
<1>3. ReferentialIntegrity => Sound(disk)
  BY DEF ReferentialIntegrity
<1> QED
  BY <1>1, <1>2, <1>3, UnmixedUndisturbed, TypeInvariant, OwnedInvariant, NoLeak,
     SettledInvariant, ProgressInvariant, Integrity, PTL
     DEF Spec, AtomicRequests, Promise!Spec

\* As long as nobody deletes and SQLite does not drop transactions by itself,
\* any number of threads sharing the connection add, update and query as if
\* each request were carried out at once and entirely or refused, and a crash
\* loses nothing that was answered.
THEOREM AtomicPuts ==
    ASSUME "transaction" \notin Faults, OnlyPuts
    PROVE  Spec => AtomicRequests
  BY Atomic DEF Unmixed

\* So does one thread that has the connection for itself, deletes included,
\* whichever statements fail and whichever transactions SQLite drops.
THEOREM AtomicAlone ==
    ASSUME Alone
    PROVE  Spec => AtomicRequests
  BY Atomic DEF Unmixed

-----------------------------------------------------------------------------
(* A thread that has the connection for itself. *)

\* What prepare_and_collect returns to a thread that is alone is committed:
\* nobody's transaction is open.
THEOREM ReadsAlone ==
    ASSUME Alone
    PROVE  Spec => ReadsCommitted
<1> DEFINE Read == \A t \in Threads :
               rows'[t] \ rows[t] \subseteq UNION {JoinRows(disk, c) : c \in CourseKeys}
<1>1. TypeInv /\ NoLeakedTransaction /\ Settled /\ [Next]_vars => [Read]_vars
  <2> SUFFICES ASSUME TypeInv, NoLeakedTransaction, Settled, [Next]_vars
               PROVE  Read
    OBVIOUS
  <2> USE DEF TypeInv, TypeOK
  <2>1. ASSUME NEW t \in Threads, SelectStep(t) PROVE Read
    <3>1. pc[t] = "select" /\ \A u \in Threads : u = t
      BY <2>1 DEF SelectStep, Alone
    <3>2. work = disk
      BY <3>1 DEF NoLeakedTransaction, Settled, Inside
    <3>3. PICK c \in CourseKeys, s \in Slots :
              rows' = [rows EXCEPT ![t] = @ \cup Matching(work, c, s, req[t])]
      BY <2>1 DEF SelectStep
    <3>4. c \in CourseKeys /\ rows'[t] = rows[t] \cup Matching(disk, c, s, req[t])
      BY <3>2, <3>3
    <3>5. Matching(disk, c, s, req[t]) \subseteq JoinRows(disk, c)
      BY DEF Matching
    <3> QED
      BY <3>1, <3>4, <3>5
  <2>2. ASSUME rows' = rows PROVE Read
    BY <2>2
  <2>3. ASSUME NEW t \in Threads,
               \/ Receive(t) \/ Begin(t) \/ WriteCourse(t) \/ WriteSchedule(t)
               \/ Commit(t) \/ Rollback(t) \/ Delete(t) \/ SelectEnd(t)
        PROVE  rows' = rows
    BY <2>3 DEF Receive, Begin, WriteCourse, WriteSchedule, Commit, Rollback,
                Delete, SelectEnd, cursors
  <2>4. ASSUME NEW t \in Threads, Reply(t) PROVE Read
    BY <2>4 DEF Reply
  <2>5. CASE Crash
    BY <2>5 DEF Crash
  <2> QED
    BY <2>1, <2>2, <2>3, <2>4, <2>5 DEF Next, Serve, vars
<1> QED
  BY <1>1, TypeInvariant, NoLeak, SettledInvariant, PTL DEF Spec, ReadsCommitted

=============================================================================
