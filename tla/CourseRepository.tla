-------------------------- MODULE CourseRepository --------------------------
(***************************************************************************)
(* The course repository of the server (driver/src/db_courses_handle.cpp)  *)
(* as its client threads use it (programs/Server/src/cmdreg.cpp).          *)
(*                                                                         *)
(* main() opens ONE CourseRepository, hence one SQLite connection, and     *)
(* hands a reference to every detached client thread.  The connection is   *)
(* opened with SQLITE_OPEN_FULLMUTEX: single sqlite3 calls are serialised, *)
(* the sequence of calls that makes up a handler is not.  So a step of     *)
(* this specification is one SQL statement of one thread, and the          *)
(* transaction that a thread opens is the transaction of them all.         *)
(***************************************************************************)
CONSTANTS
    Threads,     \* the client threads of the server
    CourseKeys,  \* (code, section): the primary key of table courses
    Slots,       \* (day, duration, semester): the rest of the key of schedules
    Details,     \* (title, instructor): the other columns of courses
    Rooms,       \* classroom: the other column of schedules
    None,        \* no row
    Requests,    \* what clients may send, a subset of Writes, Deletes, Queries
    Faults       \* what SQLite may do to a statement besides running it

(***************************************************************************)
(* A query visits the courses in keys and keeps the rows whose details and *)
(* slot match: search_by_course_code restricts keys, search_by_instructor  *)
(* restricts details, view_courses_by_semester restricts slots, and        *)
(* view_all_courses restricts nothing.                                     *)
(***************************************************************************)
Writes  == [op : {"add", "update"}, key : CourseKeys, slot : Slots,
            detail : Details, room : Rooms]
Deletes == [op : {"delete"}, key : CourseKeys]
Queries == [op : {"query"}, keys : SUBSET CourseKeys,
            details : SUBSET Details, slots : SUBSET Slots]
Rows    == [key : CourseKeys, slot : Slots, detail : Details, room : Rooms]

\* "statement": the statement fails and an open transaction stays open.
\* "transaction": the statement fails and SQLite rolls the transaction back
\* by itself (SQLITE_FULL, SQLITE_IOERR, SQLITE_NOMEM and the like).
FaultKinds == {"statement", "transaction"}

ASSUME NoneAssumption    == None \notin Details \cup Rooms \cup Requests
ASSUME RequestAssumption == Requests \subseteq Writes \cup Deletes \cup Queries
ASSUME FaultAssumption   == Faults \subseteq FaultKinds

VARIABLES
    inTx,       \* the connection is inside BEGIN ... COMMIT/ROLLBACK
    work,       \* the tables as the connection sees them
    disk,       \* the tables as last committed
    pc,         \* the statement each thread runs next
    req,        \* the request each thread is serving
    todo,       \* the places of the join its SELECT has still to visit
    rows        \* the rows its SELECT has returned so far

connection == <<inTx, work, disk>>
cursors    == <<todo, rows>>
vars       == <<inTx, work, disk, pc, req, todo, rows>>

Tables == [courses   : [CourseKeys -> Details \cup {None}],
           schedules : [CourseKeys -> [Slots -> Rooms \cup {None}]]]

\* Between BEGIN and the end of its transaction, as far as the thread knows.
Inside == {"course", "schedule", "commit", "rollback"}
Labels == Inside \cup {"idle", "begin", "delete", "select", "ok", "error"}

-----------------------------------------------------------------------------
(* The statements, as functions from tables to tables. *)

EmptyTables == [courses   |-> [c \in CourseKeys |-> None],
                schedules |-> [c \in CourseKeys |-> [s \in Slots |-> None]]]

\* Mutant: INSERT OR REPLACE deletes the old row, and its schedules with it.
PutCourseByReplace(db, r) ==
    IF r.op = "add"
    THEN [db EXCEPT !.courses[r.key] = r.detail,
                    !.schedules[r.key] = [s \in Slots |-> None]]
    ELSE db

\* INSERT ... ON CONFLICT DO UPDATE creates the row, UPDATE does not.
PutCourse(db, r) ==
    IF r.op = "add" \/ db.courses[r.key] # None
    THEN [db EXCEPT !.courses[r.key] = r.detail]
    ELSE db

\* Mutant: the wrong column bound to classroom.
PutScheduleMisbound(db, r) ==
    [db EXCEPT !.schedules[r.key][r.slot] = r.detail]

PutSchedule(db, r) ==
    IF r.op = "add" \/ db.schedules[r.key][r.slot] # None
    THEN [db EXCEPT !.schedules[r.key][r.slot] = r.room]
    ELSE db

\* Mutant: the table declared without ON DELETE CASCADE.
DropCourseOnly(db, c) == [db EXCEPT !.courses[c] = None]

\* ON DELETE CASCADE: the schedules of the course go with it.
DropCourse(db, c) ==
    [db EXCEPT !.courses[c] = None, !.schedules[c] = [s \in Slots |-> None]]

\* Mutant: PRAGMA foreign_keys left off.
ForeignKeysOff(db, r) == TRUE

\* REFERENCES courses(code, section), checked by the statement itself.
ForeignKeyHolds(db, r) == r.op = "update" \/ db.courses[r.key] # None

\* courses INNER JOIN schedules: a course without a schedule has no row.
JoinRows(db, c) ==
    {r \in Rows : /\ r.key = c
                  /\ r.detail = db.courses[c]
                  /\ r.room = db.schedules[c][r.slot]}

\* What a query q returns of slot s of course c: one row, or none.
Matching(db, c, s, q) ==
    {r \in JoinRows(db, c) : r.slot = s /\ s \in q.slots /\ r.detail \in q.details}

-----------------------------------------------------------------------------
(* What the connection does with a statement. *)

\* Outside a transaction a statement commits by itself.
Store(db) ==
    /\ work' = db
    /\ disk' = IF inTx THEN disk ELSE db
    /\ UNCHANGED inTx

Discard ==
    /\ inTx' = FALSE
    /\ work' = disk
    /\ UNCHANGED disk

Goto(t, label) == pc' = [pc EXCEPT ![t] = label]

\* A statement of t fails although nothing is wrong with it: alone, or
\* together with the transaction it ran in.
StatementFault(t, label) ==
    "statement" \in Faults /\ Goto(t, label) /\ UNCHANGED connection

TransactionFault(t, label) ==
    "transaction" \in Faults /\ inTx /\ Discard /\ Goto(t, label)

Faulted(t, label) == StatementFault(t, label) \/ TransactionFault(t, label)

-----------------------------------------------------------------------------
(* One action per statement of the repository. *)

\* handle_client has received a request, and dispatch found its handler.
Receive(t) ==
    /\ pc[t] = "idle"
    /\ \E r \in Requests :
          /\ req' = [req EXCEPT ![t] = r]
          /\ \/ r.op \in {"add", "update"} /\ Goto(t, "begin") /\ UNCHANGED todo
             \/ r.op = "delete" /\ Goto(t, "delete") /\ UNCHANGED todo
             \/ /\ r.op = "query"
                /\ Goto(t, "select")
                /\ todo' = [todo EXCEPT ![t] = r.keys \X Slots]
    /\ UNCHANGED <<connection, rows>>

\* BEGIN fails inside a transaction, whoever opened it.
Begin(t) ==
    /\ pc[t] = "begin"
    /\ \/ ~inTx /\ inTx' = TRUE /\ Goto(t, "course")
          /\ UNCHANGED <<work, disk>>
       \/ inTx /\ Goto(t, "error") /\ UNCHANGED connection
       \/ StatementFault(t, "error")
    /\ UNCHANGED <<req, cursors>>

WriteCourse(t) ==
    /\ pc[t] = "course"
    /\ \/ Store(PutCourse(work, req[t])) /\ Goto(t, "schedule")
       \/ Faulted(t, "rollback")
    /\ UNCHANGED <<req, cursors>>

\* Mutants: the failure of the second statement is committed, retried, or
\* returned without a ROLLBACK.
ScheduleFails(t, label) ==
    /\ pc[t] = "schedule"
    /\ \/ /\ ForeignKeyHolds(work, req[t])
          /\ Store(PutSchedule(work, req[t]))
          /\ Goto(t, "commit")
       \/ /\ "statement" \in Faults \/ ~ForeignKeyHolds(work, req[t])
          /\ Goto(t, label)
          /\ UNCHANGED connection
    /\ UNCHANGED <<req, cursors>>

WriteScheduleCommitsAnyway(t) == ScheduleFails(t, "commit")
WriteScheduleRetries(t)       == ScheduleFails(t, "schedule")
WriteScheduleReturnsEarly(t)  == ScheduleFails(t, "error")

WriteSchedule(t) ==
    /\ pc[t] = "schedule"
    /\ \/ /\ ForeignKeyHolds(work, req[t])
          /\ Store(PutSchedule(work, req[t]))
          /\ Goto(t, "commit")
       \/ ~ForeignKeyHolds(work, req[t]) /\ Goto(t, "rollback") /\ UNCHANGED connection
       \/ Faulted(t, "rollback")
    /\ UNCHANGED <<req, cursors>>

\* Mutant: the return code of COMMIT is not looked at.
CommitUnchecked(t) ==
    /\ pc[t] = "commit"
    /\ \/ inTx' = FALSE /\ disk' = work /\ UNCHANGED work
       \/ "statement" \in Faults /\ UNCHANGED connection
    /\ Goto(t, "ok")
    /\ UNCHANGED <<req, cursors>>

\* COMMIT commits the connection's transaction; without one it fails.
Commit(t) ==
    /\ pc[t] = "commit"
    /\ \/ inTx /\ inTx' = FALSE /\ disk' = work /\ Goto(t, "ok")
          /\ UNCHANGED work
       \/ ~inTx /\ Goto(t, "rollback") /\ UNCHANGED connection
       \/ Faulted(t, "rollback")
    /\ UNCHANGED <<req, cursors>>

\* Mutant: the error path returns without ROLLBACK.
RollbackForgotten(t) ==
    /\ pc[t] = "rollback"
    /\ Goto(t, "error")
    /\ UNCHANGED <<connection, req, cursors>>

\* ROLLBACK, its return code ignored: it rolls back whatever is open.
Rollback(t) ==
    /\ pc[t] = "rollback"
    /\ Discard
    /\ Goto(t, "error")
    /\ UNCHANGED <<req, cursors>>

\* Mutant: the return code of the DELETE is not looked at.
DeleteUnchecked(t) ==
    /\ pc[t] = "delete"
    /\ \/ Store(DropCourse(work, req[t].key))
       \/ "statement" \in Faults /\ UNCHANGED connection
    /\ Goto(t, "ok")
    /\ UNCHANGED <<req, cursors>>

\* delete_course: one DELETE and no BEGIN; a missing course is no error.
Delete(t) ==
    /\ pc[t] = "delete"
    /\ \/ Store(DropCourse(work, req[t].key)) /\ Goto(t, "ok")
       \/ Faulted(t, "error")
    /\ UNCHANGED <<req, cursors>>

\* One sqlite3_step of the SELECT: the next course with the next of its slots.
SelectStep(t) ==
    /\ pc[t] = "select"
    /\ \E c \in CourseKeys, s \in Slots :
          /\ <<c, s>> \in todo[t]
          /\ rows' = [rows EXCEPT ![t] = @ \cup Matching(work, c, s, req[t])]
          /\ todo' = [todo EXCEPT ![t] = @ \ {<<c, s>>}]
    /\ UNCHANGED <<connection, pc, req>>

\* SQLITE_DONE, or an error: the handlers ignore the result of
\* prepare_and_collect and answer with the rows there are.
SelectEnd(t) ==
    /\ pc[t] = "select"
    /\ \/ todo[t] = {} /\ Goto(t, "ok") /\ UNCHANGED connection
       \/ Faulted(t, "ok")
    /\ UNCHANGED <<req, cursors>>

\* The answer is sent (or the client is gone and its thread ends: another takes
\* its place).
Reply(t) ==
    /\ pc[t] \in {"ok", "error"}
    /\ Goto(t, "idle")
    /\ req'  = [req EXCEPT ![t] = None]
    /\ todo' = [todo EXCEPT ![t] = {}]
    /\ rows' = [rows EXCEPT ![t] = {}]
    /\ UNCHANGED connection

\* The process dies and is started again: open() sees the committed tables.
Crash ==
    /\ Discard
    /\ pc'   = [t \in Threads |-> "idle"]
    /\ req'  = [t \in Threads |-> None]
    /\ todo' = [t \in Threads |-> {}]
    /\ rows' = [t \in Threads |-> {}]

-----------------------------------------------------------------------------

Init ==
    /\ inTx = FALSE
    /\ work = EmptyTables
    /\ disk = EmptyTables
    /\ pc   = [t \in Threads |-> "idle"]
    /\ req  = [t \in Threads |-> None]
    /\ todo = [t \in Threads |-> {}]
    /\ rows = [t \in Threads |-> {}]

Serve(t) == \/ Begin(t) \/ WriteCourse(t) \/ WriteSchedule(t) \/ Commit(t)
            \/ Rollback(t) \/ Delete(t) \/ SelectStep(t) \/ SelectEnd(t)
            \/ Reply(t)

Next == (\E t \in Threads : Receive(t) \/ Serve(t)) \/ Crash

Spec == Init /\ [][Next]_vars

\* A thread that is serving a request keeps running: the system schedules it,
\* no statement waits for another thread, and SQLite returns from each call.
FairSpec == Spec /\ \A t \in Threads : WF_vars(Serve(t))

-----------------------------------------------------------------------------
(* Properties. *)

TypeOK ==
    /\ inTx \in BOOLEAN
    /\ work \in Tables
    /\ disk \in Tables
    /\ pc   \in [Threads -> Labels]
    /\ req  \in [Threads -> Requests \cup {None}]
    /\ todo \in [Threads -> SUBSET (CourseKeys \X Slots)]
    /\ rows \in [Threads -> SUBSET Rows]

Sound(db) == \A c \in CourseKeys : \A s \in Slots :
                 db.schedules[c][s] # None => db.courses[c] # None

\* No schedule without its course, neither on disk nor in what any thread
\* sees, whichever thread deletes the course while another is between the two
\* statements of insert_or_replace or update.
ReferentialIntegrity == Sound(work) /\ Sound(disk)

\* The connection is in a transaction only while some thread is on its way to
\* the COMMIT or ROLLBACK that ends one: no path out of insert_or_replace or
\* update leaves it open (every later BEGIN would fail for ever).
NoLeakedTransaction == inTx => \E t \in Threads : pc[t] \in Inside

\* If SQLite never drops a transaction by itself, the thread that opened it is
\* the only one inside, and it finds the transaction open until it ends it:
\* its COMMIT and its ROLLBACK end its own transaction and nobody else's.
OneTransaction ==
    /\ inTx <=> \E t \in Threads : pc[t] \in Inside
    /\ \A t, u \in Threads : pc[t] \in Inside /\ pc[u] \in Inside => t = u

\* Every course on disk has a schedule: insert_or_replace commits both rows or
\* none.  Without one the course is invisible to every query (kJoinSelect
\* joins the tables) and only a DELETE that names it can remove it.
NoUnscheduledCourse ==
    \A c \in CourseKeys :
        disk.courses[c] # None => \E s \in Slots : disk.schedules[c][s] # None

\* A query returns rows that are committed when it reads them.
ReadsCommitted ==
    [][\A t \in Threads : rows'[t] \ rows[t] \subseteq
                              UNION {JoinRows(disk, c) : c \in CourseKeys}]_vars

\* Every request that is received is answered, whatever the other threads do
\* with the connection in the meantime and whichever statements fail.
EveryRequestAnswered ==
    \A t \in Threads : pc[t] # "idle" ~> pc[t] = "idle"

\* An open transaction is ended, by its thread or by SQLite.
TransactionEnds == inTx ~> ~inTx

-----------------------------------------------------------------------------
(* Refinement: the tables on disk are the store, and a request counts as   *)
(* asked until its thread knows the answer.                                 *)

Stage(t) == IF pc[t] \in {"idle", "ok", "error"} THEN pc[t] ELSE "asked"

Promise == INSTANCE CourseStore
               WITH db <- disk, stage <- [t \in Threads |-> Stage(t)]

\* The repository carries out each request at once and entirely or refuses it,
\* says "ok" only of what is on disk, and a restart loses nothing it answered.
AtomicRequests == Promise!Spec

=============================================================================
