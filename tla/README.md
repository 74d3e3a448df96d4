# Verification of the course management server

TLA+ models of the DCN1003 course server and its client, the TLC instances that check them and the TLAPS proofs
about them. The reference is the code in `src/`; a definition that models code is listed in `PROJECT.json` under
`map` with the lines it stands for.

    tlc -workers 2 -config courses_concurrent.cfg MCCourseLedger.tla     # a run: see the table below
    tlapm CourseRepository_proofs.tla                                    # the proofs of a module

## 1. The system

A C++ server for Windows keeps courses, their schedules and administrator accounts in one SQLite file; a C++ client
queries and changes them, either as an interactive REPL or as a line-based bridge behind a GUI (which is not in this
repository).

    GUI --stdin/stdout lines--> client_main --Client/cmdreg--> protocol == TCP == protocol --> handle_client
                                                                                                   |
                    main(): accept loop, shutdown                      Dispatcher (role check) <---+
                                                                           |
                                           handlers of Server/cmdreg: courses | accounts, session
                                                                           |
                                       CourseRepository (connection 1)   AdministratorRepository (connection 2)
                                                       \                /
                                                        data/DCN.db (WAL)

What the parts share is what makes them hard:

* one thread for each client, detached, without any lock in the program;
* ONE `CourseRepository` and ONE `AdministratorRepository` for all threads, so one SQLite connection each.
  `SQLITE_OPEN_FULLMUTEX` serialises single sqlite3 calls. The sequence of calls that makes up a request is not
  serialised, and **a transaction belongs to the connection, hence to all threads**;
* `last_error_`, `sqlite3_changes()` and `db_` belong to the repository or its connection, not to the request;
* sockets are handles that Windows reuses: who closes one twice closes somebody else's.

### Inventory

| part | state | operations | hard behaviour | what makes it correct |
| --- | --- | --- | --- | --- |
| Course repository (`db_courses_handle.cpp`, handlers in `Server/src/cmdreg.cpp`) | tables `courses`, `schedules`; the connection's transaction; `last_error_` | add, update, delete, four queries, a paged query | transactions of several threads on one connection; failing statements; SQLite's own rollback; a crash between statements | requests are atomic; committed data stays; no schedule without its course, no course without a schedule; the connection never stays in a transaction |
| Accounts and sessions (`db_administrators_handle.cpp`, `password_hash.cpp`, login and account handlers) | table `administrators`; role and name of each session | login (with upgrade of old passwords), logout, list, create, update (rename, password), delete; injection at start | check and act in separate statements, no transaction at all; a name in the session that a rename makes stale | only administrators change accounts; no plain password is stored; no account is lost or overwritten; nobody deletes its own |
| Dispatcher (`CmdHandler.cpp`) | table of handlers, fixed after start | dispatch, send an answer | a handler that throws; an empty answer | every request is answered; roles are checked before the handler |
| Server lifecycle (`server_main.cpp`, `listener.cpp`, `SocketHandler.*`) | `g_running`, `g_listen_sock`, sockets, both connections | accept, start a thread, stop on signal or console event, close | signal threads, main and clients race for handles; detached threads outlive the databases | each socket is closed once; a request to stop ends the process; nothing is used after it is closed |
| Database wrapper (`database.cpp`) | `db_`, `last_error_` | open, close, raw_handle | shared by all threads | used only between open and close |
| Protocol (`protocol.cpp`, `SocketHandler.cpp`) | a request counter for each process | send and receive a packet: header, then encrypted body with MAC | a connection that breaks anywhere; partial sends; limits that only one side checks; no retry, no time limit, no use of the request number | an answer belongs to the request before it; a request is carried out at most once; every call ends |
| Client calls (`Client/src/cmdreg.cpp`, `connect_to.cpp`) | - | one call for each command | an answer that never comes; separators inside fields; pages of a table that changes | the client sees what the server sent; a reader of all pages sees all courses |
| Bridge and REPL (`client_main.cpp`) | the socket | one line in, one line out | failure drops the socket and with it the login; the log shares stdout with the answers | the driver knows its role; one answer for each line, and of that line |
| openssl wrapper, log, Winsock guard, generated protobuf, SQLite, import scripts | key | - | - | not modelled, or only as the parts above use them |

`PROJECT.json` lists every component with its status, and under `hazards` what can go wrong in each at its line.

## 2. The modules

| module | what it is |
| --- | --- |
| `CourseRepository` | the course repository as the client threads use it, one action for each SQL statement |
| `CourseStore` | abstract specification: what `database.h` promises, every request atomic |
| `CourseLedger` | `CourseRepository` with two history variables: what the answers sent so far entitle clients to believe, and which courses were written since they were last deleted |
| `AdminAccounts` | accounts, login and account handlers, the dispatcher's role check, sessions, injection at start |
| `AdminLedger` | `AdminAccounts` with two history variables: whose account a session logged in to, what its DELETE removed |
| `Server` | the process: accept loop, client threads, shutdown handlers, sockets, closing of the databases |
| `Exchange` | a line typed to the client, its request, the connection, the serving thread and the answer: client, protocol and dispatcher composed |
| `Call` | abstract specification: what the client promises about the answer to a line |
| `BridgeOutput` | `Exchange` with what the client writes to stdout |
| `CourseText` | the text in which courses travel: what the server writes and what the client makes of it |
| `Listing` | the table read page by page, over `CourseText`, while others change it |
| `CourseRepository_proofs`, `CourseLedger_proofs`, `AdminAccounts_proofs`, `AdminLedger_proofs`, `Server_proofs`, `Exchange_proofs`, `CourseText_proofs`, `Listing_proofs` | theorems and proofs about the module each is named after |
| `MCCourse`, `MCCourseLedger`, `MCAdmin`, `MCAdminLedger`, `MCServer`, `MCListing` | instances for TLC: request sets and symmetry |

Definitions marked "Mutant" in the modules are faulty variants of the definition that follows them. Nothing uses them;
`PROJECT.json` pairs each with a property that TLC must find violated once the variant takes the definition's place.

### CourseRepository

`work` is the database as the shared connection sees it and `disk` what is committed; `inTx` is the connection's one
transaction. Each thread has the label of its next statement in `pc`, its request in `req`, and, for a SELECT, the
places of the join (course and slot) it has still to visit and the rows it has (`todo`, `rows`). The text of an error
is not modelled: `last_error_` is shared, so with several threads it is that of whoever failed last.

| code | actions |
| --- | --- |
| `insert_or_replace`, `update`: BEGIN, first statement, second statement, COMMIT, and ROLLBACK on their error paths | `Begin`, `WriteCourse`, `WriteSchedule`, `Commit`, `Rollback` |
| `delete_course`: one DELETE with cascade, no BEGIN | `Delete` |
| `prepare_and_collect`: `sqlite3_step` row by row; the callers ignore its result | `SelectStep`, `SelectEnd` |
| `handle_client`: receive, answer; a new client in the place of one that left | `Receive`, `Reply` |
| the process dies and is started again on the file | `Crash` |

What SQLite does is modelled from how the repository uses it: a statement outside a transaction commits by itself, BEGIN
inside a transaction fails, COMMIT and ROLLBACK act on the connection's transaction whoever opened it, and a foreign
key is checked by the statement. `Faults` allows a statement to fail alone ("statement": SQLITE_BUSY after the 5 s
busy timeout against the other connection on the same file, SQLITE_CONSTRAINT, an interrupted statement) or together
with the whole transaction ("transaction": SQLITE_FULL, SQLITE_IOERR, SQLITE_NOMEM, for which SQLite rolls back by
itself). Columns are grouped by the role they play: `CourseKeys` (code, section), `Slots` (day, duration, semester),
`Details` (title, instructor), `Rooms` (classroom). Validation of fields and the role check come before `Receive`.

`CourseLedger` observes the same steps. `belief` is "present" for a course once an add of it is committed and nobody
deleted it since its rows were written (`written`), and "absent" once the OK of a delete is sent and nobody added it
since the DELETE ran. A request that is refused changes no belief.

### AdminAccounts

`accounts` maps a name to what is stored: the form ("plain" or "hash") and the word. A password that begins with
`pbkdf2$` (`HashLike`) is stored as it is, because `is_encoded` looks at the prefix only; it opens with the password it
is a valid encoding of (`HashOf`), if there is one, and with none otherwise. `changes` is
`sqlite3_changes()` of the shared connection, which another session's statement may set between a DELETE and the call
that reads it. Each statement of a handler is an action: `Fetch` and `Upgrade` (`verify_login`), `CreateExists` and
`Upsert`, `UpdateFindOld`, `RenameFindOld`, `RenameFindNew`, `Rename`, `Upsert` and `Sync` (`handle_admin_update`),
`Remove` and `ReadChanges`, `List`. `Receive` contains the dispatcher's role check, the check against deleting
oneself, and logout. `Restart` is the end of the process anywhere and the next start, which injects
`admin`/`admin123` unless it can log in with them; `Init` is a table of the time before hashing and the first start
upon it. `changes' \in {0, changes}` for a failed write: SQLite sets it when the statement ran and failed, and leaves
it when the statement could not be prepared.

### Server

`sock` is what Windows has under each handle, and `own` which handle each variable of the program that has to be
closed holds: `g_listen_sock` ("global"), `sh` and `s` of `main()`, `s` of `request_shutdown()` in each handler
thread, and the `SocketHandler` of each client thread. A move and `exchange()` take a handle from one variable to
another (`Moved`, `Taken`), a destructor closes it (`Close`). `lsock` is the copy main calls `accept()` on, which it
never closes. A client thread is modelled as far as its connection goes: `Enter` gets the raw handle of a repository,
`Prepare` and `Finalize` are the SQLite calls with it, any number of them. `Database::close` is two steps for each
connection, `CloseDatabase` (`sqlite3_close`, which refuses a connection in use) and `ForgetDatabase` (`db_ =
nullptr`). `Exit` is the end of the process: main returns, or SQLite is called with a connection that has been freed.
Handler threads may be started at any time (`Request`); at most `Stoppers` of them run at once, each any number of
times.

### Exchange

Three kinds of process: clients (`cpc`, with their socket `sock` and the `request` they are making), one serving thread
for each connection (`tpc`, `role`, `work`), and the connections between them, a queue of headers and bodies in each
direction (`toServer`, `toClient`, `broken`). `fate`, `outcome` and `log` record what became of each call; `trusted`
is what the driver of a client may believe about its role, from the answers alone.

| code | actions |
| --- | --- |
| `run_bridge`, `run_repl`: a line that needs no server, or is refused | `Refused`, `Connect`, `Disconnect` |
| a line that makes a call: `send_and_recv` with `send_body` and `Package_receive` | `Ask`, `SendHeader`, `SendBody`, `RecvHeader`, `RecvBody` |
| a failed call: `emit_err`, `sock.reset()` | `Fail`, part of each of these |
| the client's process ends and is started again | `Restart` |
| `accept()`, `handle_client`: `Package_receive`, `dispatch`, `send_response_s` | `Accept`, `TakeHeader`, `TakeBody`, `Dispatch`, `ReplyHeader`, `ReplyBody` |
| a receive or a send that fails: `break`, the socket and the session are gone | `End`, part of each of these |
| a connection is reset; the server's process ends | `Break`, `ServerRestarts` |

A package is its header and its body, sent and received by separate calls, so that a connection can break between them
and a receiver can refuse the header while the body is on its way (`fits` is FALSE: the length is beyond `MAX_BODY`,
which only receivers check). A body that arrives and cannot be decoded ends the call or the thread as a failed receive
does (`RecvBody`, `TakeBody`). The verbs are grouped by what they do to the session and by the role they need; what a
handler does to the databases is in the modules above, here it is the decision it comes to (`Decisions`). The two
ends have the same key and version, and TCP delivers bytes intact, so decryption and MAC succeed; that encrypting may
fail is modelled. The request number is not: no code reads it.

Once a connection is broken or closed by the other end, each call on it may fail or, until then, lose what it sends and
read what had arrived. `Call` is the promise: the n-th line that asks something is answered with the decision on
*that* request or fails; a request is decided at most once, never after its answer, but possibly **after the client
reported the failure**, and possibly after later calls that the client made over a new connection, so that `log` need
not have the order of the lines.

`BridgeOutput` adds the lines that a client writes for each line it reads. `print_log` writes to the same stream.

### Listing and CourseText

`table` holds joined rows as the shared connection sees them, `disk` those committed; `Rank` is their place in ORDER BY.
`Orders` are all the orders a query may return: the duration is part of a row's key, not of ORDER BY, so rows that
differ in it only are tied. `ReadPage` is one `VIEW_ALL_PAGE` with its limits clamped as the handler does, answered with
a part of the page when the query fails in the middle, serialised and parsed again. Nothing under `src/` goes through
all pages, so the reader is external: it goes on at the offset where its rows end and stops at an empty page.

Other clients add and remove rows (`AddRow`, `RemoveRow`), inside a transaction of one of them (`BeginTx`, `CommitTx`) or
outside. `UndoTx` is its ROLLBACK, SQLite's own, or a crash: it takes back everybody's changes since BEGIN, so a row shown
to a reader may be gone and one that was deleted be back. A row whose text is changed counts as removed and added. A
page is read in one step: a change between two of its rows counts as before the page if its row is yet to come, and as
after it otherwise. `happened` collects what the properties exclude, "undone" among it.

A text is a sequence of characters, of which the two separators matter; a course is the sequence of its fields.
`Serialize` is `serialize_courses`, which escapes nothing; `Split` and `Parse` are the client's `split` and
`parse_courses`, which drops a record with too few fields and ignores what exceeds a course.

### Abstract specifications

`CourseStore` is the promise of `database.h` and of the explicit transactions: a request is carried out at once and
entirely, or refused without effect; it is answered "ok" only if it was carried out; a restart loses nothing that was
carried out. `CourseRepository!AtomicRequests` states that the repository implements it, with `disk` for the store
and the labels between receipt and outcome mapped to "asked". It holds with one thread, whatever fails
(`AtomicAlone`; TLC: `courses_alone`), and with any number of threads as long as nobody deletes and SQLite drops no
transaction (`AtomicPuts`). With deletes and two threads it does not: the run `courses_delete_undone`.

## 3. The runs

| run | instance | what it shows |
| --- | --- | --- |
| `courses_concurrent` | 3 threads, 2 courses, statement faults, crashes; 197 233 states | The tables stay sound, BEGIN works as a lock (`OneTransaction`), no course is half added, and a committed add stays until a DELETE (`AddedStays`). |
| `courses_alone` | 1 thread, 2 courses, 2 values of everything, all requests, all faults; 89 110 states | The repository implements `CourseStore`; queries read committed rows, a deleted course stays away. |
| `courses_faults` | 2 threads, 2 courses, all faults, crashes, fair; 50 665 states | Integrity and `NoLeakedTransaction` even if SQLite drops transactions; every request is answered, every transaction ends. |
| `courses_delete_undone` | 2 threads, 1 course, no faults, no crash (`SteadySpec`) | VIOLATION of `DeletedStays`. |
| `admin_concurrent` | 2 sessions, 2 names, 2 passwords, faults, restarts; 1 182 243 states | Only administrators change the set of accounts, nothing is newly stored in plain text, no account is lost but by a DELETE. |
| `admin_alone` | 1 session, 3 names, 3 passwords (one is a valid hash of another), no faults; 102 490 states | An administrator keeps its account through its renames and cannot delete it, creating overwrites nothing, a delete is answered truly, a login upgrades the password it checked. |
| `admin_restart` | 1 session, no faults | VIOLATION of `FirstStartOnly`. |
| `server_lifecycle` | 2 client threads, 2 handler threads, 3 handles, 2 repositories, fair; 238 659 states | Each socket has one owner and is closed once, running clients keep their connection, the server serves until it is asked to stop, and a request to stop ends the process. |
| `server_shutdown` | 1 client thread, 1 handler thread | VIOLATION of `NoUseAfterClose`. |
| `exchange` | 1 client, 2 connections, 2 calls, every break, refusal and restart, fair; 89 548 states | The calls implement `Call`; the driver knows its role; nothing of an old answer is left to be read; every call ends; the thread and the session of a client that has gone end. |
| `listing` | 4 rows (two tied, one of them with separators), limits 0, 1, 3 and 4 with a maximum of 3, 2 changes, in transactions and outside; 185 592 states | A reader misses no course and sees none twice, but for the reasons named; separators spoil only their own course. |
| `bridge_output` | 1 client, 1 call | VIOLATION of `SilentBridge`. |

### The disagreements

* **A delete that was answered OK is undone** (`courses_delete_undone`). `delete_course` runs without BEGIN on the
  shared connection. Between the two statements of another thread's add it becomes part of that transaction and is
  answered OK; the add fails on the foreign key, its ROLLBACK brings the course back. The server does not crash in
  this run, so that TLC's shortest trace is this one; a crash before the COMMIT undoes the delete as well. The readme
  says that all changes use explicit transactions and that FULLMUTEX makes sharing safe.
* **The default password returns at every start** (`admin_restart`), although the comment and the readme speak of the
  first one.
* **The databases are closed under running threads** (`server_shutdown`): main announces that it drains, but waits
  for no thread before `sqlite3_close`.
* **The bridge is not silent** (`bridge_output`): a call that fails logs one or two lines on the stream that carries the
  answers, before its ERR line. Who reads one line for each request is out of step from then on.

More of the properties fail outside the instance their passing run uses. Each is reproduced by the cfg named, changed
as shown:

| property | in | change | why |
| --- | --- | --- | --- |
| `ReadsCommitted` | `courses_alone` | 2 threads | a SELECT on the shared connection sees another thread's open transaction |
| `NoUnscheduledCourse` | `courses_concurrent` | `Faults <- FaultKinds` | SQLite rolls a transaction back when another thread's statement fails; the thread that opened it goes on in autocommit, and its ROLLBACK is too late |
| `NothingMissed`, `NothingTwice` | `listing` | "undone" added to what they admit | a reader has been shown a row of an open transaction, or is past a row deleted in it, when its ROLLBACK takes that back |
| `CreateNeverOverwrites` | `admin_alone` | 2 sessions | `exists` and the upsert are two statements (`cmdreg.cpp:346`) |
| `DeleteAnswersTruly` | `admin_alone` | 2 sessions | `sqlite3_changes` is the connection's |
| `NeverDeletesItself` | `admin_alone` | 2 sessions | another administrator renames the account, the session keeps the old name (`cmdreg.cpp:430`) |
| `NeverDeletesItself` | `admin_alone` | statement faults | an update that renamed the account returns early when the password cannot be written, before it synchronises the session's name (`cmdreg.cpp:401`) |
| `UpgradeKeepsPassword` | `admin_alone` | 2 sessions | the upgrade of an old password writes back the password the login had read, after another session changed it (`db_administrators_handle.cpp:149`) |

More divergences were met while reading and need no model: the readme calls the query by semester reserved, and its
example of `add` has 7 fields, while the code implements the query and requires 8; `client_bridge.md` gives a course 7
fields too, and lacks the account verbs and `VIEW_ALL_PAGE`; the readme calls the scheme encrypt-then-MAC, while the MAC
is over the plain text; and it says the request number lets the client match answers to requests, while the server
numbers its answers by a counter of its own and the client compares nothing.

### Bounds, and why they are enough

* Threads: what goes wrong on the shared connection takes one thread inside a transaction and one outside;
  `courses_concurrent` has a third to let a BEGIN fail while the other two interact. Two sessions are enough for every
  check-then-act pair of the account handlers. The proofs have no bound.
* Courses, slots, values: statements touch one key; two courses show that others are left alone, and `courses_alone`
  has two values of every column, so that updates change something and filters tell rows apart. With more threads one
  value each suffices, because their properties speak of presence.
* Names and passwords: a rename needs an old and a new name, `admin_alone` has a third for the account it may collide
  with. `admin_concurrent` has no password that looks like a hash: `NoPlaintext` is proved with them.
* Handles: one for the listener and one for each of two threads; so a handle is reused as soon as one is closed, and
  main can be about to accept with none free (then it waits).
* Connections and calls: two connections let a client lose one, with a request still on its way to its thread, and call
  again on the other, while the old thread decides the abandoned call. Two calls are a LOGIN and a call with its role,
  on one connection or on two. One client is enough for TLC, since clients share no connection. The safety properties
  are proved for any number of each; TLC also finds them true, with the invariant of the proof, for 3 calls (730 344
  states) and for 2 clients (1 109 831 states). The liveness checks need the smaller instance.
* Pages: the longest list has four rows and the limits 1, 2 and 3 cut it in two to four pages; two changes can cancel
  each other, shift the rows by two, or be undone together or one by one. A reading may begin inside a transaction.
* Symmetry is used only in runs without liveness, and never over values that a cfg or a definition names.

No counter of the code is modelled except `changes`, which is 0 or 1.

### Fairness

* Courses: `FairSpec` has weak fairness of `Serve(t)` for each thread. Once a request has been received its thread
  runs on its own: it is a system thread, no statement waits for another thread's transaction (BEGIN fails instead of
  waiting), and SQLite returns from every call (the busy timeout is finite). Nothing is assumed of `Receive`: clients
  need not send. With statements that may fail, "answered" includes answered with an error.
* Server: weak fairness of the steps of `main()` and of each handler thread that do not wait for anything outside the
  process. Nothing is assumed of clients and their threads: `ShutdownCompletes` holds although they may stay for
  ever. In particular `AcceptClient` is not fair: what ends `accept()` is that the listener is closed. There is no
  fairness of `AcceptError` either.
* Exchange: weak fairness of the steps of each client that has a call under way and of each serving thread. Both are
  processes that nothing inside the program blocks. A `recv()` on a connection that is broken or closed by the other end
  returns, so `Dead` enables a failing step: **this assumes that a reset reaches both ends**. The code sets no time limit
  (`SocketHandler.cpp:63`), so a host that vanishes without a reset leaves the call, or the thread, waiting for ever. Nothing is
  assumed of the user, of connections, or of the server's staying up.
* Accounts: no liveness is checked; every action leads forward to an answer.

`CHECK_DEADLOCK FALSE` stands in the server's cfgs: the process ends.

## 4. The proofs

For every value of the constants (any number of threads, sessions, clients, connections, calls, courses, sockets; any
subset of the requests), under the assumptions of the modules: the null value is none of the data, threads or
requests; requests are well-formed; the default password does not look like a hash, and what looks like one encodes
one password at most; the names of variables in `Server` are not threads; courses are finite in number and have
`Width` texts, and the limits of a page are as in the code. What a theorem assumes beyond these stands in its row.

| theorem | statement | argument |
| --- | --- | --- |
| `CourseRepository_proofs!TypeCorrect`, `AdminAccounts_proofs!TypeCorrect`, `Server_proofs!TypeCorrect` | `[]TypeOK` | In the first two, the invariant adds that a thread in a handler has a request of that handler's kind, without which the tables would not be typed. |
| `CourseRepository_proofs!Integrity` | `[]ReferentialIntegrity` | Each statement maps sound tables to sound tables (`StatementSound`): the foreign key stops a schedule without its course, the cascade takes schedules along. |
| `NoLeak` | `[]NoLeakedTransaction` | Every path from a successful BEGIN stays inside the labels that lead to COMMIT or ROLLBACK; others cannot open a transaction while one is open. |
| `Exclusive` | no "transaction" fault: `[]OneTransaction` | BEGIN is a lock: `inTx` holds exactly while one thread is inside. The equivalence makes it inductive: a second BEGIN fails, and only the thread inside commits or rolls back. |
| `NoHalfAdd` | no "transaction" fault, or one thread: `[]NoUnscheduledCourse` | Strengthened by: outside a transaction `work = disk` (`Settled`), and in `work` the only course without a schedule is the one that the thread inside has just written. A DELETE in between removes course and schedules, then the foreign key stops the second statement. |
| `AtomicPuts` | no deletes and no "transaction" fault: the repository implements `CourseStore` | `work` is `disk` with as many of the two statements as the thread inside has executed (`ProgressStep`); hence COMMIT is `CarryOut`, each failure is `Refuse`, everything else stutters. |
| `AtomicAlone` | one thread, every request and every fault: the repository implements `CourseStore` | The same mapping: the DELETE is outside every transaction, and a transaction that SQLite drops takes back only what its own thread has written (`FaultedOwn`). |
| `ReadsAlone` | one thread: `ReadsCommitted` | While the only thread visits rows no transaction is open (`NoLeakedTransaction`), so `work = disk` (`Settled`). |
| `CourseLedger_proofs!AddedCoursesStay` | no "transaction" fault, or one thread: `[]AddedStays` | A course believed present is held on disk and in `work`, one that was written, not deleted since and is about to be committed in `work` (`AddedInv`); of all statements only a DELETE that names it, which also ends the belief, takes it away (`StatementHolds`). |
| `DeletedCoursesStayAway` | one thread, every fault: `[]DeletedStays` | An answered delete left the course out of `disk`; only the COMMIT of a write since then can bring it back, and that ends the belief (`DeletedInv`). |
| `AdminAccounts_proofs!OnlyAdmins` | `OnlyAdminsChangeAccounts` | A session at a label of an account handler has the role ADMIN (`RoleInside`): only its own LOGOUT, login and disconnection, at other labels, change its role. |
| `NoPlaintext` | `NoNewPlaintext` | Every writing statement stores an `Encode`d password or moves a stored one (`TableStep`). |
| `NoneLost` | `NoAccountLost` | From the same lemma: a rename goes from an existing to a free name in ONE statement, the primary key stops the rest. |
| `UpgradeIsHarmless` | one session, or any number that only log in, list and delete: `UpgradeKeepsPassword` | From the comparison to the upgrade the stored word is the one compared, or its account is gone (`Compared`); an UPDATE finds no row then. |
| `AccountStays`, `CreatesOnlyNew` | one session, no failing statement: `[]OwnAccountStays`, `CreateNeverOverwrites` | `AloneInv`: what a handler found out holds until it acts on it, and the account is under the session's name, or under the new one between the rename and `Sync`. |
| `AdminLedger_proofs!DeletesAnswered` | one session, failing statements: `[]DeleteAnswersTruly` | From the DELETE until the handler reads it, `changes` is the number of accounts that DELETE removed (`Counted`); a DELETE that fails is answered without reading it. |
| `NoSelfDelete` | one session, no failing statement: `NeverDeletesItself` | The account logged in to is the session's current one (`SelfKnown` with `AloneInv`), which the check of `handle_admin_delete` excludes. |
| `NobodyDeletesItself` | any number of sessions, failing statements, nobody renames: `NeverDeletesItself` | The account logged in to has the session's name or is gone (`SelfNamed`), and `Receive` lets no DELETE of that name in. So it is the rename, not the number of administrators, that defeats the check. |
| `Listing_proofs!EveryCourseShown`, `NoCourseTwice` | other clients' transactions included: `[]NothingMissed`, `[]NothingTwice` | By counting, see below. |
| `OthersUnspoilt` | `[]OthersArrive` | A page holds courses (`PageInv`), and of any courses `AllArrive` holds. |
| `CourseText_proofs!RoundTrip` | courses without separators: `Parse(Serialize(cs)) = cs` | By induction on the courses, see below. |
| `AllArrive` | any courses: those without separators arrive, whole and in order | By the same induction: one course more only adds to what is parsed (`OneMore`). |
| `Exchange_proofs!RolesAlwaysAgree`, `NothingIsLeftUnread` | `[]RolesAgree`, `[]NothingUnread` | From `ExchangeInvariant`, see below. |
| `ExchangeImplementsCall` | `ImplementsCall` | Under the same invariant each step is a step of `Call` or leaves its variables alone (`StepMaps`): `Dispatch` decides a request that is still undecided, `RecvBody` answers with its decision, everything that drops a socket fails the call. |
| `Server_proofs!OwnedOnce`, `Connected`, `Serving` | `[]SocketsOwnedOnce`, `[]ThreadsHaveSockets`, `[]ServesUntilAsked` | One inductive invariant, `IInv`: a variable has a socket only in the part of the program that deals with it (`InPlace`), so that no assignment overwrites an open one; threads own sockets of clients (`OfClients`); while `g_running` holds nobody has begun to stop the server (`NotStopping`). |

The ownership property is not inductive alone: `Moved` and `Taken` overwrite a variable, and that it was empty
follows from where the program is. `IInv` was first checked by TLC on the instance of `server_lifecycle`.

Neither of `Exchange`'s properties is inductive: that the answer read is that to the request sent rests on all that is
under way. `Inv` adds to the types:

* `Sockets`: no two clients have the same connection, and a client that makes a call has one;
* `Pending`: the calls under way are pending and differ, and a call that was answered was decided;
* `Undecided`: a request that is still carried, by a queue or by a thread about to dispatch it, is undecided, and
  nothing else carries it. This also covers the requests of clients that have gone, and it is why no call is decided
  twice;
* `OneRequest`: no thread has more before it than the rest of one package;
* `Attached`, for a client and its connection: `Phase` bounds what may be in each direction at each label of the
  client, `Own` says that all of it belongs to the call under way, and `Session` relates the thread's role to what the
  client knows, or will know once it has read the answer.

`Phase` counts the parts of the answer that have arrived or are still owed: without the count, the body of a refused
answer could be taken for the next header. TLC found each part of `Inv` true on the instances named under the bounds.

**What is assumed of threads and faults.** "One thread" (`Alone`) and "no transaction fault" are no conveniences: the
table of section 3 and the run `courses_delete_undone` show what the code breaks without them. A server with one client at
a time meets the first, one whose disk neither fills nor fails the second. Where a row assumes neither, the theorem holds
of every number of threads and every fault.

**Reading by pages.** The place of a row in any order a query may return is the number of rows that come no later
(`Below`, `Places`), if none are tied. For `NothingMissed`, a course that was there and is still to be shown has more such
rows than were shown (`Missing`): additions only raise the number, so the next offset never passes it, and at the empty
page nothing is left. For `NothingTwice`, what was shown is in order, and no more rows than were shown come up to the last of
it (`Ordered`): deletions only lower the number, so that the next page begins after it. Uncommitted changes count like
others, since the queries see them; BEGIN and COMMIT change no row, and a ROLLBACK that changes one is noted as
"undone" (`TxStep`), which both properties exclude. TLC found both invariants true on the instance of `listing`
before they were proved.

**Text.** `Split` is a fold and `FlattenSeq` a recursive function, so what they compute needs induction over the data.
The induction theorems of the library take a predicate, which the provers cannot instantiate; `NatSets` and `SeqSets`
say the same of a *set* that contains the empty sequence and with each sequence its extensions, from the
well-foundedness of the numbers. That the recursive functions exist is proved for them too (`SplitFoldExists`,
`FlatteningExists`): nothing is taken on trust.

**Histories.** `CourseLedger` and `AdminLedger` only add variables to the modules they observe, so each of their steps is one
of these (`LedgerStep`), and the invariants proved of them carry over.

Only model-checked: everything under fairness (`EveryRequestAnswered`, `TransactionEnds`, `ShutdownCompletes`,
`EveryCallSettles`, `AbandonedThreadsEnd`), which is beyond this prover. Every invariant and every action property that a
passing run checks is proved.

## 5. What is not modelled

* Encryption, MAC and keys: pure functions over OpenSSL. Two ends with different keys or versions cannot talk at all.
* The texts of lines: `tsv_split`, `join_courses_tsv`, `repl_split`, help. A message is its verb and its result.
* Request numbers and time stamps: written, never read.
* A host that vanishes without a reset, see the fairness of `Exchange`.
* `delete_schedule`, `count_courses`, `send_response_c`: nothing calls them. `send_response_s` refuses an empty answer,
  which no handler gives; `ReplyHeader` may end the connection anyway.
* Handlers' checks of missing and empty fields: they answer with an error and change nothing; `Enter` of `Server` has
  them as a request that needs no repository.
* Failures before the server listens: main returns 1, nothing runs yet. Threads that cannot be created: the program
  terminates, see the hazards.
* Physical effects of using a freed connection: the process may end there, or the call may work on; no more is said.
* Courses that import scripts put into the file before the server starts: `Init` is the empty file; a loaded one is
  reached from it by adds.

## 6. Plan

Done, in this order: the course repository and its abstract store; accounts; the lifecycle; the exchange and its
abstract call; the bridge's output; the paged reading; the theorems of all but the bridge's output.

Left, the most important first:

1. The part of the liveness properties that is no liveness: that each fair step brings its process nearer to its end (a
   decreasing measure), and that no other process takes it back, as action properties.
2. Weaker hypotheses where the code allows them, as in `NobodyDeletesItself`.
3. The texts of the bridge (`tsv_split`, `join_courses_tsv`) over the lemmas about `Split`, with the fields that break
   them.
4. The shutdown of `Server` composed with `Exchange`: what a client sees of a call that is under way when the process
   ends.
