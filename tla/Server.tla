-------------------------------- MODULE Server --------------------------------
(***************************************************************************)
(* The life of the server process (programs/Server/src/server_main.cpp):   *)
(* the accept loop of main(), the detached thread of each client, the      *)
(* threads in which Windows runs the console and signal handlers, and what *)
(* they share without a lock: sockets, g_running, g_listen_sock and the    *)
(* two database connections.                                               *)
(*                                                                         *)
(* A socket is a handle that the system gives out again once it is closed, *)
(* so whoever closes a handle twice closes somebody else's connection.     *)
(* What a request does is in CourseRepository and AdminAccounts.           *)
(***************************************************************************)
CONSTANTS
    Threads,    \* client threads alive at one time: a bound, the code has none
    Stoppers,   \* system threads that run a console or signal handler
    Handles,    \* socket handles
    Repos,      \* the repositories, one connection each, in closing order
    None        \* INVALID_SOCKET; no repository

ASSUME NoneAssumption   == None \notin Handles \cup Repos
ASSUME OwnerAssumption  == /\ Threads \cap Stoppers = {}
                           /\ {"global", "sh", "s"} \cap (Threads \cup Stoppers) = {}

VARIABLES
    running,    \* g_running
    sock,       \* what the system has under each handle
    own,        \* the handle in each variable that has to be closed
    lsock,      \* listen_sock, main's copy of the handle it listens on
    main,       \* where main() is
    stop,       \* where each handler thread is
    tpc,        \* where each client thread is
    uses,       \* the repository whose connection the thread has got hold of
    conn        \* the connections

vars == <<running, sock, own, lsock, main, stop, tpc, uses, conn>>

\* g_listen_sock, sh and s of main(), s of request_shutdown(), and the
\* SocketHandler of each client thread.
Owners == {"global", "sh", "s"} \cup Threads \cup Stoppers

MainLabels   == {"loop", "accept", "failed", "spawn", "drop", "exchange",
                 "close", "databases", "return", "exited"}
StopLabels   == {"idle", "exchange", "close"}
ThreadLabels == {"none", "recv", "enter", "held", "stmt", "send", "end"}

\* sqlite3_close frees a connection ("closed") or leaves it open because a
\* statement was not finished ("busy": SQLITE_BUSY, not looked at); next, db_
\* becomes null ("freed", "leaked").
ConnStates == {"open", "closed", "busy", "freed", "leaked"}
Gone       == {"closed", "freed"}
NullHandle == {"freed", "leaked"}

Alive    == main # "exited"
Free     == {h \in Handles : sock[h] = "free"}
Finished == {t \in Threads : tpc[t] = "none"}

-----------------------------------------------------------------------------
(* Sockets. *)

\* closesocket, if o has a socket; o is out of scope afterwards.
Close(o) ==
    /\ sock' = IF own[o] = None THEN sock ELSE [sock EXCEPT ![own[o]] = "free"]
    /\ own'  = [own EXCEPT ![o] = None]

\* Mutant: load() in place of exchange().
TakenCopy(o) == [own EXCEPT ![o] = own["global"]]

\* g_listen_sock.exchange(INVALID_SOCKET): one caller gets the listener.
Taken(o) == [own EXCEPT ![o] = own["global"], !["global"] = None]

\* Mutant: the moved-from SocketHandler keeps its socket.
MovedCopy(t) == [own EXCEPT ![t] = own["sh"]]

\* The move of sh into the thread.
Moved(t) == [own EXCEPT ![t] = own["sh"], !["sh"] = None]

-----------------------------------------------------------------------------
(* main(). *)

MainGoto(label) == main' = label

Loop ==
    /\ main = "loop"
    /\ MainGoto(IF running THEN "accept" ELSE "exchange")
    /\ UNCHANGED <<running, sock, own, lsock, stop, tpc, uses, conn>>

\* A client connects and accept() returns its socket.
AcceptClient ==
    /\ main = "accept" /\ sock[lsock] = "listen" /\ Finished # {}
    /\ \E h \in Free :
          /\ sock' = [sock EXCEPT ![h] = "client"]
          /\ own'  = [own EXCEPT !["sh"] = h]
    /\ MainGoto("spawn")
    /\ UNCHANGED <<running, lsock, stop, tpc, uses, conn>>

AcceptFails(listening) ==
    /\ main = "accept" /\ listening = (sock[lsock] = "listen")
    /\ MainGoto("failed")
    /\ UNCHANGED <<running, sock, own, lsock, stop, tpc, uses, conn>>

\* accept() fails: because the listener is closed, or for some other reason.
AcceptOnClosed == AcceptFails(FALSE)
AcceptError    == AcceptFails(TRUE)

\* Mutant: every failure of accept() ends the loop.
FailedBreaks ==
    /\ main = "failed"
    /\ MainGoto("exchange")
    /\ UNCHANGED <<running, sock, own, lsock, stop, tpc, uses, conn>>

Failed ==
    /\ main = "failed"
    /\ MainGoto(IF running THEN "loop" ELSE "exchange")
    /\ UNCHANGED <<running, sock, own, lsock, stop, tpc, uses, conn>>

Spawn ==
    /\ main = "spawn"
    /\ \E t \in Finished :
          /\ own' = Moved(t)
          /\ tpc' = [tpc EXCEPT ![t] = "recv"]
    /\ MainGoto("drop")
    /\ UNCHANGED <<running, sock, lsock, stop, uses, conn>>

\* ~SocketHandler of sh at the end of the loop's body.
Drop ==
    /\ main = "drop"
    /\ Close("sh")
    /\ MainGoto("loop")
    /\ UNCHANGED <<running, lsock, stop, tpc, uses, conn>>

TakeListener ==
    /\ main = "exchange"
    /\ own' = Taken("s")
    /\ MainGoto("close")
    /\ UNCHANGED <<running, sock, lsock, stop, tpc, uses, conn>>

CloseListener ==
    /\ main = "close"
    /\ Close("s")
    /\ MainGoto("databases")
    /\ UNCHANGED <<running, lsock, stop, tpc, uses, conn>>

\* Database::close of the next repository, whoever is using it: sqlite3_close.
CloseDatabase(r) ==
    /\ main = "databases" /\ conn[r] = "open"
    /\ \A q \in Repos : conn[q] \notin {"closed", "busy"}
    /\ conn' = [conn EXCEPT ![r] =
                   IF \E t \in Threads : tpc[t] = "stmt" /\ uses[t] = r
                   THEN "busy" ELSE "closed"]
    /\ UNCHANGED <<running, sock, own, lsock, main, stop, tpc, uses>>

\* Database::close: db_ = nullptr.
ForgetDatabase(r) ==
    /\ main = "databases" /\ conn[r] \in {"closed", "busy"}
    /\ conn' = [conn EXCEPT ![r] = IF @ = "closed" THEN "freed" ELSE "leaked"]
    /\ UNCHANGED <<running, sock, own, lsock, main, stop, tpc, uses>>

DatabasesClosed ==
    /\ main = "databases" /\ \A r \in Repos : conn[r] \in NullHandle
    /\ MainGoto("return")
    /\ UNCHANGED <<running, sock, own, lsock, stop, tpc, uses, conn>>

\* The process ends: its threads stop where they are, the system closes its
\* sockets.
Exit ==
    /\ main' = "exited"
    /\ sock' = [h \in Handles |-> "free"]
    /\ own'  = [o \in Owners |-> None]
    /\ stop' = [s \in Stoppers |-> "idle"]
    /\ tpc'  = [t \in Threads |-> "none"]
    /\ uses' = [t \in Threads |-> None]
    /\ UNCHANGED <<running, lsock, conn>>

Return == main = "return" /\ Exit

-----------------------------------------------------------------------------
(* request_shutdown(), in a thread of the system for each event. *)

Request(s) ==
    /\ Alive /\ stop[s] = "idle"
    /\ running' = FALSE
    /\ stop' = [stop EXCEPT ![s] = "exchange"]
    /\ UNCHANGED <<sock, own, lsock, main, tpc, uses, conn>>

StopperTakes(s) ==
    /\ stop[s] = "exchange"
    /\ own' = Taken(s)
    /\ stop' = [stop EXCEPT ![s] = "close"]
    /\ UNCHANGED <<running, sock, lsock, main, tpc, uses, conn>>

\* Mutant: request_shutdown only clears g_running.
StopperForgets(s) ==
    /\ stop[s] = "close"
    /\ stop' = [stop EXCEPT ![s] = "idle"]
    /\ UNCHANGED <<running, sock, own, lsock, main, tpc, uses, conn>>

StopperCloses(s) ==
    /\ stop[s] = "close"
    /\ Close(s)
    /\ stop' = [stop EXCEPT ![s] = "idle"]
    /\ UNCHANGED <<running, lsock, main, tpc, uses, conn>>

-----------------------------------------------------------------------------
(* handle_client() and the repositories, as far as the connection goes. *)

ThreadGoto(t, label) ==
    /\ tpc' = [tpc EXCEPT ![t] = label]
    /\ UNCHANGED <<running, sock, own, lsock, main, stop, conn>>

\* A request arrives, or the connection is over.
Receive(t) ==
    /\ tpc[t] = "recv"
    /\ ThreadGoto(t, "enter") \/ ThreadGoto(t, "end")
    /\ UNCHANGED uses

\* raw_handle(): a null db_ is answered with an error.  A login that lacks a
\* field, and the like, needs no repository.
Enter(t) ==
    /\ tpc[t] = "enter"
    /\ \/ \E r \in Repos : /\ conn[r] \notin NullHandle
                           /\ uses' = [uses EXCEPT ![t] = r]
                           /\ ThreadGoto(t, "held")
       \/ UNCHANGED uses /\ ThreadGoto(t, "send")

\* sqlite3_prepare_v2 with the handle got before.
Prepare(t) ==
    /\ tpc[t] = "held"
    /\ \/ ThreadGoto(t, "stmt") /\ UNCHANGED uses
       \/ conn[uses[t]] \in Gone /\ Exit

\* sqlite3_finalize: another statement follows, or the method returns.
Finalize(t) ==
    /\ tpc[t] = "stmt"
    /\ \/ ThreadGoto(t, "held") /\ UNCHANGED uses
       \/ /\ uses' = [uses EXCEPT ![t] = None]
          /\ ThreadGoto(t, "enter") \/ ThreadGoto(t, "send")

Send(t) ==
    /\ tpc[t] = "send"
    /\ ThreadGoto(t, "recv") \/ ThreadGoto(t, "end")
    /\ UNCHANGED uses

\* handle_client returns: ~SocketHandler of its parameter.
End(t) ==
    /\ tpc[t] = "end"
    /\ Close(t)
    /\ tpc' = [tpc EXCEPT ![t] = "none"]
    /\ UNCHANGED <<running, lsock, main, stop, uses, conn>>

-----------------------------------------------------------------------------

\* main() has called create_listener, stored the socket and installed the
\* handlers.
Init ==
    /\ running = TRUE
    /\ lsock \in Handles
    /\ sock = [h \in Handles |-> IF h = lsock THEN "listen" ELSE "free"]
    /\ own  = [o \in Owners |-> IF o = "global" THEN lsock ELSE None]
    /\ main = "loop"
    /\ stop = [s \in Stoppers |-> "idle"]
    /\ tpc  = [t \in Threads |-> "none"]
    /\ uses = [t \in Threads |-> None]
    /\ conn = [r \in Repos |-> "open"]

\* The steps of main() that wait for nobody outside the process.
MainRuns ==
    \/ Loop \/ AcceptOnClosed \/ Failed \/ Spawn \/ Drop
    \/ TakeListener \/ CloseListener
    \/ \E r \in Repos : CloseDatabase(r) \/ ForgetDatabase(r)
    \/ DatabasesClosed \/ Return

StopperRuns(s) == StopperTakes(s) \/ StopperCloses(s)

ThreadRuns(t) == \/ Receive(t) \/ Enter(t) \/ Prepare(t) \/ Finalize(t)
                 \/ Send(t) \/ End(t)

Next ==
    \/ MainRuns \/ AcceptClient \/ AcceptError
    \/ \E s \in Stoppers : Request(s) \/ StopperRuns(s)
    \/ \E t \in Threads : ThreadRuns(t)

Spec == Init /\ [][Next]_vars

\* The system schedules main() and the handler threads.  Nothing is assumed of
\* clients: none need connect, none need send, none need leave.
FairSpec == Spec /\ WF_vars(MainRuns) /\ \A s \in Stoppers : WF_vars(StopperRuns(s))

-----------------------------------------------------------------------------
(* Properties. *)

TypeOK ==
    /\ running \in BOOLEAN
    /\ sock  \in [Handles -> {"free", "listen", "client"}]
    /\ own   \in [Owners -> Handles \cup {None}]
    /\ lsock \in Handles
    /\ main  \in MainLabels
    /\ stop  \in [Stoppers -> StopLabels]
    /\ tpc   \in [Threads -> ThreadLabels]
    /\ uses  \in [Threads -> Repos \cup {None}]
    /\ conn  \in [Repos -> ConnStates]

\* Every open socket has exactly one owner, who will close it, and no owner has
\* a socket that is closed: whatever the order of the end of a client, the
\* moves of its SocketHandler and several shutdown requests at once, no socket
\* leaks and none is closed twice, which would close the next one to get its
\* handle.
SocketsOwnedOnce ==
    /\ \A o, p \in Owners : own[o] # None /\ own[o] = own[p] => o = p
    /\ \A h \in Handles : sock[h] # "free" <=> \E o \in Owners : own[o] = h

\* A client thread has its connection as long as it runs: neither main() nor a
\* shutdown closes it under the thread.
ThreadsHaveSockets ==
    \A t \in Threads : tpc[t] # "none" =>
        own[t] # None /\ own[t] # lsock /\ sock[own[t]] = "client"

\* The server listens until somebody asked it to stop, and leaves its loop only
\* then: a failed accept() does not end it, and a shutdown is announced before
\* the listener goes away.
ServesUntilAsked ==
    running => /\ sock[lsock] = "listen"
               /\ main \in {"loop", "accept", "failed", "spawn", "drop"}

\* A request to shut down ends the process, even if no client ever connects
\* again: the accept() that main() waits in, or is about to call, returns.
ShutdownCompletes == ~running ~> main = "exited"

\* No thread uses a connection that main() has closed.
NoUseAfterClose ==
    \A t \in Threads : tpc[t] \in {"held", "stmt"} => conn[uses[t]] \notin Gone

=============================================================================
