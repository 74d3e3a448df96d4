------------------------------- MODULE Exchange -------------------------------
(***************************************************************************)
(* A line typed to the client becomes a request, crosses a connection, is  *)
(* decided by the thread that serves the connection, and the answer comes  *)
(* back: the bridge and the REPL (client_main.cpp), the calls of the       *)
(* client (Client/src/cmdreg.cpp, connect_to.cpp), the packages            *)
(* (protocol.cpp, SocketHandler.cpp), handle_client() and the dispatcher.  *)
(*                                                                         *)
(* A package is a header, with the length of the body, and a body.  There  *)
(* is no retry, no time limit and no comparison of request numbers: what   *)
(* ties an answer to its request is its place in the stream.  Both ends    *)
(* have the same key and version.  What handlers do to the databases is in *)
(* CourseRepository and AdminAccounts.                                     *)
(***************************************************************************)
EXTENDS Naturals, Sequences

CONSTANTS
    Clients,    \* client processes
    MaxConns,   \* connections that are made: a bound
    MaxCalls    \* lines that ask the server for something: a bound

ASSUME BoundsAssumption == MaxConns \in Nat /\ MaxCalls \in Nat

\* Connections in the order they are made, and a null socket.
Conns == 1 .. MaxConns
None  == 0

VARIABLES
    cpc,        \* where each client is
    sock,       \* the connection it has
    request,    \* the request it is making
    trusted,    \* the client was told OK by a LOGIN on its connection
    tpc,        \* where the thread that serves each connection is
    role,       \* session.role of that thread
    work,       \* the request it has, then the answer to it
    toServer,   \* what is under way on each connection
    toClient,
    broken,     \* the connection was reset
    fate,       \* what became of each call, in the order they were asked
    outcome,    \* what the dispatcher decided on it
    log         \* the calls whose handlers ran, in that order

clientVars == <<cpc, sock, request, trusted>>
threadVars == <<tpc, role, work>>
netVars    == <<toServer, toClient, broken>>
callVars   == <<fate, outcome, log>>
vars       == <<clientVars, threadVars, netVars, callVars>>

Verbs   == {"LOGIN", "LOGOUT", "QUERY", "EDIT"}
Results == {"ok", "data", "error", "denied"}

\* MsgBody, and whether its ciphertext is within MAX_BODY.
Messages == [call : 0 .. MaxCalls, says : Verbs \cup Results \cup {"none"}, fits : BOOLEAN]
Nothing  == [call |-> 0, says |-> "none", fits |-> TRUE]
Parts    == [part : {"header", "body"}, of : Messages]

ClientLabels == {"line", "sendHeader", "sendBody", "recvHeader", "recvBody"}
ThreadLabels == {"unused", "backlog", "recvHeader", "recvBody", "dispatch",
                 "sendHeader", "sendBody", "closed"}

ClientEnd(k) == \E c \in Clients : sock[c] = k
ServerEnd(k) == tpc[k] \notin {"unused", "closed"}
Dead(k)      == broken[k] \/ ~ClientEnd(k) \/ ~ServerEnd(k)

-----------------------------------------------------------------------------
(* send() and recv().  On a connection that is broken or closed by the     *)
(* other end they may fail at any time; until then what is sent is lost    *)
(* and what had arrived may still be read.                                 *)

Sent(queue, k, p) == IF Dead(k) THEN queue ELSE [queue EXCEPT ![k] = Append(@, p)]
Read(queue, k)    == [queue EXCEPT ![k] = Tail(@)]
Drained(queue, k) == [queue EXCEPT ![k] = <<>>]

\* Package_receive: a header of this version whose length is within MAX_BODY.
Accepts(p) == p.part = "header" /\ p.of.fits

-----------------------------------------------------------------------------
(* The client between two lines. *)

\* A line of stdin that is dealt with without asking the server.
Local(c) == cpc[c] = "line" /\ UNCHANGED <<cpc, request, callVars>>

\* The client's socket, if it has one, is closed; what it did not read is gone.
Hangup(c) ==
    toClient' = IF sock[c] = None THEN toClient ELSE Drained(toClient, sock[c])

\* An empty line, not connected, a field is missing, an unknown verb, or
\* connect() failed: the client keeps the socket it had.
Refused(c) == Local(c) /\ UNCHANGED <<sock, trusted, threadVars, netVars>>

\* Mutant: the session of the old connection is taken over.
ConnectKeepsTrust(c) ==
    /\ Local(c)
    /\ Hangup(c)
    /\ \E k \in Conns :
          /\ tpc[k] = "unused" /\ \A j \in 1 .. k - 1 : tpc[j] # "unused"
          /\ sock' = [sock EXCEPT ![c] = k]
          /\ tpc'  = [tpc EXCEPT ![k] = "backlog"]
    /\ UNCHANGED <<trusted, role, work, toServer, broken>>

\* connect() succeeded: the new socket replaces the old one.
Connect(c) ==
    /\ Local(c)
    /\ Hangup(c)
    /\ \E k \in Conns :
          /\ tpc[k] = "unused" /\ \A j \in 1 .. k - 1 : tpc[j] # "unused"
          /\ sock' = [sock EXCEPT ![c] = k]
          /\ tpc'  = [tpc EXCEPT ![k] = "backlog"]
    /\ trusted' = [trusted EXCEPT ![c] = FALSE]
    /\ UNCHANGED <<role, work, toServer, broken>>

Disconnect(c) ==
    /\ Local(c)
    /\ Hangup(c)
    /\ sock' = [sock EXCEPT ![c] = None]
    /\ trusted' = [trusted EXCEPT ![c] = FALSE]
    /\ UNCHANGED <<threadVars, toServer, broken>>

-----------------------------------------------------------------------------
(* send_and_recv. *)

Ask(c) ==
    /\ cpc[c] = "line" /\ sock[c] # None /\ Len(fate) < MaxCalls
    /\ \E verb \in Verbs, fits \in BOOLEAN :
          /\ fits \/ verb # "LOGOUT"
          /\ request' = [request EXCEPT ![c] = [call |-> Len(fate) + 1,
                                                says |-> verb, fits |-> fits]]
    /\ fate' = Append(fate, "pending")
    /\ outcome' = Append(outcome, "none")
    /\ cpc' = [cpc EXCEPT ![c] = "sendHeader"]
    /\ UNCHANGED <<sock, trusted, threadVars, netVars, log>>

Goto(c, label) ==
    /\ cpc' = [cpc EXCEPT ![c] = label]
    /\ UNCHANGED <<sock, request, trusted, threadVars, broken, callVars>>

\* The call ends, the client reads the next line.
Settle(c, what) ==
    /\ fate' = [fate EXCEPT ![request[c].call] = what]
    /\ cpc' = [cpc EXCEPT ![c] = "line"]
    /\ request' = [request EXCEPT ![c] = Nothing]
    /\ UNCHANGED <<threadVars, toServer, broken, outcome, log>>

\* Mutant: the socket is kept after a failed call.
FailKeepsSock(c) ==
    /\ Settle(c, "failed")
    /\ UNCHANGED <<sock, trusted, toClient>>

\* Mutant: the call is made again on another connection.
FailRetries(c) ==
    /\ Hangup(c)
    /\ \E k \in Conns :
          /\ tpc[k] = "unused"
          /\ sock' = [sock EXCEPT ![c] = k]
          /\ tpc'  = [tpc EXCEPT ![k] = "backlog"]
    /\ cpc' = [cpc EXCEPT ![c] = "sendHeader"]
    /\ trusted' = [trusted EXCEPT ![c] = FALSE]
    /\ UNCHANGED <<request, role, work, toServer, broken, callVars>>

\* The line is answered with ERR and the socket dropped.
Fail(c) ==
    /\ Settle(c, "failed")
    /\ Hangup(c)
    /\ sock' = [sock EXCEPT ![c] = None]
    /\ trusted' = [trusted EXCEPT ![c] = FALSE]

\* send_body: the header follows when the body has been encrypted, which may
\* fail.
SendHeader(c) ==
    /\ cpc[c] = "sendHeader"
    /\ \/ /\ toServer' = Sent(toServer, sock[c], [part |-> "header", of |-> request[c]])
          /\ Goto(c, "sendBody") /\ UNCHANGED toClient
       \/ Fail(c)

SendBody(c) ==
    /\ cpc[c] = "sendBody"
    /\ \/ /\ toServer' = Sent(toServer, sock[c], [part |-> "body", of |-> request[c]])
          /\ Goto(c, "recvHeader") /\ UNCHANGED toClient
       \/ Dead(sock[c]) /\ Fail(c)

RecvHeader(c) ==
    /\ cpc[c] = "recvHeader"
    /\ \/ /\ toClient[sock[c]] # <<>> /\ Accepts(Head(toClient[sock[c]]))
          /\ toClient' = Read(toClient, sock[c])
          /\ Goto(c, "recvBody") /\ UNCHANGED toServer
       \/ /\ toClient[sock[c]] # <<>> /\ ~Accepts(Head(toClient[sock[c]]))
          /\ Fail(c)
       \/ Dead(sock[c]) /\ Fail(c)

\* emit_resp.  The user knows what the answers to LOGIN and LOGOUT mean.
Answered(c, a) ==
    /\ Settle(c, a.says)
    /\ toClient' = Read(toClient, sock[c])
    /\ trusted' = [trusted EXCEPT ![c] =
          IF a.says = "ok" /\ request[c].says \in {"LOGIN", "LOGOUT"}
          THEN request[c].says = "LOGIN" ELSE @]
    /\ UNCHANGED sock

\* The body of the answer is decoded, or cannot be, or does not come.
RecvBody(c) ==
    /\ cpc[c] = "recvBody"
    /\ \/ toClient[sock[c]] # <<>> /\ Answered(c, Head(toClient[sock[c]]).of)
       \/ (Dead(sock[c]) \/ toClient[sock[c]] # <<>>) /\ Fail(c)

\* The process of the client ends, with QUIT or in the middle of a call, and
\* another one is started.
Restart(c) ==
    /\ Hangup(c)
    /\ sock' = [sock EXCEPT ![c] = None]
    /\ trusted' = [trusted EXCEPT ![c] = FALSE]
    /\ IF cpc[c] = "line"
       THEN Local(c) /\ UNCHANGED <<threadVars, toServer, broken>>
       ELSE Settle(c, "failed")

-----------------------------------------------------------------------------
(* handle_client(), the thread of a connection. *)

ThreadGoto(k, label) ==
    /\ tpc' = [tpc EXCEPT ![k] = label]
    /\ UNCHANGED <<clientVars, role, broken>>

\* handle_client returns: its session is gone and its socket closed.
End(k) ==
    /\ tpc'  = [tpc EXCEPT ![k] = "closed"]
    /\ role' = [role EXCEPT ![k] = "STUDENT"]
    /\ work' = [work EXCEPT ![k] = Nothing]
    /\ toServer' = Drained(toServer, k)
    /\ UNCHANGED <<clientVars, toClient, broken, callVars>>

Accept(k) ==
    /\ tpc[k] = "backlog"
    /\ ThreadGoto(k, "recvHeader")
    /\ UNCHANGED <<work, toServer, toClient, callVars>>

\* Mutant: a package that is refused does not end the connection.
TakeHeaderContinues(k) ==
    /\ tpc[k] = "recvHeader"
    /\ \/ /\ toServer[k] # <<>>
          /\ toServer' = Read(toServer, k)
          /\ ThreadGoto(k, IF Accepts(Head(toServer[k])) THEN "recvBody" ELSE "recvHeader")
          /\ UNCHANGED <<work, toClient, callVars>>
       \/ Dead(k) /\ End(k)

\* Mutant: a receive that failed is tried again.
TakeHeaderRetries(k) ==
    /\ tpc[k] = "recvHeader"
    /\ \/ /\ toServer[k] # <<>> /\ Accepts(Head(toServer[k]))
          /\ toServer' = Read(toServer, k)
          /\ ThreadGoto(k, "recvBody")
          /\ UNCHANGED <<work, toClient, callVars>>
       \/ toServer[k] # <<>> /\ ~Accepts(Head(toServer[k])) /\ End(k)

TakeHeader(k) ==
    /\ tpc[k] = "recvHeader"
    /\ \/ /\ toServer[k] # <<>> /\ Accepts(Head(toServer[k]))
          /\ toServer' = Read(toServer, k)
          /\ ThreadGoto(k, "recvBody")
          /\ UNCHANGED <<work, toClient, callVars>>
       \/ toServer[k] # <<>> /\ ~Accepts(Head(toServer[k])) /\ End(k)
       \/ Dead(k) /\ End(k)

\* The body of the request is decoded, or cannot be, or does not come.
TakeBody(k) ==
    /\ tpc[k] = "recvBody"
    /\ \/ /\ toServer[k] # <<>>
          /\ work' = [work EXCEPT ![k] = Head(toServer[k]).of]
          /\ toServer' = Read(toServer, k)
          /\ ThreadGoto(k, "dispatch")
          /\ UNCHANGED <<toClient, callVars>>
       \/ (Dead(k) \/ toServer[k] # <<>>) /\ End(k)

\* What dispatch() and the handler may decide, the role they leave, and whether
\* the answer is within MAX_BODY: lists have no limit.  QUERY stands for the
\* requests that students may make, EDIT for those that need ADMIN, of which
\* ADMIN_LIST is answered with data.  A handler that throws is answered with an
\* error.
Decisions(verb, r) ==
    CASE verb = "LOGIN"  -> {<<"ok", "ADMIN", TRUE>>, <<"error", r, TRUE>>}
      [] verb = "LOGOUT" -> {<<"ok", "STUDENT", TRUE>>}
      [] verb = "QUERY"  -> {<<"data", r, TRUE>>, <<"data", r, FALSE>>, <<"error", r, TRUE>>}
      [] verb = "EDIT"   -> IF r = "ADMIN"
                            THEN {<<"ok", r, TRUE>>, <<"data", r, TRUE>>,
                                  <<"data", r, FALSE>>, <<"error", r, TRUE>>}
                            ELSE {<<"denied", r, TRUE>>}

Dispatch(k) ==
    /\ tpc[k] = "dispatch"
    /\ \E d \in Decisions(work[k].says, role[k]) :
          /\ work' = [work EXCEPT ![k] = [call |-> work[k].call, says |-> d[1], fits |-> d[3]]]
          /\ role' = [role EXCEPT ![k] = d[2]]
          /\ outcome' = [outcome EXCEPT ![work[k].call] = d[1]]
          /\ log' = IF d[1] = "denied" THEN log ELSE Append(log, work[k].call)
    /\ tpc' = [tpc EXCEPT ![k] = "sendHeader"]
    /\ UNCHANGED <<clientVars, netVars, fate>>

\* send_response_s, send_body: the length of the body is not checked.
ReplyHeader(k) ==
    /\ tpc[k] = "sendHeader"
    /\ \/ /\ toClient' = Sent(toClient, k, [part |-> "header", of |-> work[k]])
          /\ ThreadGoto(k, "sendBody")
          /\ UNCHANGED <<work, toServer, callVars>>
       \/ End(k)

ReplyBody(k) ==
    /\ tpc[k] = "sendBody"
    /\ \/ /\ toClient' = Sent(toClient, k, [part |-> "body", of |-> work[k]])
          /\ work' = [work EXCEPT ![k] = Nothing]
          /\ ThreadGoto(k, "recvHeader")
          /\ UNCHANGED <<toServer, callVars>>
       \/ Dead(k) /\ End(k)

-----------------------------------------------------------------------------
(* What happens to connections and to the server. *)

Break(k) ==
    /\ ClientEnd(k) \/ ServerEnd(k)
    /\ ~broken[k]
    /\ broken' = [broken EXCEPT ![k] = TRUE]
    /\ UNCHANGED <<clientVars, threadVars, toServer, toClient, callVars>>

\* The server's process ends, with all its threads, and is started again.
ServerRestarts ==
    /\ tpc'  = [k \in Conns |-> IF ServerEnd(k) THEN "closed" ELSE tpc[k]]
    /\ role' = [k \in Conns |-> "STUDENT"]
    /\ work' = [k \in Conns |-> Nothing]
    /\ toServer' = [k \in Conns |-> <<>>]
    /\ UNCHANGED <<clientVars, toClient, broken, callVars>>

-----------------------------------------------------------------------------

Init ==
    /\ cpc      = [c \in Clients |-> "line"]
    /\ sock     = [c \in Clients |-> None]
    /\ request  = [c \in Clients |-> Nothing]
    /\ trusted  = [c \in Clients |-> FALSE]
    /\ tpc      = [k \in Conns |-> "unused"]
    /\ role     = [k \in Conns |-> "STUDENT"]
    /\ work     = [k \in Conns |-> Nothing]
    /\ toServer = [k \in Conns |-> <<>>]
    /\ toClient = [k \in Conns |-> <<>>]
    /\ broken   = [k \in Conns |-> FALSE]
    /\ fate = <<>> /\ outcome = <<>> /\ log = <<>>

\* A client that has a call under way, and the thread of a connection.
ClientRuns(c) == SendHeader(c) \/ SendBody(c) \/ RecvHeader(c) \/ RecvBody(c)
ThreadRuns(k) == \/ Accept(k) \/ TakeHeader(k) \/ TakeBody(k) \/ Dispatch(k)
                 \/ ReplyHeader(k) \/ ReplyBody(k)
Reads(c)      == Refused(c) \/ Connect(c) \/ Disconnect(c) \/ Ask(c)

Next ==
    \/ \E c \in Clients : Reads(c) \/ ClientRuns(c) \/ Restart(c)
    \/ \E k \in Conns : ThreadRuns(k) \/ Break(k)
    \/ ServerRestarts

Spec == Init /\ [][Next]_vars

\* The processes are scheduled and the reset of a connection reaches both its
\* ends.  Nothing is assumed of the user, of connections or of the server's
\* staying up.
FairSpec ==
    /\ Spec
    /\ \A c \in Clients : WF_vars(ClientRuns(c))
    /\ \A k \in Conns : WF_vars(ThreadRuns(k))

-----------------------------------------------------------------------------
(* Properties. *)

TypeOK ==
    /\ cpc \in [Clients -> ClientLabels]
    /\ sock \in [Clients -> Conns \cup {None}]
    /\ request \in [Clients -> Messages]
    /\ trusted \in [Clients -> BOOLEAN]
    /\ tpc \in [Conns -> ThreadLabels]
    /\ role \in [Conns -> {"STUDENT", "ADMIN"}]
    /\ work \in [Conns -> Messages]
    /\ toServer \in [Conns -> Seq(Parts)]
    /\ toClient \in [Conns -> Seq(Parts)]
    /\ broken \in [Conns -> BOOLEAN]
    /\ fate \in Seq({"pending", "failed"} \cup Results)
    /\ outcome \in Seq({"none"} \cup Results)
    /\ log \in Seq(1 .. MaxCalls)
    /\ Len(fate) = Len(outcome) /\ Len(fate) <= MaxCalls

\* Whoever drives the client knows what the session may do: between two lines
\* the session of the client's connection is an administrator's exactly if a
\* LOGIN was answered with OK since the client connected, and no LOGOUT since.
\* A call that failed takes the login with it (client_main.cpp:102), though the
\* server may have carried it out.
RolesAgree ==
    \A c \in Clients : cpc[c] = "line" /\ sock[c] # None /\ ServerEnd(sock[c]) =>
        (role[sock[c]] = "ADMIN" <=> trusted[c])

\* Between two lines nothing is left in either direction of the client's
\* connection, not even the body of an answer that was refused because of its
\* header: the next answer read is the next one sent.
NothingUnread ==
    \A c \in Clients : cpc[c] = "line" /\ sock[c] # None =>
        /\ toClient[sock[c]] = <<>> /\ toServer[sock[c]] = <<>>
        /\ tpc[sock[c]] \in {"backlog", "recvHeader", "closed"}

\* The answer to a call is what the server decided on that call, not on another
\* one, and each call is decided at most once, whatever breaks in between,
\* abandoned calls included.
CallSpec == INSTANCE Call
ImplementsCall == CallSpec!Spec

\* Every line that asks for something is answered or fails: no refused package,
\* closed connection or ended server leaves the client waiting.
EveryCallSettles ==
    \A c \in Clients : cpc[c] # "line" ~> cpc[c] = "line"

\* The thread and the session of a client that has gone do not stay, wherever
\* in a request the client left: handle_client has no other way to end than a
\* receive or a send that fails.
AbandonedThreadsEnd ==
    \A k \in Conns : tpc[k] # "unused" /\ ~ClientEnd(k) ~> tpc[k] = "closed"

=============================================================================
