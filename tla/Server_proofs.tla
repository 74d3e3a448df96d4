---------------------------- MODULE Server_proofs ----------------------------
(***************************************************************************)
(* Proofs about Server: for any number of client threads, handler threads, *)
(* sockets and repositories, each socket has one owner and the server      *)
(* listens until it is asked to stop.                                      *)
(***************************************************************************)
EXTENDS Server, TLAPS

-----------------------------------------------------------------------------
(* The inductive invariant: who may own what, and where. *)

\* A variable that is about to be overwritten holds nothing: each has a socket
\* only in the part of the program that deals with it.
InPlace ==
    /\ own["global"] \in {lsock, None}
    /\ own["sh"] # None <=> main = "spawn"
    /\ own["s"] # None => main = "close"
    /\ \A s \in Stoppers : own[s] # None => stop[s] = "close"
    /\ \A t \in Threads : own[t] # None <=> tpc[t] # "none"

\* Client threads and sh have sockets of clients, never the listener.
OfClients ==
    /\ sock[lsock] # "client"
    /\ \A o \in Threads \cup {"sh"} : own[o] # None => sock[own[o]] = "client"

Unique  == \A o, p \in Owners : own[o] # None /\ own[o] = own[p] => o = p
Covered == \A h \in Handles : sock[h] # "free" <=> \E o \in Owners : own[o] = h

\* Until it is asked to stop, nobody has begun to stop the server.
NotStopping ==
    running => /\ sock[lsock] = "listen"
               /\ own["global"] = lsock
               /\ main \in {"loop", "accept", "failed", "spawn", "drop"}
               /\ \A s \in Stoppers : stop[s] = "idle"
               /\ \A r \in Repos : conn[r] = "open"

UsesType == \A t \in Threads : tpc[t] \in {"held", "stmt"} => uses[t] \in Repos

Owned == Unique /\ Covered

IInv == TypeOK /\ InPlace /\ OfClients /\ Owned /\ NotStopping /\ UsesType

-----------------------------------------------------------------------------
(* What becomes of the sockets. *)

SocketTypes ==
    /\ sock \in [Handles -> {"free", "listen", "client"}]
    /\ own  \in [Owners -> Handles \cup {None}]

\* closesocket by the one owner: no other owner of the socket is left behind,
\* and the sockets of the others stay as they are.
LEMMA CloseOwned ==
    ASSUME NEW o \in Owners, SocketTypes, Owned, Close(o)
    PROVE  /\ SocketTypes' /\ Owned'
           /\ own'[o] = None
           /\ \A p \in Owners \ {o} : own'[p] = own[p]
           /\ \A p \in Owners \ {o} : own[p] # None => sock'[own[p]] = sock[own[p]]
           /\ \A h \in Handles : h # own[o] => sock'[h] = sock[h]
           /\ \A h \in Handles : sock'[h] \in {"free", sock[h]}
<1> USE NoneAssumption DEF SocketTypes, Owned, Unique, Covered, Close
<1>1. SocketTypes' /\ own'[o] = None /\ \A p \in Owners \ {o} : own'[p] = own[p]
  OBVIOUS
<1>2. \A p \in Owners \ {o} : own[p] # None => sock'[own[p]] = sock[own[p]]
  OBVIOUS
<1>3. \A h \in Handles : h # own[o] => sock'[h] = sock[h]
  OBVIOUS
<1>4. \A h \in Handles : sock'[h] \in {"free", sock[h]}
  OBVIOUS
<1>5. Unique'
  BY <1>1
<1>6. Covered'
  <2>1. CASE own[o] = None
    BY <2>1, <1>1
  <2>2. CASE own[o] # None
    <3>1. \A p \in Owners \ {o} : own'[p] # own[o]
      BY <2>2, <1>1
    <3>2. sock'[own[o]] = "free"
      BY <2>2
    <3> QED
      BY <3>1, <3>2, <1>1, <1>3
  <2> QED
    BY <2>1, <2>2
<1> QED
  BY <1>1, <1>2, <1>3, <1>4, <1>5, <1>6

\* Moving a socket from p to o, which has none: the move constructor of
\* SocketHandler, and exchange().
LEMMA MoveOwned ==
    ASSUME NEW o \in Owners, NEW p \in Owners, o # p, own[o] = None,
           SocketTypes, Owned, UNCHANGED sock,
           own' = [own EXCEPT ![o] = own[p], ![p] = None]
    PROVE  /\ SocketTypes' /\ Owned'
           /\ own'[o] = own[p] /\ own'[p] = None
           /\ \A q \in Owners \ {o, p} : own'[q] = own[q]
<1>1. SocketTypes' /\ own'[o] = own[p] /\ own'[p] = None
      /\ \A q \in Owners \ {o, p} : own'[q] = own[q]
  BY DEF SocketTypes
<1>2. Unique'
  <2> SUFFICES ASSUME NEW a \in Owners, NEW b \in Owners,
                      own'[a] # None, own'[a] = own'[b]
               PROVE  a = b
    BY DEF Unique
  <2>1. a # p /\ b # p
    BY <1>1
  <2>2. \A q \in Owners \ {o, p} : own[q] # None => own[q] # own[p]
    BY DEF Owned, Unique
  <2>3. CASE a = o \/ b = o
    BY <1>1, <2>1, <2>2, <2>3
  <2>4. CASE a # o /\ b # o
    BY <1>1, <2>1, <2>4 DEF Owned, Unique
  <2> QED
    BY <2>3, <2>4
<1>3. Covered'
  BY <1>1, NoneAssumption DEF Owned, Covered, SocketTypes
<1> QED
  BY <1>1, <1>2, <1>3 DEF Owned

\* Nothing happens to the sockets.
LEMMA SameOwned == Owned /\ UNCHANGED <<sock, own>> => Owned'
  BY DEF Owned, Unique, Covered

-----------------------------------------------------------------------------
(* The invariant is inductive. *)

\* A server that has just begun to listen owns its listener.
THEOREM OwnershipInit == Init => IInv
<1> SUFFICES ASSUME Init PROVE IInv
  OBVIOUS
<1> USE DEF Init, Owners
<1>1. TypeOK
  BY DEF TypeOK, MainLabels, StopLabels, ThreadLabels, ConnStates
<1>2. InPlace /\ OfClients /\ NotStopping /\ UsesType
  BY <1>1, OwnerAssumption, NoneAssumption DEF InPlace, OfClients, NotStopping, UsesType
<1>3. Owned
  <2>1. "global" \in Owners /\ own["global"] = lsock /\ lsock # None
    BY NoneAssumption
  <2>2. \A o \in Owners : o # "global" => own[o] = None
    OBVIOUS
  <2> QED
    BY <2>1, <2>2, NoneAssumption DEF Owned, Unique, Covered
<1> QED
  BY <1>1, <1>2, <1>3 DEF IInv

\* The steps of main().
LEMMA MainStep ==
    ASSUME IInv, MainRuns \/ AcceptClient \/ AcceptError
    PROVE  IInv'
<1> USE OwnerAssumption, NoneAssumption
        DEF IInv, TypeOK, InPlace, OfClients, NotStopping, UsesType, MainGoto, MainLabels
<1>1. CASE Loop \/ Failed \/ AcceptOnClosed \/ AcceptError \/ DatabasesClosed
  BY <1>1, SameOwned DEF Loop, Failed, AcceptOnClosed, AcceptError, AcceptFails, DatabasesClosed
<1>2. CASE AcceptClient
  <2>1. PICK h \in Free : /\ sock' = [sock EXCEPT ![h] = "client"]
                          /\ own'  = [own EXCEPT !["sh"] = h]
    BY <1>2 DEF AcceptClient
  <2> USE <1>2, <2>1 DEF AcceptClient, Free, Owners
  <2>2. own["sh"] = None /\ h # lsock /\ h \in Handles
    OBVIOUS
  <2>3. \A o \in Owners : own[o] # h
    BY <2>2 DEF Owned, Covered
  <2>4. Owned'
    BY <2>2, <2>3 DEF Owned, Unique, Covered
  <2>5. OfClients'
    BY <2>2, <2>3
  <2> QED
    BY <2>2, <2>4, <2>5
<1>3. CASE Spawn
  <2>1. PICK t \in Finished : own' = Moved(t) /\ tpc' = [tpc EXCEPT ![t] = "recv"]
    BY <1>3 DEF Spawn
  <2>2. t \in Threads /\ own[t] = None /\ t # "sh" /\ own["sh"] # None
    BY <1>3, <2>1 DEF Finished, Spawn
  <2>3. /\ SocketTypes' /\ Owned'
        /\ own'[t] = own["sh"] /\ own'["sh"] = None
        /\ \A q \in Owners \ {t, "sh"} : own'[q] = own[q]
    BY <1>3, <2>1, <2>2, MoveOwned DEF Spawn, Moved, Owners, SocketTypes
  <2>4. \A q \in {"global", "s"} \cup Stoppers : q \in Owners \ {t, "sh"}
    BY <2>2 DEF Owners
  <2>5. \A u \in Threads : u \in Owners /\ u # "sh"
    BY DEF Owners
  <2>6. tpc'[t] = "recv" /\ \A u \in Threads \ {t} : tpc'[u] = tpc[u]
    BY <2>1, <2>2
  <2>7. TypeOK'
    BY <1>3, <2>1, <2>2, <2>3 DEF Spawn, ThreadLabels, SocketTypes
  <2>8. InPlace'
    <3>1. UNCHANGED <<lsock, stop>> /\ main' = "drop"
      BY <1>3 DEF Spawn
    <3>2. \A q \in Threads : own'[q] # None <=> tpc'[q] # "none"
      BY <2>2, <2>3, <2>5, <2>6
    <3>3. \A q \in {"global", "s"} \cup Stoppers : own'[q] = own[q]
      BY <2>3, <2>4
    <3>4. own'["s"] = None
      BY <1>3, <3>3 DEF Spawn
    <3> QED
      BY <2>3, <3>1, <3>2, <3>3, <3>4
  <2>9. OfClients'
    BY <1>3, <2>2, <2>3, <2>5 DEF Spawn
  <2>10. NotStopping' /\ UsesType'
    BY <1>3, <2>2, <2>3, <2>4, <2>6 DEF Spawn
  <2> QED
    BY <2>3, <2>7, <2>8, <2>9, <2>10
<1>4. CASE Drop
  <2>1. own["sh"] = None
    BY <1>4 DEF Drop
  <2>2. UNCHANGED <<sock, own>>
    BY <1>4, <2>1 DEF Drop, Close
  <2> QED
    BY <1>4, <2>2, SameOwned DEF Drop
<1>5. CASE TakeListener
  <2>1. /\ SocketTypes' /\ Owned'
        /\ own'["s"] = own["global"] /\ own'["global"] = None
        /\ \A q \in Owners \ {"s", "global"} : own'[q] = own[q]
    BY <1>5, MoveOwned DEF TakeListener, Taken, Owners, SocketTypes
  <2>2. \A q \in {"sh"} \cup Threads \cup Stoppers : own'[q] = own[q]
    BY <2>1 DEF Owners
  <2>3. UNCHANGED <<running, sock, lsock, stop, tpc, uses, conn>> /\ main' = "close" /\ ~running
    BY <1>5 DEF TakeListener
  <2>4. TypeOK'
    BY <2>1, <2>3 DEF SocketTypes
  <2>5. InPlace'
    <3>1. main # "spawn" /\ own["sh"] = None
      BY <1>5 DEF TakeListener
    <3>2. \A q \in Stoppers : own'[q] # None => stop'[q] = "close"
      BY <2>2, <2>3
    <3>3. \A q \in Threads : own'[q] # None <=> tpc'[q] # "none"
      BY <2>2, <2>3
    <3> QED
      BY <2>1, <2>2, <2>3, <3>1, <3>2, <3>3
  <2>6. OfClients'
    BY <2>2, <2>3
  <2> QED
    BY <2>1, <2>3, <2>4, <2>5, <2>6
<1>6. CASE CloseListener
  <2>1. /\ SocketTypes' /\ Owned' /\ own'["s"] = None
        /\ \A p \in Owners \ {"s"} : own'[p] = own[p]
        /\ \A p \in Owners \ {"s"} : own[p] # None => sock'[own[p]] = sock[own[p]]
        /\ sock'[lsock] \in {"free", sock[lsock]}
    BY <1>6, CloseOwned DEF CloseListener, Owners, SocketTypes
  <2>2. \A q \in {"global", "sh"} \cup Threads \cup Stoppers : q \in Owners \ {"s"}
    BY DEF Owners
  <2>3. UNCHANGED <<running, lsock, stop, tpc, uses, conn>> /\ main' = "databases" /\ ~running
    BY <1>6 DEF CloseListener
  <2>4. TypeOK'
    BY <2>1, <2>3 DEF SocketTypes
  <2>5. InPlace'
    <3>1. \A q \in {"global", "sh"} \cup Threads \cup Stoppers : own'[q] = own[q]
      BY <2>1, <2>2
    <3>2. main # "spawn" /\ own["sh"] = None
      BY <1>6 DEF CloseListener
    <3>3. \A q \in Stoppers : own'[q] # None => stop'[q] = "close"
      BY <2>3, <3>1
    <3>4. \A q \in Threads : own'[q] # None <=> tpc'[q] # "none"
      BY <2>3, <3>1
    <3> QED
      BY <2>1, <2>3, <3>1, <3>2, <3>3, <3>4
  <2>6. OfClients'
    <3>1. sock'[lsock] # "client"
      BY <2>1
    <3>2. ASSUME NEW o \in Threads \cup {"sh"}, own'[o] # None PROVE sock'[own'[o]] = "client"
      <4>1. o \in Owners \ {"s"}
        BY <2>2
      <4> QED
        BY <2>1, <3>2, <4>1
    <3> QED
      BY <2>3, <3>1, <3>2
  <2> QED
    BY <2>1, <2>3, <2>4, <2>5, <2>6
<1>7. ASSUME NEW r \in Repos, CloseDatabase(r) \/ ForgetDatabase(r) PROVE IInv'
  BY <1>7, SameOwned DEF CloseDatabase, ForgetDatabase, ConnStates
<1>8. CASE Return
  BY <1>8 DEF Return, Exit, Owned, Unique, Covered, Owners, ThreadLabels, StopLabels
<1> QED
  BY <1>1, <1>2, <1>3, <1>4, <1>5, <1>6, <1>7, <1>8 DEF MainRuns

\* The steps of request_shutdown().
LEMMA StopperStep ==
    ASSUME IInv, NEW s \in Stoppers, Request(s) \/ StopperRuns(s)
    PROVE  IInv'
<1> USE OwnerAssumption, NoneAssumption
        DEF IInv, TypeOK, InPlace, OfClients, NotStopping, UsesType, StopLabels
<1>1. CASE Request(s)
  <2>1. UNCHANGED <<sock, own, lsock, main, tpc, uses, conn>> /\ ~running'
    BY <1>1 DEF Request
  <2>2. stop' = [stop EXCEPT ![s] = "exchange"] /\ own[s] = None
    BY <1>1 DEF Request
  <2>3. TypeOK'
    BY <1>1, <2>1, <2>2 DEF Request
  <2>4. InPlace'
    BY <2>1, <2>2
  <2> QED
    BY <2>1, <2>3, <2>4, SameOwned
<1>2. CASE StopperTakes(s)
  <2>1. s \in Owners /\ s # "global" /\ own[s] = None
    BY <1>2 DEF StopperTakes, Owners
  <2>2. /\ SocketTypes' /\ Owned'
        /\ own'[s] = own["global"] /\ own'["global"] = None
        /\ \A q \in Owners \ {s, "global"} : own'[q] = own[q]
    BY <1>2, <2>1, MoveOwned DEF StopperTakes, Taken, Owners, SocketTypes
  <2>3. \A q \in {"sh", "s"} \cup Threads \cup (Stoppers \ {s}) : own'[q] = own[q]
    BY <2>2 DEF Owners
  <2>4. \A o \in Threads \cup {"sh"} : own'[o] = own[o]
    BY <2>3
  <2>5. ~running
    BY <1>2 DEF StopperTakes
  <2>6. stop'[s] = "close" /\ \A q \in Stoppers \ {s} : stop'[q] = stop[q]
    BY <1>2 DEF StopperTakes
  <2>7. TypeOK'
    BY <1>2, <2>2 DEF StopperTakes, SocketTypes
  <2>8. InPlace'
    <3>1. UNCHANGED <<lsock, main, tpc>>
      BY <1>2 DEF StopperTakes
    <3>2. \A q \in Stoppers : own'[q] # None => stop'[q] = "close"
      BY <2>3, <2>6
    <3>3. \A q \in Threads : own'[q] # None <=> tpc'[q] # "none"
      BY <2>3, <3>1
    <3> QED
      BY <2>2, <2>3, <3>1, <3>2, <3>3
  <2> QED
    BY <1>2, <2>2, <2>4, <2>5, <2>7, <2>8 DEF StopperTakes
<1>3. CASE StopperCloses(s)
  <2>1. s \in Owners
    BY DEF Owners
  <2>2. /\ SocketTypes' /\ Owned' /\ own'[s] = None
        /\ \A p \in Owners \ {s} : own'[p] = own[p]
        /\ \A p \in Owners \ {s} : own[p] # None => sock'[own[p]] = sock[own[p]]
        /\ sock'[lsock] \in {"free", sock[lsock]}
    BY <1>3, <2>1, CloseOwned DEF StopperCloses, SocketTypes
  <2>3. \A q \in {"global", "sh", "s"} \cup Threads \cup (Stoppers \ {s}) :
            q \in Owners \ {s}
    BY DEF Owners
  <2>4. TypeOK'
    BY <1>3, <2>2 DEF StopperCloses, SocketTypes
  <2>5. InPlace'
    <3>1. \A q \in {"global", "sh", "s"} \cup Threads \cup (Stoppers \ {s}) : own'[q] = own[q]
      BY <2>2, <2>3
    <3>2. UNCHANGED <<lsock, main, tpc>> /\ \A q \in Stoppers \ {s} : stop'[q] = stop[q]
      BY <1>3 DEF StopperCloses
    <3>3. \A q \in Stoppers : own'[q] # None => stop'[q] = "close"
      BY <2>2, <3>1, <3>2
    <3>4. \A q \in Threads : own'[q] # None <=> tpc'[q] # "none"
      BY <3>1, <3>2
    <3> QED
      BY <3>1, <3>2, <3>3, <3>4
  <2>6. OfClients'
    BY <1>3, <2>2, <2>3 DEF StopperCloses
  <2>7. NotStopping' /\ UsesType'
    BY <1>3, <2>2, <2>3 DEF StopperCloses
  <2> QED
    BY <2>2, <2>4, <2>5, <2>6, <2>7
<1> QED
  BY <1>1, <1>2, <1>3 DEF StopperRuns

\* The steps of the client threads.
LEMMA ThreadStep ==
    ASSUME IInv, NEW t \in Threads, ThreadRuns(t)
    PROVE  IInv'
<1> USE OwnerAssumption, NoneAssumption
        DEF IInv, TypeOK, InPlace, OfClients, NotStopping, UsesType, ThreadLabels
<1>1. CASE Receive(t) \/ Send(t)
  BY <1>1, SameOwned DEF Receive, Send, ThreadGoto
<1>2. CASE Enter(t)
  BY <1>2, SameOwned DEF Enter, ThreadGoto
<1>3. CASE Prepare(t)
  <2>1. CASE ThreadGoto(t, "stmt") /\ UNCHANGED uses
    BY <1>3, <2>1, SameOwned DEF Prepare, ThreadGoto
  <2>2. CASE conn[uses[t]] \in Gone /\ Exit
    <3>1. ~running
      BY <1>3, <2>2 DEF Prepare, Gone
    <3> QED
      BY <2>2, <3>1 DEF Exit, Owned, Unique, Covered, Owners, MainLabels, StopLabels
  <2> QED
    BY <1>3, <2>1, <2>2 DEF Prepare
<1>4. CASE Finalize(t)
  BY <1>4, SameOwned DEF Finalize, ThreadGoto
<1>5. CASE End(t)
  <2>1. t \in Owners /\ own[t] # None /\ own[t] # lsock
    BY <1>5 DEF End, Owners
  <2>2. /\ SocketTypes' /\ Owned' /\ own'[t] = None
        /\ \A p \in Owners \ {t} : own'[p] = own[p]
        /\ \A p \in Owners \ {t} : own[p] # None => sock'[own[p]] = sock[own[p]]
        /\ sock'[lsock] = sock[lsock]
    BY <1>5, <2>1, CloseOwned DEF End, SocketTypes
  <2>3. \A q \in {"global", "sh", "s"} \cup Stoppers \cup (Threads \ {t}) :
            q \in Owners \ {t}
    BY DEF Owners
  <2>4. TypeOK'
    BY <1>5, <2>2 DEF End, SocketTypes
  <2>5. tpc'[t] = "none" /\ \A q \in Threads \ {t} : tpc'[q] = tpc[q]
    BY <1>5 DEF End
  <2>6. \A q \in {"global", "sh", "s"} \cup Stoppers \cup (Threads \ {t}) : own'[q] = own[q]
    BY <2>2, <2>3
  <2>7. ASSUME NEW q \in Threads PROVE own'[q] # None <=> tpc'[q] # "none"
    <3>1. own[q] # None <=> tpc[q] # "none"
      OBVIOUS
    <3>2. CASE q = t
      BY <2>2, <2>5, <3>2
    <3>3. CASE q # t
      BY <2>5, <2>6, <3>1, <3>3
    <3> QED
      BY <3>2, <3>3
  <2>8. UNCHANGED <<lsock, main, stop, running, uses, conn>>
    BY <1>5 DEF End
  <2>9. \A q \in Stoppers : own'[q] # None => stop'[q] = "close"
    BY <2>6, <2>8
  <2>10. InPlace'
    BY <2>6, <2>7, <2>8, <2>9
  <2>11. OfClients'
    <3>1. sock'[lsock] # "client"
      BY <2>2
    <3>2. ASSUME NEW o \in Threads \cup {"sh"}, own'[o] # None PROVE sock'[own'[o]] = "client"
      <4>1. o \in Owners \ {t}
        BY <2>2, <2>3, <3>2
      <4> QED
        BY <2>2, <3>2, <4>1
    <3> QED
      BY <2>8, <3>1, <3>2
  <2>12. NotStopping' /\ UsesType'
    BY <1>5, <2>2, <2>3 DEF End
  <2> QED
    BY <2>2, <2>4, <2>10, <2>11, <2>12
<1> QED
  BY <1>1, <1>2, <1>3, <1>4, <1>5 DEF ThreadRuns

\* Every step keeps the ownership of each handle.
THEOREM OwnershipStep == IInv /\ [Next]_vars => IInv'
<1>1. CASE UNCHANGED vars
  BY <1>1, SameOwned DEF vars, IInv, TypeOK, InPlace, OfClients, NotStopping, UsesType
<1> QED
  BY <1>1, MainStep, StopperStep, ThreadStep DEF Next

\* The inductive invariant holds for ever.
LEMMA OwnershipInvariant == Spec => []IInv
  BY OwnershipInit, OwnershipStep, PTL DEF Spec

-----------------------------------------------------------------------------
(* What follows. *)

\* Every variable of server_main.cpp's model keeps its type.
THEOREM TypeCorrect == Spec => []TypeOK
<1>1. IInv => TypeOK
  BY DEF IInv
<1> QED
  BY <1>1, OwnershipInvariant, PTL

\* Whatever the order in which clients end and shutdown is asked for, no
\* socket is closed twice or forgotten.
THEOREM OwnedOnce == Spec => []SocketsOwnedOnce
<1>1. IInv => SocketsOwnedOnce
  BY DEF IInv, Owned, Unique, Covered, SocketsOwnedOnce
<1> QED
  BY <1>1, OwnershipInvariant, PTL

\* No running client thread loses its connection.
THEOREM Connected == Spec => []ThreadsHaveSockets
<1>1. IInv => ThreadsHaveSockets
  BY DEF IInv, InPlace, OfClients, ThreadsHaveSockets
<1> QED
  BY <1>1, OwnershipInvariant, PTL

\* The server listens until it is asked to stop.
THEOREM Serving == Spec => []ServesUntilAsked
<1>1. IInv => ServesUntilAsked
  BY DEF IInv, NotStopping, ServesUntilAsked
<1> QED
  BY <1>1, OwnershipInvariant, PTL

=============================================================================
