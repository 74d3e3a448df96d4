---------------------------- MODULE Exchange_proofs ----------------------------
(***************************************************************************)
(* Proofs about Exchange, for any number of clients, connections and       *)
(* calls: its types, RolesAgree, NothingUnread and the refinement of Call. *)
(*                                                                         *)
(* The inductive invariant Inv says how far a call can be.  A connection   *)
(* is at rest between two lines of its client; while a call is under way,  *)
(* what is in the two queues and what the thread still owes to the client  *)
(* never exceeds one package, and all of it belongs to that call.  A       *)
(* request that was abandoned stays where it is, undecided, and nowhere    *)
(* else.                                                                   *)
(***************************************************************************)
EXTENDS Exchange, TLAPS

Busy(c) == cpc[c] # "line"

\* Each connection has at most one client; one that was never made is empty.
Sockets ==
    /\ \A c \in Clients : Busy(c) => sock[c] # None
    /\ \A c \in Clients : sock[c] # None => tpc[sock[c]] # "unused"
    /\ \A c, d \in Clients : sock[c] # None /\ sock[c] = sock[d] => c = d
    /\ \A k \in Conns : tpc[k] = "unused" =>
          toServer[k] = <<>> /\ toClient[k] = <<>> /\ role[k] = "STUDENT"

\* The calls under way are pending and differ; a call that was answered was
\* decided.
Pending ==
    /\ \A c \in Clients : Busy(c) =>
          /\ request[c].call \in 1 .. Len(fate)
          /\ fate[request[c].call] = "pending"
          /\ request[c].says \in Verbs
    /\ \A c, d \in Clients : Busy(c) /\ Busy(d) /\ request[c].call = request[d].call => c = d
    /\ \A n \in 1 .. Len(fate) : fate[n] \notin {"pending", "failed"} => outcome[n] # "none"

\* The thread of k may still decide call n.
Carries(k, n) ==
    \/ \E i \in 1 .. Len(toServer[k]) : toServer[k][i].of.call = n
    \/ tpc[k] = "dispatch" /\ work[k].call = n

\* What is carried is undecided and carried once.
Undecided ==
    \A n \in 0 .. MaxCalls, k \in Conns : Carries(k, n) =>
        /\ n \in 1 .. Len(fate) /\ outcome[n] = "none"
        /\ \A j \in Conns : Carries(j, n) => j = k

\* No thread has more before it than the rest of one package.
OneRequest ==
    \A k \in Conns :
        /\ Len(toServer[k]) <= 2
        /\ tpc[k] = "recvBody" => Len(toServer[k]) <= 1
        /\ tpc[k] \notin {"backlog", "recvHeader", "recvBody"} => toServer[k] = <<>>
        /\ tpc[k] = "dispatch" => work[k].says \in Verbs
        /\ \A i \in 1 .. Len(toServer[k]) : toServer[k][i].of.says \in Verbs

\* The parts of an answer that the thread of k has yet to send.
Owed(k) ==
    IF tpc[k] = "sendBody" THEN 1
    ELSE IF tpc[k] \in {"recvBody", "dispatch", "sendHeader"} \/ toServer[k] # <<>> THEN 2
    ELSE 0

\* How far the connection k of client c can be.
Phase(c, k) ==
    /\ cpc[c] \in {"line", "sendHeader"} =>
          toServer[k] = <<>> /\ tpc[k] \in {"backlog", "recvHeader", "closed"}
    /\ cpc[c] \in {"line", "sendHeader", "sendBody"} => toClient[k] = <<>>
    /\ cpc[c] = "sendBody" =>
          /\ tpc[k] \in {"backlog", "recvHeader", "recvBody", "closed"}
          /\ Len(toServer[k]) <= 1
          /\ tpc[k] = "recvBody" => toServer[k] = <<>>
    /\ cpc[c] = "recvHeader" => Len(toClient[k]) + Owed(k) <= 2
    /\ cpc[c] = "recvBody" => Len(toClient[k]) + Owed(k) <= 1

\* All that is in it belongs to the call under way.
Own(c, k) ==
    LET n == request[c].call IN
    /\ \A i \in 1 .. Len(toServer[k]) : toServer[k][i].of = request[c]
    /\ tpc[k] = "dispatch" => work[k] = request[c]
    /\ tpc[k] \in {"sendHeader", "sendBody"} => work[k].says = outcome[n] /\ outcome[n] # "none"
    /\ \A i \in 1 .. Len(toClient[k]) :
          toClient[k][i].of.says = outcome[n] /\ outcome[n] # "none"
    /\ cpc[c] \in {"sendHeader", "sendBody"} => outcome[n] = "none"
    /\ \A m \in 0 .. MaxCalls, j \in Conns : Carries(j, m) /\ m = n => j = k

\* What the client will know of the session once the answer r is read.
Knows(c, r) ==
    IF r = "ok" /\ request[c].says \in {"LOGIN", "LOGOUT"}
    THEN request[c].says = "LOGIN" ELSE trusted[c]

Session(c, k) ==
    tpc[k] # "closed" =>
        (role[k] = "ADMIN" <=> IF Busy(c) THEN Knows(c, outcome[request[c].call])
                               ELSE trusted[c])

Linked(c, k) ==
    /\ Phase(c, k)
    /\ Busy(c) => Own(c, k)
    /\ Session(c, k)

Attached == \A c \in Clients, k \in Conns : sock[c] = k => Linked(c, k)

Inv == TypeOK /\ Sockets /\ Pending /\ Undecided /\ OneRequest /\ Attached

-----------------------------------------------------------------------------
(* Queues. *)

\* A queue is empty exactly if its length is 0.
LEMMA Empty ==
    ASSUME NEW S, NEW s \in Seq(S)
    PROVE  s = <<>> <=> Len(s) = 0
  OBVIOUS

\* What send() does to a queue.
LEMMA SentQueue ==
    ASSUME NEW q \in [Conns -> Seq(Parts)], NEW k \in Conns, NEW p \in Parts
    PROVE  /\ Sent(q, k, p) \in [Conns -> Seq(Parts)]
           /\ \A j \in Conns : j # k => Sent(q, k, p)[j] = q[j]
  BY DEF Sent

\* What recv() does to it.
LEMMA ReadQueue ==
    ASSUME NEW q \in [Conns -> Seq(Parts)], NEW k \in Conns, q[k] # <<>>
    PROVE  /\ Read(q, k) \in [Conns -> Seq(Parts)]
           /\ \A j \in Conns : j # k => Read(q, k)[j] = q[j]
           /\ Len(q[k]) \in Nat \ {0}
           /\ Len(Read(q, k)[k]) = Len(q[k]) - 1
           /\ \A i \in 1 .. Len(q[k]) - 1 : Read(q, k)[k][i] = q[k][i + 1]
           /\ Head(q[k]) = q[k][1] /\ Head(q[k]) \in Parts
  <1>1. Len(q[k]) \in Nat \ {0}  BY Empty
  <1>2. Tail(q[k]) \in Seq(Parts) /\ Len(Tail(q[k])) = Len(q[k]) - 1  OBVIOUS
  <1>3. \A i \in 1 .. Len(q[k]) - 1 : Tail(q[k])[i] = q[k][i + 1]  BY <1>1
  <1>4. Head(q[k]) = q[k][1] /\ Head(q[k]) \in Parts  BY <1>1
  <1>. QED  BY <1>1, <1>2, <1>3, <1>4 DEF Read

\* What closing an end does to it.
LEMMA DrainedQueue ==
    ASSUME NEW q \in [Conns -> Seq(Parts)], NEW k \in Conns
    PROVE  /\ Drained(q, k) \in [Conns -> Seq(Parts)]
           /\ Drained(q, k)[k] = <<>>
           /\ \A j \in Conns : j # k => Drained(q, k)[j] = q[j]
  BY DEF Drained

-----------------------------------------------------------------------------
(* Frames: what a step that leaves a connection or a client alone keeps. *)

SameThread(k) == tpc'[k] = tpc[k] /\ work'[k] = work[k] /\ toServer'[k] = toServer[k]
SameConn(k)   == SameThread(k) /\ role'[k] = role[k] /\ toClient'[k] = toClient[k]
SameClient(c) == /\ cpc'[c] = cpc[c] /\ sock'[c] = sock[c]
                 /\ request'[c] = request[c] /\ trusted'[c] = trusted[c]

\* No thread has anything before it that it had not before.
NothingNew == \A k \in Conns, n \in 0 .. MaxCalls : Carries(k, n)' => Carries(k, n)

\* A thread has nothing new before it if it, its work and its queue are the same.
LEMMA ThreadKeeps ==
    ASSUME NEW k \in Conns, NEW n \in 0 .. MaxCalls, SameThread(k)
    PROVE  Carries(k, n)' => Carries(k, n)
  BY DEF SameThread, Carries

\* A step that gives no thread anything new and decides nothing.
LEMMA UndecidedKept ==
    ASSUME TypeOK, Undecided, NothingNew, Len(fate') \in Nat, Len(fate') >= Len(fate),
           \A n \in 1 .. Len(fate) : outcome'[n] = outcome[n]
    PROVE  Undecided'
  BY DEF Undecided, NothingNew, TypeOK

\* A client and a connection that a step leaves alone.
LEMMA LinkedKept ==
    ASSUME NEW c \in Clients, NEW k \in Conns, Linked(c, k), SameConn(k), SameClient(c),
           Busy(c) => outcome'[request[c].call] = outcome[request[c].call],
           \A j \in Conns, n \in 0 .. MaxCalls :
               Carries(j, n)' /\ n = request[c].call => Carries(j, n)
    PROVE  Linked(c, k)'
  <1>1. Phase(c, k)'  BY DEF Linked, Phase, Owed, SameConn, SameThread, SameClient
  <1>2. Session(c, k)'
    BY DEF Linked, Session, Knows, Busy, SameConn, SameThread, SameClient
  <1>3. ASSUME Busy(c)'  PROVE Own(c, k)'
    <2>1. Busy(c) /\ Own(c, k)  BY <1>3 DEF Linked, Busy, SameClient
    <2>. QED  BY <2>1 DEF Own, SameConn, SameThread, SameClient
  <1>. QED  BY <1>1, <1>2, <1>3 DEF Linked

-----------------------------------------------------------------------------
(* The invariant, step by step: the client. *)

\* No connection is the null socket.
LEMMA ConnFacts ==
    Conns \subseteq Nat \ {0} /\ None \notin Conns
  BY BoundsAssumption DEF Conns, None

\* The message of a thread or client that is at rest.
LEMMA NothingFits == Nothing \in Messages
  BY BoundsAssumption DEF Nothing, Messages

\* Nobody is connected and nothing was asked.
LEMMA InvInit == Init => Inv
  <1>. SUFFICES ASSUME Init PROVE Inv  OBVIOUS
  <1>. USE DEF Init
  <1>1. TypeOK
    BY NothingFits, BoundsAssumption DEF TypeOK, ClientLabels, ThreadLabels
  <1>2. Sockets  BY ConnFacts DEF Sockets, Busy
  <1>3. Pending  BY DEF Pending, Busy
  <1>4. Undecided  BY DEF Undecided, Carries
  <1>5. OneRequest  BY DEF OneRequest
  <1>6. Attached  BY ConnFacts DEF Attached
  <1>. QED  BY <1>1, <1>2, <1>3, <1>4, <1>5, <1>6 DEF Inv

\* A client that drops its connection empties no other one.
LEMMA DropType ==
    ASSUME TypeOK, NEW c \in Clients, Hangup(c)
    PROVE  /\ toClient' \in [Conns -> Seq(Parts)]
           /\ \A k \in Conns : k # sock[c] => toClient'[k] = toClient[k]
  <1>. USE DEF TypeOK
  <1>1. CASE sock[c] = None  BY <1>1 DEF Hangup
  <1>2. CASE sock[c] \in Conns
    <2>1. toClient' = Drained(toClient, sock[c])  BY <1>2, ConnFacts DEF Hangup
    <2>. QED  BY <1>2, <2>1, DrainedQueue
  <1>. QED  BY <1>1, <1>2

\* DISCONNECT: no other client is attached to the connection.
LEMMA DisconnectStep ==
    ASSUME Inv, NEW c \in Clients, Disconnect(c)
    PROVE  Inv'
  <1>. USE DEF Disconnect, Local, threadVars, callVars
  <1>0. TypeOK /\ Sockets /\ Pending /\ Undecided /\ OneRequest /\ Attached  BY DEF Inv
  <1>. USE <1>0
  <1>1. TypeOK'  BY DropType DEF TypeOK
  <1>2. Sockets'  BY DropType, ConnFacts DEF Sockets, Busy, TypeOK
  <1>3. Pending'  BY DEF Pending, Busy
  <1>4. NothingNew
    BY ThreadKeeps DEF SameThread, NothingNew
  <1>5. Undecided'  BY <1>4, UndecidedKept DEF TypeOK
  <1>6. OneRequest'  BY DEF OneRequest
  <1>7. ASSUME NEW d \in Clients, NEW k \in Conns, sock'[d] = k
        PROVE  Linked(d, k)'
    <2>1. d # c /\ sock[d] = k  BY <1>7, ConnFacts DEF TypeOK
    <2>2. sock[c] # k  BY <2>1, ConnFacts DEF Sockets
    <2>3. SameConn(k) /\ SameClient(d)
      BY <2>1, <2>2, DropType DEF SameConn, SameThread, SameClient, TypeOK
    <2>4. Linked(d, k)  BY <2>1 DEF Attached
    <2>. QED  BY <2>3, <2>4, LinkedKept, <1>4 DEF NothingNew
  <1>. QED  BY <1>1, <1>2, <1>3, <1>5, <1>6, <1>7 DEF Inv, Attached

\* CONNECT: the connection is new.
LEMMA ConnectStep ==
    ASSUME Inv, NEW c \in Clients, Connect(c)
    PROVE  Inv'
  <1>. USE DEF Connect, Local, callVars
  <1>0. TypeOK /\ Sockets /\ Pending /\ Undecided /\ OneRequest /\ Attached  BY DEF Inv
  <1>. USE <1>0
  <1>1. PICK n \in Conns : /\ tpc[n] = "unused"
                           /\ sock' = [sock EXCEPT ![c] = n]
                           /\ tpc'  = [tpc EXCEPT ![n] = "backlog"]
    OBVIOUS
  <1>2. \A d \in Clients : sock[d] # n  BY <1>1, ConnFacts DEF Sockets
  <1>3. TypeOK'  BY <1>1, DropType DEF TypeOK, ThreadLabels
  <1>4. Sockets'
    <2>1. \A d \in Clients : sock'[d] = (IF d = c THEN n ELSE sock[d])
      BY <1>1 DEF TypeOK
    <2>2. \A k \in Conns : tpc'[k] = (IF k = n THEN "backlog" ELSE tpc[k])
      BY <1>1 DEF TypeOK
    <2>3. ASSUME NEW d \in Clients, sock'[d] # None
          PROVE  tpc'[sock'[d]] # "unused"
      <3>1. CASE d = c  BY <3>1, <2>1, <2>2
      <3>2. CASE d # c
        <4>1. sock'[d] = sock[d] /\ sock[d] \in Conns  BY <3>2, <2>1, <2>3 DEF TypeOK
        <4>. QED  BY <4>1, <2>2, <2>3 DEF Sockets
      <3>. QED  BY <3>1, <3>2
    <2>4. ASSUME NEW k \in Conns, tpc'[k] = "unused"
          PROVE  toServer'[k] = <<>> /\ toClient'[k] = <<>> /\ role'[k] = "STUDENT"
      <3>1. tpc[k] = "unused"  BY <2>2, <2>4
      <3>2. k # sock[c]  BY <3>1, ConnFacts DEF Sockets
      <3>3. toClient'[k] = toClient[k]  BY <3>2, DropType
      <3>. QED  BY <3>1, <3>3 DEF Sockets
    <2>. QED  BY <2>1, <2>3, <2>4, <1>2, ConnFacts DEF Sockets, Busy
  <1>5. Pending'  BY DEF Pending, Busy
  <1>6. NothingNew  BY <1>1 DEF NothingNew, Carries, TypeOK
  <1>7. Undecided'  BY <1>6, UndecidedKept DEF TypeOK
  <1>8. OneRequest'  BY <1>1 DEF OneRequest, Sockets, TypeOK
  <1>9. ASSUME NEW d \in Clients, NEW k \in Conns, sock'[d] = k
        PROVE  Linked(d, k)'
    <2>1. CASE d = c
      <3>1. k = n /\ cpc'[d] = "line" /\ tpc'[k] = "backlog"
        BY <2>1, <1>1, <1>9 DEF TypeOK
      <3>2. toServer'[k] = <<>> /\ toClient'[k] = <<>> /\ role'[k] = "STUDENT"
        BY <3>1, <1>1, <1>2, DropType DEF Sockets
      <3>3. ~trusted'[d]  BY <2>1 DEF TypeOK
      <3>. QED  BY <3>1, <3>2, <3>3 DEF Linked, Phase, Session, Busy
    <2>2. CASE d # c
      <3>1. sock[d] = k /\ k # n  BY <2>2, <1>1, <1>2, <1>9 DEF TypeOK
      <3>2. sock[c] # k  BY <3>1, <2>2, ConnFacts DEF Sockets
      <3>3. SameConn(k) /\ SameClient(d)
        BY <1>1, <2>2, <3>1, <3>2, DropType DEF SameConn, SameThread, SameClient, TypeOK
      <3>. QED  BY <3>1, <3>3, LinkedKept, <1>6 DEF NothingNew, Attached
    <2>. QED  BY <2>1, <2>2
  <1>. QED  BY <1>3, <1>4, <1>5, <1>7, <1>8, <1>9 DEF Inv, Attached

\* A call ends: what became of it, and of the others.
LEMMA SettleFacts ==
    ASSUME TypeOK, Sockets, Pending, NEW c \in Clients, Busy(c),
           NEW r \in {"failed"} \cup Results, r = "failed" \/ outcome[request[c].call] # "none",
           Settle(c, r)
    PROVE  /\ cpc' \in [Clients -> ClientLabels] /\ cpc'[c] = "line"
           /\ request' \in [Clients -> Messages]
           /\ fate' \in Seq({"pending", "failed"} \cup Results)
           /\ Len(fate') = Len(fate)
           /\ \A d \in Clients : d # c => cpc'[d] = cpc[d] /\ request'[d] = request[d]
           /\ Pending'
  <1>. USE DEF Settle, TypeOK
  <1>1. /\ cpc' \in [Clients -> ClientLabels] /\ cpc'[c] = "line"
        /\ \A d \in Clients : d # c => cpc'[d] = cpc[d] /\ request'[d] = request[d]
    BY DEF ClientLabels
  <1>2. request' \in [Clients -> Messages]  BY NothingFits
  <1>3. request[c].call \in 1 .. Len(fate)  BY DEF Pending
  <1>4. /\ fate' \in Seq({"pending", "failed"} \cup Results) /\ Len(fate') = Len(fate)
        /\ fate'[request[c].call] = r
        /\ \A n \in 1 .. Len(fate) : n # request[c].call => fate'[n] = fate[n]
    BY <1>3
  <1>5. Pending'
    <2>1. \A d \in Clients : Busy(d)' => d # c /\ Busy(d) /\ request'[d] = request[d]
      BY <1>1 DEF Busy
    <2>2. \A d \in Clients : Busy(d)' => request[d].call # request[c].call
      BY <2>1 DEF Pending
    <2>3. \A d \in Clients : Busy(d)' => fate'[request[d].call] = "pending"
      BY <2>1, <2>2, <1>4 DEF Pending
    <2>4. \A n \in 1 .. Len(fate') : fate'[n] \notin {"pending", "failed"} => outcome'[n] # "none"
      BY <1>4 DEF Pending
    <2>. QED  BY <2>1, <2>3, <2>4, <1>4 DEF Pending
  <1>. QED  BY <1>1, <1>2, <1>4, <1>5

\* The call failed and the connection is dropped.
LEMMA FailStep ==
    ASSUME Inv, NEW c \in Clients, Busy(c), Fail(c)
    PROVE  Inv'
  <1>. USE DEF Fail, threadVars
  <1>0. TypeOK /\ Sockets /\ Pending /\ Undecided /\ OneRequest /\ Attached  BY DEF Inv
  <1>. USE <1>0
  <1>a. UNCHANGED <<threadVars, toServer, broken, outcome, log>>  BY DEF Settle
  <1>1. /\ cpc' \in [Clients -> ClientLabels] /\ cpc'[c] = "line"
        /\ request' \in [Clients -> Messages]
        /\ fate' \in Seq({"pending", "failed"} \cup Results)
        /\ Len(fate') = Len(fate)
        /\ \A d \in Clients : d # c => cpc'[d] = cpc[d] /\ request'[d] = request[d]
        /\ Pending'
    BY SettleFacts
  <1>2. TypeOK'  BY <1>1, <1>a, DropType DEF TypeOK
  <1>3. Sockets'  BY <1>1, <1>a, DropType, ConnFacts DEF Sockets, Busy, TypeOK
  <1>4. NothingNew  BY <1>a, ThreadKeeps DEF SameThread, NothingNew
  <1>5. Undecided'  BY <1>1, <1>a, <1>4, UndecidedKept DEF TypeOK
  <1>6. OneRequest'  BY <1>a DEF OneRequest
  <1>7. ASSUME NEW d \in Clients, NEW k \in Conns, sock'[d] = k
        PROVE  Linked(d, k)'
    <2>1. d # c /\ sock[d] = k  BY <1>7, ConnFacts DEF TypeOK
    <2>2. sock[c] # k  BY <2>1, ConnFacts DEF Sockets
    <2>3. SameConn(k) /\ SameClient(d)
      BY <1>1, <1>a, <2>1, <2>2, DropType DEF SameConn, SameThread, SameClient, TypeOK
    <2>4. Linked(d, k)  BY <2>1 DEF Attached
    <2>. QED  BY <1>a, <2>3, <2>4, LinkedKept, <1>4 DEF NothingNew
  <1>. QED  BY <1>1, <1>2, <1>3, <1>5, <1>6, <1>7 DEF Inv, Attached

\* The process of the client ends, between two lines or during a call.
LEMMA RestartStep ==
    ASSUME Inv, NEW c \in Clients, Restart(c)
    PROVE  Inv'
  <1>1. CASE cpc[c] = "line"
    <2>1. Disconnect(c)  BY <1>1 DEF Restart, Disconnect
    <2>. QED  BY <2>1, DisconnectStep
  <1>2. CASE cpc[c] # "line"
    <2>1. Busy(c) /\ Fail(c)  BY <1>2 DEF Restart, Fail, Busy
    <2>. QED  BY <2>1, FailStep
  <1>. QED  BY <1>1, <1>2

\* A line that asks for something starts a call; nothing of it is sent yet.
LEMMA AskStep ==
    ASSUME Inv, NEW c \in Clients, Ask(c)
    PROVE  Inv'
  <1>. USE DEF Ask, threadVars, netVars
  <1>0. TypeOK /\ Sockets /\ Pending /\ Undecided /\ OneRequest /\ Attached  BY DEF Inv
  <1>. USE <1>0
  <1>. DEFINE n == Len(fate) + 1
  <1>1. n \in 1 .. MaxCalls /\ Len(fate) \in Nat  BY BoundsAssumption DEF TypeOK
  <1>2. /\ request' \in [Clients -> Messages]
        /\ request'[c].call = n /\ request'[c].says \in Verbs
        /\ \A d \in Clients : d # c => request'[d] = request[d] /\ cpc'[d] = cpc[d]
    <2>1. PICK verb \in Verbs, fits \in BOOLEAN :
             request' = [request EXCEPT ![c] = [call |-> n, says |-> verb, fits |-> fits]]
      OBVIOUS
    <2>2. [call |-> n, says |-> verb, fits |-> fits] \in Messages
      BY <1>1 DEF Messages
    <2>. QED  BY <2>1, <2>2 DEF TypeOK
  <1>3. /\ fate' \in Seq({"pending", "failed"} \cup Results) /\ Len(fate') = n
        /\ fate'[n] = "pending" /\ \A m \in 1 .. Len(fate) : fate'[m] = fate[m]
    BY DEF TypeOK
  <1>4. /\ outcome' \in Seq({"none"} \cup Results) /\ Len(outcome') = n
        /\ outcome'[n] = "none" /\ \A m \in 1 .. Len(fate) : outcome'[m] = outcome[m]
    BY DEF TypeOK
  <1>5. TypeOK'  BY <1>1, <1>2, <1>3, <1>4 DEF TypeOK, ClientLabels
  <1>6. Sockets'  BY DEF Sockets, Busy, TypeOK
  <1>7. Pending'
    <2>1. \A d \in Clients : d # c /\ Busy(d)' =>
             Busy(d) /\ request'[d].call \in 1 .. Len(fate)
      BY <1>2 DEF Pending, Busy
    <2>2. \A d \in Clients : Busy(d)' =>
             /\ request'[d].call \in 1 .. Len(fate')
             /\ fate'[request'[d].call] = "pending" /\ request'[d].says \in Verbs
      BY <1>1, <1>2, <1>3, <2>1 DEF Pending
    <2>3. \A d, e \in Clients : Busy(d)' /\ Busy(e)' /\ request'[d].call = request'[e].call => d = e
      BY <1>1, <1>2, <2>1 DEF Pending
    <2>4. \A m \in 1 .. Len(fate') : fate'[m] \notin {"pending", "failed"} => outcome'[m] # "none"
      BY <1>1, <1>3, <1>4 DEF Pending
    <2>. QED  BY <2>2, <2>3, <2>4 DEF Pending
  <1>8. NothingNew  BY ThreadKeeps DEF SameThread, NothingNew
  <1>9. Undecided'  BY <1>1, <1>3, <1>4, <1>8, UndecidedKept
  <1>10. OneRequest'  BY DEF OneRequest
  <1>11. ASSUME NEW d \in Clients, NEW k \in Conns, sock'[d] = k
         PROVE  Linked(d, k)'
    <2>1. Linked(d, k)  BY <1>11 DEF Attached
    <2>2. CASE d = c
      <3>1. cpc[c] = "line" /\ cpc'[c] = "sendHeader"  BY DEF TypeOK
      <3>2. Phase(c, k)'  BY <2>1, <2>2, <3>1 DEF Linked, Phase
      <3>3. Own(c, k)'
        <4>1. \A m \in 0 .. MaxCalls, j \in Conns : Carries(j, m)' => m # n
          BY <1>1, <1>8 DEF NothingNew, Undecided
        <4>2. toServer[k] = <<>> /\ toClient[k] = <<>> /\ tpc[k] \in {"backlog", "recvHeader", "closed"}
          BY <2>1, <2>2, <3>1 DEF Linked, Phase
        <4>. QED  BY <1>2, <1>4, <4>1, <4>2 DEF Own
      <3>4. Session(c, k)'
        BY <1>2, <1>4, <2>1, <2>2, <3>1 DEF Linked, Session, Knows, Busy
      <3>. QED  BY <2>2, <3>2, <3>3, <3>4 DEF Linked
    <2>3. CASE d # c
      <3>1. SameConn(k) /\ SameClient(d)
        BY <1>2, <2>3 DEF SameConn, SameThread, SameClient
      <3>2. Busy(d) => outcome'[request[d].call] = outcome[request[d].call]
        BY <1>4 DEF Pending
      <3>. QED  BY <2>1, <3>1, <3>2, LinkedKept, <1>8 DEF NothingNew
    <2>. QED  BY <2>2, <2>3
  <1>. QED  BY <1>5, <1>6, <1>7, <1>9, <1>10, <1>11 DEF Inv, Attached

\* The client sends the next part of its request; it is lost if the connection
\* is dead.
LEMMA SendStep ==
    ASSUME Inv, NEW c \in Clients,
           NEW part \in {"header", "body"}, NEW next \in ClientLabels,
           \/ cpc[c] = "sendHeader" /\ next = "sendBody"
           \/ cpc[c] = "sendBody" /\ next = "recvHeader",
           toServer' = Sent(toServer, sock[c], [part |-> part, of |-> request[c]]),
           Goto(c, next), UNCHANGED toClient
    PROVE  Inv'
  <1>. USE DEF Goto, threadVars, callVars
  <1>0. TypeOK /\ Sockets /\ Pending /\ Undecided /\ OneRequest /\ Attached  BY DEF Inv
  <1>. USE <1>0
  <1>. PICK k \in Conns : sock[c] = k
    BY DEF Sockets, Busy, TypeOK
  <1>. DEFINE n == request[c].call
              p == [part |-> part, of |-> request[c]]
  <1>1. k \in Conns /\ p \in Parts /\ Busy(c)
    BY DEF Busy, TypeOK, Parts
  <1>2. Phase(c, k) /\ Own(c, k) /\ Session(c, k)
    BY <1>1 DEF Attached, Linked
  <1>3. n \in 1 .. Len(fate) /\ n \in 0 .. MaxCalls /\ request[c].says \in Verbs
    BY <1>1, BoundsAssumption DEF Pending, TypeOK
  <1>4. /\ cpc'[c] = next /\ cpc' \in [Clients -> ClientLabels]
        /\ \A d \in Clients : d # c => cpc'[d] = cpc[d]
        /\ \A d \in Clients : Busy(d)' <=> Busy(d)
    BY DEF Busy, TypeOK
  <1>5. /\ toServer' \in [Conns -> Seq(Parts)]
        /\ \A j \in Conns : j # k => toServer'[j] = toServer[j]
        /\ \/ Dead(k) /\ toServer' = toServer
           \/ /\ ~Dead(k)
              /\ Len(toServer'[k]) = Len(toServer[k]) + 1
              /\ \A i \in 1 .. Len(toServer[k]) : toServer'[k][i] = toServer[k][i]
              /\ toServer'[k][Len(toServer[k]) + 1] = p
    <2>1. toServer \in [Conns -> Seq(Parts)] /\ toServer' = Sent(toServer, k, p)
      BY DEF TypeOK
    <2>2. toServer' \in [Conns -> Seq(Parts)]  BY <1>1, <2>1, SentQueue
    <2>3. \A j \in Conns : j # k => toServer'[j] = toServer[j]  BY <1>1, <2>1, SentQueue
    <2>4. CASE Dead(k)  BY <2>1, <2>2, <2>3, <2>4 DEF Sent
    <2>5. CASE ~Dead(k)
      <3>1. toServer'[k] = Append(toServer[k], p)  BY <2>1, <2>5 DEF Sent
      <3>2. toServer[k] \in Seq(Parts)  BY <2>1
      <3>. QED  BY <1>1, <2>2, <2>3, <2>5, <3>1, <3>2
    <2>. QED  BY <2>4, <2>5
  <1>6. /\ Len(toServer[k]) \in Nat /\ Len(toServer'[k]) \in Nat
        /\ \A i \in 1 .. Len(toServer'[k]) :
              toServer'[k][i] = p \/ (i \in 1 .. Len(toServer[k]) /\ toServer'[k][i] = toServer[k][i])
    BY <1>1, <1>5 DEF TypeOK
  <1>7. \A m \in 0 .. MaxCalls, j \in Conns :
           Carries(j, m)' => Carries(j, m) \/ (j = k /\ m = n)
    BY <1>5, <1>6 DEF Carries
  <1>8. TypeOK'  BY <1>4, <1>5 DEF TypeOK
  <1>9. Sockets'
    <2>1. \A j \in Conns : tpc[j] = "unused" => j # k  BY <1>1, ConnFacts DEF Sockets
    <2>2. \A j \in Conns : tpc'[j] = "unused" =>
             toServer'[j] = <<>> /\ toClient'[j] = <<>> /\ role'[j] = "STUDENT"
      BY <1>5, <2>1 DEF Sockets
    <2>. QED  BY <1>4, <2>2 DEF Sockets
  <1>10. Pending'  BY <1>4 DEF Pending
  <1>11. Undecided'
    <2>1. \A j \in Conns : Carries(j, n) => j = k  BY <1>2, <1>3 DEF Own
    <2>2. outcome[n] = "none"  BY <1>2 DEF Own
    <2>. QED  BY <1>3, <1>7, <2>1, <2>2 DEF Undecided
  <1>12. /\ Len(toServer'[k]) <= 2
         /\ cpc'[c] = "sendBody" => Len(toServer'[k]) <= 1
         /\ tpc[k] = "recvBody" => Len(toServer'[k]) <= 1
         /\ cpc'[c] = "sendBody" /\ tpc[k] = "recvBody" => toServer'[k] = <<>>
         /\ tpc[k] \notin {"backlog", "recvHeader", "recvBody"} => toServer'[k] = <<>>
         /\ tpc[k] # "unused" /\ tpc[k] # "dispatch" /\ tpc[k] # "sendHeader" /\ tpc[k] # "sendBody"
         /\ cpc'[c] = "sendBody" => tpc[k] # "recvBody"
    <2>1. /\ cpc[c] = "sendHeader" => Len(toServer[k]) = 0
          /\ Len(toServer[k]) <= 1
          /\ tpc[k] = "recvBody" => Len(toServer[k]) = 0
          /\ tpc[k] \in {"backlog", "recvHeader", "recvBody", "closed"}
          /\ cpc[c] = "sendHeader" => tpc[k] # "recvBody"
      BY <1>1, <1>2, Empty DEF Phase, TypeOK
    <2>2. tpc[k] = "closed" => toServer'[k] = toServer[k] /\ toServer[k] = <<>>
      BY <1>1, <1>5 DEF Dead, ServerEnd, OneRequest
    <2>. QED  BY <1>4, <1>5, <1>6, <2>1, <2>2
  <1>13. OneRequest'
    <2>1. ASSUME NEW j \in Conns, j # k
          PROVE  toServer'[j] = toServer[j] /\ tpc'[j] = tpc[j] /\ work'[j] = work[j]
      BY <1>5, <2>1
    <2>2. \A i \in 1 .. Len(toServer'[k]) : toServer'[k][i].of.says \in Verbs
      BY <1>1, <1>3, <1>6 DEF OneRequest
    <2>. HIDE DEF p, n
    <2>. QED  BY <1>12, <2>1, <2>2 DEF OneRequest
  <1>14. ASSUME NEW d \in Clients, NEW j \in Conns, sock'[d] = j
         PROVE  Linked(d, j)'
    <2>1. Linked(d, j)  BY <1>14 DEF Attached
    <2>2. CASE d = c
      <3>1. j = k /\ toClient[k] = <<>>  BY <2>2, <1>2, <1>14 DEF Phase
      <3>2. Phase(c, k)'
        <4>1. cpc'[c] = "recvHeader" => Len(toClient'[k]) + Owed(k)' <= 2
          BY <3>1, <1>12 DEF Owed
        <4>. QED  BY <1>2, <1>4, <1>12, <3>1, <4>1 DEF Phase
      <3>3. Own(c, k)'
        <4>1. \A i \in 1 .. Len(toServer'[k]) : toServer'[k][i].of = request[c]
          BY <1>2, <1>6 DEF Own
        <4>2. \A m \in 0 .. MaxCalls, i \in Conns : Carries(i, m)' /\ m = n => i = k
          BY <1>2, <1>7 DEF Own
        <4>. QED  BY <1>2, <1>4, <4>1, <4>2 DEF Own
      <3>4. Session(c, k)'  BY <1>2, <1>4 DEF Session, Knows
      <3>. QED  BY <1>1, <2>2, <3>1, <3>2, <3>3, <3>4 DEF Linked
    <2>3. CASE d # c
      <3>1. j # k  BY <2>3, <1>1, <1>14, ConnFacts DEF Sockets
      <3>2. SameConn(j) /\ SameClient(d)
        BY <1>4, <1>5, <2>3, <3>1 DEF SameConn, SameThread, SameClient
      <3>3. Busy(d) => request[d].call # n  BY <1>1, <2>3 DEF Pending
      <3>4. CASE Busy(d)  BY <2>1, <3>2, <3>3, <3>4, <1>7, LinkedKept
      <3>5. CASE ~Busy(d)
        BY <2>1, <3>2, <3>5, <1>4 DEF Linked, Phase, Owed, Session, SameConn, SameThread, SameClient
      <3>. QED  BY <3>4, <3>5
    <2>. QED  BY <2>2, <2>3
  <1>. QED  BY <1>8, <1>9, <1>10, <1>11, <1>13, <1>14 DEF Inv, Attached

\* The header of the answer is read.
LEMMA RecvHeaderStep ==
    ASSUME Inv, NEW c \in Clients, cpc[c] = "recvHeader", toClient[sock[c]] # <<>>,
           toClient' = Read(toClient, sock[c]), Goto(c, "recvBody"), UNCHANGED toServer
    PROVE  Inv'
  <1>. USE DEF Goto, threadVars, callVars
  <1>0. TypeOK /\ Sockets /\ Pending /\ Undecided /\ OneRequest /\ Attached  BY DEF Inv
  <1>. USE <1>0
  <1>. PICK k \in Conns : sock[c] = k  BY DEF Sockets, Busy, TypeOK
  <1>1. Busy(c) /\ Phase(c, k) /\ Own(c, k) /\ Session(c, k)
    BY DEF Busy, Attached, Linked
  <1>2. /\ cpc'[c] = "recvBody" /\ cpc' \in [Clients -> ClientLabels]
        /\ \A d \in Clients : d # c => cpc'[d] = cpc[d]
        /\ \A d \in Clients : Busy(d)' <=> Busy(d)
    BY DEF Busy, TypeOK, ClientLabels
  <1>3. /\ toClient' \in [Conns -> Seq(Parts)]
        /\ \A j \in Conns : j # k => toClient'[j] = toClient[j]
        /\ Len(toClient[k]) \in Nat \ {0}
        /\ Len(toClient'[k]) = Len(toClient[k]) - 1
        /\ \A i \in 1 .. Len(toClient[k]) - 1 : toClient'[k][i] = toClient[k][i + 1]
    <2>1. toClient \in [Conns -> Seq(Parts)] /\ toClient[k] # <<>> /\ toClient' = Read(toClient, k)
      BY DEF TypeOK
    <2>2. /\ Read(toClient, k) \in [Conns -> Seq(Parts)]
          /\ \A j \in Conns : j # k => Read(toClient, k)[j] = toClient[j]
          /\ Len(toClient[k]) \in Nat \ {0}
          /\ Len(Read(toClient, k)[k]) = Len(toClient[k]) - 1
          /\ \A i \in 1 .. Len(toClient[k]) - 1 : Read(toClient, k)[k][i] = toClient[k][i + 1]
      BY <2>1, ReadQueue
    <2>. QED  BY <2>1, <2>2
  <1>4. TypeOK'  BY <1>2, <1>3 DEF TypeOK
  <1>5. Sockets'
    <2>1. \A j \in Conns : tpc[j] = "unused" => j # k  BY ConnFacts DEF Sockets
    <2>. QED  BY <1>2, <1>3, <2>1 DEF Sockets
  <1>6. Pending'  BY <1>2 DEF Pending
  <1>7. NothingNew  BY ThreadKeeps DEF SameThread, NothingNew
  <1>8. Undecided'  BY <1>7, UndecidedKept DEF TypeOK
  <1>9. OneRequest'  BY DEF OneRequest
  <1>10. ASSUME NEW d \in Clients, NEW j \in Conns, sock'[d] = j
         PROVE  Linked(d, j)'
    <2>1. Linked(d, j)  BY <1>10 DEF Attached
    <2>2. CASE d = c
      <3>1. j = k  BY <2>2, <1>10
      <3>2. Phase(c, k)'
        <4>1. Owed(k)' = Owed(k) /\ Owed(k) \in Nat  BY DEF Owed
        <4>. QED  BY <1>1, <1>2, <1>3, <4>1 DEF Phase
      <3>3. Own(c, k)'
        <4>1. \A i \in 1 .. Len(toClient'[k]) : i + 1 \in 1 .. Len(toClient[k])
          BY <1>3
        <4>2. \A m \in 0 .. MaxCalls, i \in Conns : Carries(i, m)' => Carries(i, m)
          BY <1>7 DEF NothingNew
        <4>3. \A i \in 1 .. Len(toClient'[k]) :
                 toClient'[k][i].of.says = outcome[request[c].call] /\ outcome[request[c].call] # "none"
          <5>1. \A i \in 1 .. Len(toClient[k]) :
                   toClient[k][i].of.says = outcome[request[c].call] /\ outcome[request[c].call] # "none"
            BY <1>1 DEF Own
          <5>2. \A i \in 1 .. Len(toClient'[k]) : toClient'[k][i] = toClient[k][i + 1]
            BY <1>3
          <5>. QED  BY <4>1, <5>1, <5>2
        <4>. QED  BY <1>1, <1>2, <4>2, <4>3 DEF Own
      <3>4. Session(c, k)'  BY <1>1, <1>2 DEF Session, Knows
      <3>. QED  BY <2>2, <3>1, <3>2, <3>3, <3>4 DEF Linked
    <2>3. CASE d # c
      <3>1. j # k  BY <2>3, <1>10, ConnFacts DEF Sockets
      <3>2. SameConn(j) /\ SameClient(d)
        BY <1>2, <1>3, <2>3, <3>1 DEF SameConn, SameThread, SameClient
      <3>. QED  BY <2>1, <3>2, <1>7, LinkedKept DEF NothingNew
    <2>. QED  BY <2>2, <2>3
  <1>. QED  BY <1>4, <1>5, <1>6, <1>8, <1>9, <1>10 DEF Inv, Attached


\* What is read as the body of an answer is what was decided on this call, and
\* nothing is behind it.
LEMMA AnswerFacts ==
    ASSUME Inv, NEW c \in Clients, NEW k \in Conns, sock[c] = k,
           cpc[c] = "recvBody", toClient[k] # <<>>
    PROVE  /\ Head(toClient[k]).of.says = outcome[request[c].call]
           /\ Head(toClient[k]).of.says \in Results
           /\ outcome[request[c].call] # "none"
           /\ Len(toClient[k]) = 1 /\ toServer[k] = <<>>
           /\ tpc[k] \in {"backlog", "recvHeader", "closed"}
  <1>. USE DEF Inv
  <1>1. Busy(c) /\ Phase(c, k) /\ Own(c, k)  BY DEF Busy, Attached, Linked
  <1>2. toClient[k] \in Seq(Parts) /\ Len(toClient[k]) \in Nat \ {0}  BY Empty DEF TypeOK
  <1>3. Head(toClient[k]) = toClient[k][1] /\ 1 \in 1 .. Len(toClient[k])  BY <1>2
  <1>4. /\ toClient[k][1].of.says = outcome[request[c].call]
        /\ outcome[request[c].call] # "none"
    BY <1>1, <1>3 DEF Own
  <1>5. outcome[request[c].call] \in Results
    <2>1. request[c].call \in 1 .. Len(outcome)  BY <1>1 DEF Pending, TypeOK
    <2>2. outcome \in Seq({"none"} \cup Results)  BY DEF TypeOK
    <2>. QED  BY <2>1, <2>2, <1>4
  <1>6. Len(toClient[k]) + Owed(k) <= 1  BY <1>1 DEF Phase
  <1>7. /\ Len(toClient[k]) = 1 /\ toServer[k] = <<>>
        /\ tpc[k] \notin {"recvBody", "dispatch", "sendHeader", "sendBody"}
    <2>1. Owed(k) \in Nat  BY DEF Owed
    <2>2. \A a \in Nat \ {0}, b \in Nat : a + b <= 1 => a = 1 /\ b = 0  OBVIOUS
    <2>3. Len(toClient[k]) = 1 /\ Owed(k) = 0
      <3>. HIDE DEF Inv
      <3>. QED  BY <1>2, <1>6, <2>1, <2>2
    <2>. QED  BY <2>3 DEF Owed
  <1>8. tpc[k] \in ThreadLabels /\ tpc[k] # "unused"  BY ConnFacts DEF Sockets, TypeOK
  <1>. QED  BY <1>3, <1>4, <1>5, <1>7, <1>8 DEF ThreadLabels

\* The body is read: the client's knowledge of the session catches up.
LEMMA AnsweredStep ==
    ASSUME Inv, NEW c \in Clients, cpc[c] = "recvBody", toClient[sock[c]] # <<>>,
           Answered(c, Head(toClient[sock[c]]).of)
    PROVE  Inv'
  <1>. USE DEF threadVars
  <1>0. TypeOK /\ Sockets /\ Pending /\ Undecided /\ OneRequest /\ Attached  BY DEF Inv
  <1>. USE <1>0
  <1>. PICK k \in Conns : sock[c] = k  BY DEF Sockets, Busy, TypeOK
  <1>. DEFINE r == Head(toClient[k]).of.says
  <1>1. Busy(c) /\ Phase(c, k) /\ Own(c, k) /\ Session(c, k)
    BY DEF Busy, Attached, Linked
  <1>2. /\ r = outcome[request[c].call] /\ r \in Results /\ outcome[request[c].call] # "none"
        /\ Len(toClient[k]) = 1 /\ toServer[k] = <<>>
        /\ tpc[k] \in {"backlog", "recvHeader", "closed"}
    BY AnswerFacts
  <1>3. Settle(c, r) /\ UNCHANGED <<sock, threadVars, toServer, broken, outcome, log>>
    BY DEF Answered, Settle
  <1>4. /\ cpc' \in [Clients -> ClientLabels] /\ cpc'[c] = "line"
        /\ request' \in [Clients -> Messages]
        /\ fate' \in Seq({"pending", "failed"} \cup Results)
        /\ Len(fate') = Len(fate)
        /\ \A d \in Clients : d # c => cpc'[d] = cpc[d] /\ request'[d] = request[d]
        /\ Pending'
    BY <1>1, <1>2, <1>3, SettleFacts
  <1>5. /\ toClient' \in [Conns -> Seq(Parts)] /\ toClient'[k] = <<>>
        /\ \A j \in Conns : j # k => toClient'[j] = toClient[j]
    <2>1. toClient \in [Conns -> Seq(Parts)] /\ toClient[k] # <<>> /\ toClient' = Read(toClient, k)
      BY DEF TypeOK, Answered
    <2>2. /\ toClient' \in [Conns -> Seq(Parts)] /\ Len(toClient'[k]) = Len(toClient[k]) - 1
          /\ \A j \in Conns : j # k => toClient'[j] = toClient[j]
      BY <2>1, ReadQueue
    <2>. QED  BY <1>2, <2>2, Empty
  <1>6. /\ trusted' \in [Clients -> BOOLEAN] /\ trusted'[c] = Knows(c, r)
        /\ \A d \in Clients : d # c => trusted'[d] = trusted[d]
    BY DEF Answered, Knows, TypeOK
  <1>7. TypeOK'  BY <1>3, <1>4, <1>5, <1>6 DEF TypeOK
  <1>8. Sockets'
    <2>1. \A j \in Conns : tpc[j] = "unused" => j # k  BY ConnFacts DEF Sockets
    <2>. QED  BY <1>3, <1>4, <1>5, <2>1 DEF Sockets, Busy
  <1>9. NothingNew  BY <1>3, ThreadKeeps DEF SameThread, NothingNew
  <1>10. Undecided'  BY <1>3, <1>4, <1>9, UndecidedKept DEF TypeOK
  <1>11. OneRequest'  BY <1>3 DEF OneRequest
  <1>12. ASSUME NEW d \in Clients, NEW j \in Conns, sock'[d] = j
         PROVE  Linked(d, j)'
    <2>1. Linked(d, j)  BY <1>3, <1>12 DEF Attached
    <2>2. CASE d = c
      <3>1. j = k  BY <2>2, <1>3, <1>12
      <3>2. Phase(c, k)'  BY <1>2, <1>3, <1>4, <1>5 DEF Phase
      <3>3. Session(c, k)'  BY <1>1, <1>2, <1>3, <1>4, <1>6 DEF Session, Busy
      <3>4. ~Busy(c)'  BY <1>4 DEF Busy
      <3>. QED  BY <2>2, <3>1, <3>2, <3>3, <3>4 DEF Linked
    <2>3. CASE d # c
      <3>1. j # k  BY <2>3, <1>3, <1>12, ConnFacts DEF Sockets
      <3>2. SameConn(j) /\ SameClient(d)
        BY <1>3, <1>4, <1>5, <1>6, <2>3, <3>1 DEF SameConn, SameThread, SameClient
      <3>. QED  BY <2>1, <3>2, <1>3, <1>9, LinkedKept DEF NothingNew
    <2>. QED  BY <2>2, <2>3
  <1>. QED  BY <1>4, <1>7, <1>8, <1>10, <1>11, <1>12 DEF Inv, Attached

\* Every step of a client.
LEMMA ClientStep ==
    ASSUME Inv, NEW c \in Clients, Reads(c) \/ ClientRuns(c) \/ Restart(c)
    PROVE  Inv' \/ UNCHANGED vars
  <1>1. CASE Refused(c)
    BY <1>1 DEF Refused, Local, vars, clientVars, threadVars, netVars, callVars
  <1>2. CASE Connect(c)  BY <1>2, ConnectStep
  <1>3. CASE Disconnect(c)  BY <1>3, DisconnectStep
  <1>4. CASE Ask(c)  BY <1>4, AskStep
  <1>5. CASE SendHeader(c)
    BY <1>5, SendStep, FailStep DEF SendHeader, Busy, ClientLabels
  <1>6. CASE SendBody(c)
    BY <1>6, SendStep, FailStep DEF SendBody, Busy, ClientLabels
  <1>7. CASE RecvHeader(c)
    BY <1>7, RecvHeaderStep, FailStep DEF RecvHeader, Busy
  <1>8. CASE RecvBody(c)  BY <1>8, AnsweredStep, FailStep DEF RecvBody, Busy
  <1>9. CASE Restart(c)  BY <1>9, RestartStep
  <1>. QED  BY <1>1, <1>2, <1>3, <1>4, <1>5, <1>6, <1>7, <1>8, <1>9 DEF Reads, ClientRuns

-----------------------------------------------------------------------------
(* The threads of the connections. *)

\* A step of the thread of k decides nothing and disturbs no other connection.
LEMMA ThreadFrame ==
    ASSUME Inv, NEW k \in Conns, UNCHANGED <<clientVars, callVars>>,
           TypeOK', OneRequest', NothingNew,
           \A j \in Conns : j # k => SameConn(j),
           tpc[k] # "unused", tpc'[k] # "unused",
           \A c \in Clients : sock[c] = k => Linked(c, k)'
    PROVE  Inv'
  <1>. USE DEF clientVars, callVars
  <1>0. TypeOK /\ Sockets /\ Pending /\ Undecided /\ OneRequest /\ Attached  BY DEF Inv
  <1>. USE <1>0
  <1>1. Sockets'
    <2>1. \A j \in Conns : (tpc'[j] = "unused") <=> (tpc[j] = "unused")
      BY DEF SameConn, SameThread
    <2>2. \A c \in Clients : sock[c] # None => sock[c] \in Conns  BY DEF TypeOK
    <2>3. \A c \in Clients : sock[c] # None => tpc'[sock[c]] # "unused"
      BY <2>1, <2>2 DEF Sockets
    <2>4. \A j \in Conns : tpc'[j] = "unused" =>
             toServer'[j] = <<>> /\ toClient'[j] = <<>> /\ role'[j] = "STUDENT"
      BY <2>1 DEF Sockets, SameConn, SameThread
    <2>. QED  BY <2>3, <2>4 DEF Sockets, Busy
  <1>2. Pending'  BY DEF Pending, Busy
  <1>3. Undecided'  BY UndecidedKept DEF TypeOK
  <1>4. Attached'
    <2>1. ASSUME NEW c \in Clients, NEW j \in Conns, sock[c] = j, j # k
          PROVE  Linked(c, j)'
      <3>1. SameConn(j) /\ SameClient(c) /\ Linked(c, j)
        BY <2>1 DEF SameClient, Attached
      <3>. QED  BY <3>1, LinkedKept DEF NothingNew
    <2>. QED  BY <2>1 DEF Attached
  <1>. QED  BY <1>1, <1>2, <1>3, <1>4 DEF Inv

\* What a thread that is not at rest may assume of the client it serves.
LEMMA ServedFacts ==
    ASSUME Inv, NEW c \in Clients, NEW k \in Conns, sock[c] = k,
           tpc[k] # "unused",
           \/ tpc[k] = "recvHeader" /\ toServer[k] # <<>>
           \/ tpc[k] = "recvBody" /\ toServer[k] # <<>>
           \/ tpc[k] \in {"dispatch", "sendHeader", "sendBody"}
    PROVE  /\ Busy(c) /\ Own(c, k) /\ Session(c, k)
           /\ Len(toClient[k]) \in Nat /\ Len(toServer[k]) \in Nat
           /\ \/ /\ cpc[c] = "sendBody" /\ tpc[k] = "recvHeader"
                 /\ toClient[k] = <<>> /\ Len(toServer[k]) <= 1
              \/ cpc[c] = "recvHeader" /\ tpc[k] # "sendBody" /\ toClient[k] = <<>>
              \/ cpc[c] = "recvHeader" /\ tpc[k] = "sendBody" /\ Len(toClient[k]) <= 1
              \/ cpc[c] = "recvBody" /\ tpc[k] = "sendBody" /\ toClient[k] = <<>>
  <1>0. TypeOK /\ OneRequest /\ Attached  BY DEF Inv
  <1>1. /\ toClient[k] \in Seq(Parts) /\ Len(toClient[k]) \in Nat /\ Len(toServer[k]) \in Nat
        /\ cpc[c] \in ClientLabels
    BY <1>0 DEF TypeOK
  <1>2. Phase(c, k) /\ Session(c, k) /\ (Busy(c) => Own(c, k))  BY <1>0 DEF Attached, Linked
  <1>3. cpc[c] \notin {"line", "sendHeader"}  BY <1>2 DEF Phase
  <1>4. Owed(k) = IF tpc[k] = "sendBody" THEN 1 ELSE 2  BY DEF Owed
  <1>5. CASE cpc[c] = "sendBody"
    <2>1. toClient[k] = <<>> /\ tpc[k] = "recvHeader" /\ Len(toServer[k]) <= 1
      BY <1>2, <1>5 DEF Phase
    <2>. QED  BY <1>1, <1>2, <1>5, <2>1 DEF Busy
  <1>6. CASE cpc[c] = "recvHeader"
    <2>1. Len(toClient[k]) + Owed(k) <= 2  BY <1>2, <1>6 DEF Phase
    <2>2. CASE tpc[k] = "sendBody"
      BY <1>1, <1>2, <1>4, <1>6, <2>1, <2>2 DEF Busy
    <2>3. CASE tpc[k] # "sendBody"
      <3>1. Len(toClient[k]) = 0  BY <1>1, <1>4, <2>1, <2>3
      <3>. QED  BY <1>1, <1>2, <1>6, <2>3, <3>1, Empty DEF Busy
    <2>. QED  BY <2>2, <2>3
  <1>7. CASE cpc[c] = "recvBody"
    <2>1. Len(toClient[k]) + Owed(k) <= 1  BY <1>2, <1>7 DEF Phase
    <2>2. \A a \in Nat : (a + 1 <= 1 => a = 0) /\ ~(a + 2 <= 1)  OBVIOUS
    <2>3. tpc[k] = "sendBody"  BY <1>1, <1>4, <2>1, <2>2
    <2>4. Len(toClient[k]) = 0  BY <1>1, <1>4, <2>1, <2>2, <2>3
    <2>. QED  BY <1>1, <1>2, <1>7, <2>3, <2>4, Empty DEF Busy
  <1>. QED  BY <1>1, <1>3, <1>5, <1>6, <1>7 DEF ClientLabels

\* The connection leaves the backlog of the listener.
LEMMA AcceptStep ==
    ASSUME Inv, NEW k \in Conns, Accept(k)
    PROVE  Inv'
  <1>. USE DEF Accept, ThreadGoto, clientVars, callVars
  <1>0. TypeOK /\ OneRequest /\ Attached  BY DEF Inv
  <1>. USE <1>0
  <1>1. TypeOK' /\ tpc'[k] = "recvHeader"  BY DEF TypeOK, ThreadLabels
  <1>2. \A j \in Conns : j # k => SameConn(j)  BY DEF SameConn, SameThread, TypeOK
  <1>3. NothingNew  BY <1>1, <1>2 DEF NothingNew, Carries, SameConn, SameThread
  <1>4. OneRequest'  BY <1>1, <1>2 DEF OneRequest, SameConn, SameThread
  <1>5. ASSUME NEW c \in Clients, sock[c] = k
        PROVE  Linked(c, k)'
    <2>1. Linked(c, k)  BY <1>5 DEF Attached
    <2>2. Phase(c, k)'  BY <1>1, <2>1 DEF Linked, Phase, Owed
    <2>3. Session(c, k)'  BY <1>1, <2>1 DEF Linked, Session, Knows, Busy
    <2>4. Busy(c)' => Own(c, k)'
      BY <1>1, <1>3, <2>1 DEF Linked, Own, Busy, NothingNew
    <2>. QED  BY <2>2, <2>3, <2>4 DEF Linked
  <1>. QED  BY <1>1, <1>2, <1>3, <1>4, <1>5, ThreadFrame

\* handle_client returns: what it owed is never sent.
LEMMA EndStep ==
    ASSUME Inv, NEW k \in Conns, tpc[k] \notin {"unused", "closed"}, End(k)
    PROVE  Inv'
  <1>. USE DEF End, clientVars, callVars
  <1>0. TypeOK /\ OneRequest /\ Attached  BY DEF Inv
  <1>. USE <1>0
  <1>1. /\ TypeOK' /\ tpc'[k] = "closed" /\ toServer'[k] = <<>>
        /\ \A j \in Conns : j # k => SameConn(j)
    <2>1. toServer \in [Conns -> Seq(Parts)] /\ toServer' = Drained(toServer, k)
      BY DEF TypeOK
    <2>2. /\ toServer' \in [Conns -> Seq(Parts)] /\ toServer'[k] = <<>>
          /\ \A j \in Conns : j # k => toServer'[j] = toServer[j]
      BY <2>1, DrainedQueue
    <2>3. /\ tpc' \in [Conns -> ThreadLabels] /\ tpc'[k] = "closed"
          /\ role' \in [Conns -> {"STUDENT", "ADMIN"}] /\ work' \in [Conns -> Messages]
          /\ \A j \in Conns : j # k => tpc'[j] = tpc[j] /\ role'[j] = role[j] /\ work'[j] = work[j]
      BY NothingFits DEF TypeOK, ThreadLabels
    <2>4. TypeOK'  BY <2>2, <2>3 DEF TypeOK
    <2>. QED  BY <2>2, <2>3, <2>4 DEF SameConn, SameThread
  <1>2. NothingNew
    <2>1. \A n \in 0 .. MaxCalls : ~Carries(k, n)'  BY <1>1 DEF Carries
    <2>. QED  BY <1>1, <2>1, ThreadKeeps DEF NothingNew, SameConn
  <1>3. OneRequest'  BY <1>1 DEF OneRequest, SameConn, SameThread
  <1>4. ASSUME NEW c \in Clients, sock[c] = k
        PROVE  Linked(c, k)'
    <2>1. Linked(c, k)  BY <1>4 DEF Attached
    <2>2. Phase(c, k)'
      <3>1. Owed(k)' = 0  BY <1>1 DEF Owed
      <3>2. Owed(k) \in Nat /\ Len(toClient[k]) \in Nat  BY DEF Owed, TypeOK
      <3>. QED  BY <1>1, <2>1, <3>1, <3>2 DEF Linked, Phase
    <2>3. Session(c, k)'  BY <1>1 DEF Session
    <2>4. Busy(c)' => Own(c, k)'
      BY <1>1, <1>2, <2>1 DEF Linked, Own, Busy, NothingNew
    <2>. QED  BY <2>2, <2>3, <2>4 DEF Linked
  <1>. QED  BY <1>1, <1>2, <1>3, <1>4, ThreadFrame

\* What the thread reads leaves its queue; it had at least that before it.
LEMMA TakenFacts ==
    ASSUME TypeOK, NEW k \in Conns, toServer[k] # <<>>, toServer' = Read(toServer, k)
    PROVE  /\ toServer' \in [Conns -> Seq(Parts)]
           /\ \A j \in Conns : j # k => toServer'[j] = toServer[j]
           /\ Len(toServer[k]) \in Nat \ {0} /\ 1 \in 1 .. Len(toServer[k])
           /\ Len(toServer'[k]) = Len(toServer[k]) - 1
           /\ \A i \in 1 .. Len(toServer'[k]) :
                 i + 1 \in 1 .. Len(toServer[k]) /\ toServer'[k][i] = toServer[k][i + 1]
           /\ Head(toServer[k]) = toServer[k][1] /\ Head(toServer[k]) \in Parts
  <1>1. toServer \in [Conns -> Seq(Parts)]  BY DEF TypeOK
  <1>2. /\ toServer' \in [Conns -> Seq(Parts)]
        /\ \A j \in Conns : j # k => toServer'[j] = toServer[j]
        /\ Len(toServer[k]) \in Nat \ {0}
        /\ Len(toServer'[k]) = Len(toServer[k]) - 1
        /\ \A i \in 1 .. Len(toServer[k]) - 1 : toServer'[k][i] = toServer[k][i + 1]
        /\ Head(toServer[k]) = toServer[k][1] /\ Head(toServer[k]) \in Parts
    BY <1>1, ReadQueue
  <1>. QED  BY <1>2

\* Package_receive reads the header, then the body, of a request.
LEMMA TakeStep ==
    ASSUME Inv, NEW k \in Conns, toServer[k] # <<>>,
           toServer' = Read(toServer, k),
           \/ tpc[k] = "recvHeader" /\ ThreadGoto(k, "recvBody") /\ UNCHANGED work
           \/ /\ tpc[k] = "recvBody" /\ ThreadGoto(k, "dispatch")
              /\ work' = [work EXCEPT ![k] = Head(toServer[k]).of],
           UNCHANGED <<toClient, callVars>>
    PROVE  Inv'
  <1>. USE DEF ThreadGoto, clientVars, callVars
  <1>0. TypeOK /\ OneRequest /\ Attached  BY DEF Inv
  <1>. USE <1>0
  <1>1. /\ toServer' \in [Conns -> Seq(Parts)]
        /\ \A j \in Conns : j # k => toServer'[j] = toServer[j]
        /\ Len(toServer[k]) \in Nat \ {0} /\ 1 \in 1 .. Len(toServer[k])
        /\ Len(toServer'[k]) = Len(toServer[k]) - 1
        /\ \A i \in 1 .. Len(toServer'[k]) :
              i + 1 \in 1 .. Len(toServer[k]) /\ toServer'[k][i] = toServer[k][i + 1]
        /\ Head(toServer[k]) = toServer[k][1] /\ Head(toServer[k]) \in Parts
    BY TakenFacts
  <1>a. Len(toServer[k]) <= 1 => Len(toServer'[k]) = 0
    <2>1. \A a \in Nat \ {0} : a <= 1 => a - 1 = 0  OBVIOUS
    <2>. QED  BY <1>1, <2>1
  <1>2. /\ \/ tpc[k] = "recvHeader" /\ tpc'[k] = "recvBody"
           \/ tpc[k] = "recvBody" /\ tpc'[k] = "dispatch" /\ work'[k] = toServer[k][1].of
        /\ work' \in [Conns -> Messages] /\ tpc' \in [Conns -> ThreadLabels]
        /\ \A j \in Conns : j # k => tpc'[j] = tpc[j] /\ work'[j] = work[j]
    <2>1. toServer[k][1].of \in Messages  BY <1>1 DEF Parts
    <2>2. /\ work \in [Conns -> Messages] /\ tpc \in [Conns -> ThreadLabels]
          /\ {"recvBody", "dispatch"} \subseteq ThreadLabels
      BY DEF TypeOK, ThreadLabels
    <2>. HIDE DEF TypeOK
    <2>3. CASE tpc[k] = "recvHeader" /\ ThreadGoto(k, "recvBody") /\ UNCHANGED work
      BY <2>2, <2>3
    <2>4. CASE /\ tpc[k] = "recvBody" /\ ThreadGoto(k, "dispatch")
               /\ work' = [work EXCEPT ![k] = Head(toServer[k]).of]
      BY <1>1, <2>1, <2>2, <2>4
    <2>. QED  BY <2>3, <2>4
  <1>3. TypeOK'  BY <1>1, <1>2 DEF TypeOK
  <1>4. \A j \in Conns : j # k => SameConn(j)
    BY <1>1, <1>2 DEF SameConn, SameThread
  <1>5. NothingNew
    <2>1. ASSUME NEW n \in 0 .. MaxCalls, Carries(k, n)'
          PROVE  Carries(k, n)
      <3>1. CASE \E i \in 1 .. Len(toServer'[k]) : toServer'[k][i].of.call = n
        <4>1. PICK i \in 1 .. Len(toServer'[k]) : toServer'[k][i].of.call = n  BY <3>1
        <4>2. i + 1 \in 1 .. Len(toServer[k]) /\ toServer[k][i + 1].of.call = n
          BY <1>1, <4>1
        <4>. QED  BY <4>2 DEF Carries
      <3>2. CASE tpc'[k] = "dispatch" /\ work'[k].call = n
        BY <1>1, <1>2, <3>2 DEF Carries
      <3>. QED  BY <2>1, <3>1, <3>2 DEF Carries
    <2>. QED  BY <1>4, <2>1, ThreadKeeps DEF NothingNew, SameConn
  <1>6. OneRequest'
    <2>1. /\ Len(toServer'[k]) <= 1
          /\ tpc'[k] = "dispatch" => toServer'[k] = <<>> /\ work'[k].says \in Verbs
          /\ \A i \in 1 .. Len(toServer'[k]) : toServer'[k][i].of.says \in Verbs
      <3>1. Len(toServer'[k]) <= 1  BY <1>1 DEF OneRequest
      <3>2. ASSUME tpc'[k] = "dispatch"
            PROVE  toServer'[k] = <<>> /\ work'[k].says \in Verbs
        <4>1. Len(toServer'[k]) = 0  BY <1>a, <1>2, <3>2 DEF OneRequest
        <4>2. work'[k].says \in Verbs  BY <1>1, <1>2, <3>2 DEF OneRequest
        <4>. QED  BY <1>1, <4>1, <4>2, Empty
      <3>3. \A i \in 1 .. Len(toServer'[k]) : toServer'[k][i].of.says \in Verbs
        BY <1>1 DEF OneRequest
      <3>. QED  BY <3>1, <3>2, <3>3
    <2>2. tpc'[k] \in {"recvBody", "dispatch"} /\ Len(toServer'[k]) \in Nat  BY <1>1, <1>2
    <2>. QED  BY <1>4, <2>1, <2>2 DEF OneRequest, SameConn, SameThread
  <1>7. ASSUME NEW c \in Clients, sock[c] = k
        PROVE  Linked(c, k)'
    <2>1. /\ Busy(c) /\ Own(c, k) /\ Session(c, k)
          /\ toClient[k] = <<>>
          /\ \/ cpc[c] = "sendBody" /\ tpc[k] = "recvHeader" /\ Len(toServer[k]) <= 1
             \/ cpc[c] = "recvHeader"
      BY <1>2, <1>7, ServedFacts
    <2>2. Phase(c, k)'
      <3>1. CASE cpc[c] = "recvHeader"
        <4>1. Owed(k)' = 2  BY <1>2 DEF Owed
        <4>2. Len(toClient'[k]) = 0  BY <2>1
        <4>. QED  BY <3>1, <4>1, <4>2 DEF Phase
      <3>2. CASE cpc[c] = "sendBody"
        <4>1. Len(toServer'[k]) = 0 /\ tpc'[k] = "recvBody"  BY <1>a, <1>2, <2>1, <3>2
        <4>. QED  BY <1>1, <2>1, <3>2, <4>1, Empty DEF Phase
      <3>. QED  BY <2>1, <3>1, <3>2
    <2>3. Session(c, k)'  BY <1>2, <2>1 DEF Session, Knows, Busy
    <2>4. Own(c, k)'
      <3>1. \A i \in 1 .. Len(toServer[k]) : toServer[k][i].of = request[c]
        BY <2>1 DEF Own
      <3>2. \A i \in 1 .. Len(toServer'[k]) : toServer'[k][i].of = request[c]
        BY <1>1, <3>1
      <3>3. tpc'[k] = "dispatch" => work'[k] = request[c]
        BY <1>1, <1>2, <3>1
      <3>. QED  BY <1>2, <1>5, <2>1, <3>2, <3>3 DEF Own, NothingNew
    <2>. QED  BY <2>2, <2>3, <2>4 DEF Linked
  <1>. QED  BY <1>2, <1>3, <1>4, <1>5, <1>6, <1>7, ThreadFrame

\* send_response_s sends the header, then the body, of the answer.
LEMMA ReplyStep ==
    ASSUME Inv, NEW k \in Conns, NEW part \in {"header", "body"},
           toClient' = Sent(toClient, k, [part |-> part, of |-> work[k]]),
           \/ tpc[k] = "sendHeader" /\ ThreadGoto(k, "sendBody") /\ UNCHANGED work
           \/ /\ tpc[k] = "sendBody" /\ ThreadGoto(k, "recvHeader")
              /\ work' = [work EXCEPT ![k] = Nothing],
           UNCHANGED <<toServer, callVars>>
    PROVE  Inv'
  <1>. USE DEF ThreadGoto, clientVars, callVars
  <1>0. TypeOK /\ OneRequest /\ Attached  BY DEF Inv
  <1>. USE <1>0
  <1>. DEFINE p == [part |-> part, of |-> work[k]]
  <1>1. /\ toClient' \in [Conns -> Seq(Parts)]
        /\ \A j \in Conns : j # k => toClient'[j] = toClient[j]
        /\ \/ toClient'[k] = toClient[k]
           \/ toClient'[k] = Append(toClient[k], p)
    <2>1. toClient \in [Conns -> Seq(Parts)] /\ p \in Parts  BY DEF TypeOK, Parts
    <2>2. toClient' = Sent(toClient, k, p)  OBVIOUS
    <2>. HIDE DEF p
    <2>. QED  BY <2>1, <2>2 DEF Sent
  <1>2. /\ toClient[k] \in Seq(Parts) /\ Len(toClient[k]) \in Nat /\ Len(toClient'[k]) \in Nat
        /\ Len(toClient'[k]) <= Len(toClient[k]) + 1
        /\ \A i \in 1 .. Len(toClient'[k]) :
              toClient'[k][i] = p \/ (i \in 1 .. Len(toClient[k]) /\ toClient'[k][i] = toClient[k][i])
    <2>1. toClient[k] \in Seq(Parts) /\ Len(toClient[k]) \in Nat  BY DEF TypeOK
    <2>2. CASE toClient'[k] = toClient[k]  BY <2>1, <2>2
    <2>3. CASE toClient'[k] = Append(toClient[k], p)
      <3>. HIDE DEF p
      <3>. QED  BY SMTT(30), <2>1, <2>3
    <2>. QED  BY <1>1, <2>2, <2>3
  <1>3. /\ \/ tpc[k] = "sendHeader" /\ tpc'[k] = "sendBody" /\ work'[k] = work[k]
           \/ tpc[k] = "sendBody" /\ tpc'[k] = "recvHeader"
        /\ work' \in [Conns -> Messages] /\ tpc' \in [Conns -> ThreadLabels]
        /\ \A j \in Conns : j # k => tpc'[j] = tpc[j] /\ work'[j] = work[j]
    <2>1. /\ work \in [Conns -> Messages] /\ tpc \in [Conns -> ThreadLabels]
          /\ {"sendBody", "recvHeader"} \subseteq ThreadLabels
      BY DEF TypeOK, ThreadLabels
    <2>2. CASE tpc[k] = "sendHeader" /\ ThreadGoto(k, "sendBody") /\ UNCHANGED work
      BY <2>1, <2>2
    <2>3. CASE tpc[k] = "sendBody" /\ ThreadGoto(k, "recvHeader") /\ work' = [work EXCEPT ![k] = Nothing]
      BY <2>1, <2>3, NothingFits
    <2>. QED  BY <2>2, <2>3
  <1>4. TypeOK'  BY <1>1, <1>3 DEF TypeOK
  <1>5. \A j \in Conns : j # k => SameConn(j)
    BY <1>1, <1>3 DEF SameConn, SameThread
  <1>6. toServer[k] = <<>> /\ toServer'[k] = <<>>  BY <1>3 DEF OneRequest
  <1>7. NothingNew
    <2>1. \A n \in 0 .. MaxCalls : ~Carries(k, n)'  BY <1>3, <1>6 DEF Carries
    <2>. QED  BY <1>5, <2>1, ThreadKeeps DEF NothingNew, SameConn
  <1>8. OneRequest'  BY <1>3, <1>5, <1>6 DEF OneRequest, SameConn, SameThread
  <1>9. ASSUME NEW c \in Clients, sock[c] = k
        PROVE  Linked(c, k)'
    <2>1. /\ Busy(c) /\ Own(c, k) /\ Session(c, k)
          /\ \/ cpc[c] = "recvHeader" /\ tpc[k] = "sendHeader" /\ toClient[k] = <<>>
             \/ cpc[c] = "recvHeader" /\ tpc[k] = "sendBody" /\ Len(toClient[k]) <= 1
             \/ cpc[c] = "recvBody" /\ tpc[k] = "sendBody" /\ toClient[k] = <<>>
      BY <1>3, <1>9, ServedFacts
    <2>2. Phase(c, k)'
      <3>1. CASE cpc[c] = "recvHeader" /\ tpc[k] = "sendHeader"
        <4>1. Len(toClient[k]) = 0 /\ Owed(k)' = 1  BY <1>3, <2>1, <3>1 DEF Owed
        <4>2. Len(toClient'[k]) + Owed(k)' <= 2  BY <1>2, <4>1
        <4>. QED  BY <3>1, <4>2 DEF Phase
      <3>2. CASE tpc[k] = "sendBody"
        <4>1. Owed(k)' = 0  BY <1>3, <1>6, <3>2 DEF Owed
        <4>2. CASE cpc[c] = "recvHeader"
          <5>1. Len(toClient'[k]) + Owed(k)' <= 2  BY <1>2, <2>1, <3>2, <4>1, <4>2
          <5>. QED  BY <4>2, <5>1 DEF Phase
        <4>3. CASE cpc[c] = "recvBody"
          <5>1. Len(toClient[k]) = 0  BY <2>1, <4>3
          <5>2. Len(toClient'[k]) + Owed(k)' <= 1  BY <1>2, <4>1, <5>1
          <5>. QED  BY <4>3, <5>2 DEF Phase
        <4>. QED  BY <2>1, <4>2, <4>3
      <3>. QED  BY <1>3, <2>1, <3>1, <3>2
    <2>3. Session(c, k)'  BY <1>3, <2>1 DEF Session, Knows, Busy
    <2>4. Own(c, k)'
      <3>1. p.of.says = outcome[request[c].call] /\ outcome[request[c].call] # "none"
        BY <1>3, <2>1 DEF Own
      <3>2. \A i \in 1 .. Len(toClient[k]) : toClient[k][i].of.says = outcome[request[c].call]
        BY <2>1 DEF Own
      <3>3. \A i \in 1 .. Len(toClient'[k]) : toClient'[k][i].of.says = outcome[request[c].call]
        BY <1>2, <3>1, <3>2
      <3>. QED  BY <1>3, <1>6, <1>7, <2>1, <3>1, <3>3 DEF Own, NothingNew
    <2>. QED  BY <2>2, <2>3, <2>4 DEF Linked
  <1>. QED  BY <1>3, <1>4, <1>5, <1>7, <1>8, <1>9, ThreadFrame

\* A decision, and the role it leaves.
LEMMA DecisionFacts ==
    ASSUME NEW verb \in Verbs, NEW r \in {"STUDENT", "ADMIN"}, NEW d \in Decisions(verb, r)
    PROVE  /\ d[1] \in Results /\ d[2] \in {"STUDENT", "ADMIN"} /\ d[3] \in BOOLEAN
           /\ d[2] = "ADMIN" <=> IF d[1] = "ok" /\ verb \in {"LOGIN", "LOGOUT"}
                                 THEN verb = "LOGIN" ELSE r = "ADMIN"
  <1>1. CASE verb = "LOGIN"
    <2>1. \/ d = <<"ok", "ADMIN", TRUE>>
          \/ d = <<"error", r, TRUE>>
      BY <1>1 DEF Decisions
    <2>2. CASE d = <<"ok", "ADMIN", TRUE>>  BY <1>1, <2>2 DEF Results
    <2>3. CASE d = <<"error", r, TRUE>>  BY <1>1, <2>3 DEF Results
    <2>. QED  BY <2>1, <2>2, <2>3
  <1>2. CASE verb = "LOGOUT"
    <2>1. d = <<"ok", "STUDENT", TRUE>>  BY <1>2 DEF Decisions
    <2>. QED  BY <1>2, <2>1 DEF Results
  <1>3. CASE verb = "QUERY"
    <2>1. \/ d = <<"data", r, TRUE>>
          \/ d = <<"data", r, FALSE>>
          \/ d = <<"error", r, TRUE>>
      BY <1>3 DEF Decisions
    <2>2. CASE d = <<"data", r, TRUE>>  BY <1>3, <2>2 DEF Results
    <2>3. CASE d = <<"data", r, FALSE>>  BY <1>3, <2>3 DEF Results
    <2>4. CASE d = <<"error", r, TRUE>>  BY <1>3, <2>4 DEF Results
    <2>. QED  BY <2>1, <2>2, <2>3, <2>4
  <1>4. CASE verb = "EDIT"
    <2>1. \/ d = <<"ok", r, TRUE>>
          \/ d = <<"data", r, TRUE>>
          \/ d = <<"data", r, FALSE>>
          \/ d = <<"error", r, TRUE>>
          \/ d = <<"denied", r, TRUE>>
      BY <1>4 DEF Decisions
    <2>2. CASE d = <<"ok", r, TRUE>>  BY <1>4, <2>2 DEF Results
    <2>3. CASE d = <<"error", r, TRUE>>  BY <1>4, <2>3 DEF Results
    <2>4. CASE d = <<"denied", r, TRUE>>  BY <1>4, <2>4 DEF Results
    <2>5. CASE d = <<"data", r, TRUE>>  BY <1>4, <2>5 DEF Results
    <2>6. CASE d = <<"data", r, FALSE>>  BY <1>4, <2>6 DEF Results
    <2>. QED  BY <2>1, <2>2, <2>3, <2>4, <2>5, <2>6
  <1>. QED  BY <1>1, <1>2, <1>3, <1>4 DEF Verbs

\* Whatever a thread is about to decide is undecided, and decided nowhere else.
LEMMA DispatchFacts ==
    ASSUME Inv, NEW k \in Conns, tpc[k] = "dispatch"
    PROVE  /\ work[k] \in Messages /\ work[k].says \in Verbs
           /\ work[k].call \in 1 .. Len(fate) /\ work[k].call \in 0 .. MaxCalls
           /\ outcome[work[k].call] = "none" /\ toServer[k] = <<>>
           /\ Carries(k, work[k].call)
           /\ \A j \in Conns, n \in 0 .. MaxCalls :
                 Carries(j, n) /\ n = work[k].call => j = k
  <1>1. work[k] \in Messages /\ work[k].call \in 0 .. MaxCalls  BY DEF Inv, TypeOK, Messages
  <1>2. Carries(k, work[k].call)  BY DEF Carries
  <1>3. PICK n \in 0 .. MaxCalls : n = work[k].call  BY <1>1
  <1>4. Carries(k, n)  BY <1>3 DEF Carries
  <1>5. /\ n \in 1 .. Len(fate) /\ outcome[n] = "none"
        /\ \A j \in Conns : Carries(j, n) => j = k
    BY <1>4 DEF Inv, Undecided
  <1>6. toServer[k] = <<>> /\ work[k].says \in Verbs  BY DEF Inv, OneRequest
  <1>. QED  BY <1>1, <1>2, <1>3, <1>5, <1>6

\* dispatch() decides on the request and may change the role of the session.
LEMMA DispatchStep ==
    ASSUME Inv, NEW k \in Conns, Dispatch(k)
    PROVE  Inv'
  <1>. USE DEF clientVars, netVars
  <1>0. TypeOK /\ Sockets /\ Pending /\ Undecided /\ OneRequest /\ Attached  BY DEF Inv
  <1>. USE <1>0
  <1>. DEFINE m == work[k].call
              verb == work[k].says
  <1>1. /\ tpc[k] = "dispatch" /\ tpc' = [tpc EXCEPT ![k] = "sendHeader"]
        /\ UNCHANGED <<clientVars, netVars, fate>>
    BY DEF Dispatch
  <1>2. PICK d \in Decisions(verb, role[k]) :
           /\ work' = [work EXCEPT ![k] = [call |-> m, says |-> d[1], fits |-> d[3]]]
           /\ role' = [role EXCEPT ![k] = d[2]]
           /\ outcome' = [outcome EXCEPT ![m] = d[1]]
           /\ log' = IF d[1] = "denied" THEN log ELSE Append(log, m)
    BY DEF Dispatch
  <1>3. /\ work[k] \in Messages /\ verb \in Verbs /\ m \in 1 .. Len(fate) /\ m \in 0 .. MaxCalls
        /\ outcome[m] = "none" /\ toServer[k] = <<>>
        /\ \A j \in Conns, n \in 0 .. MaxCalls : Carries(j, n) /\ n = m => j = k
    BY <1>1, DispatchFacts
  <1>4. /\ d[1] \in Results /\ d[2] \in {"STUDENT", "ADMIN"} /\ d[3] \in BOOLEAN
        /\ d[2] = "ADMIN" <=> IF d[1] = "ok" /\ verb \in {"LOGIN", "LOGOUT"}
                              THEN verb = "LOGIN" ELSE role[k] = "ADMIN"
    <2>1. role[k] \in {"STUDENT", "ADMIN"}  BY DEF TypeOK
    <2>. QED  BY <1>2, <1>3, <2>1, DecisionFacts
  <1>5. /\ outcome' \in Seq({"none"} \cup Results) /\ Len(outcome') = Len(outcome)
        /\ outcome'[m] = d[1] /\ \A n \in 1 .. Len(fate) : n # m => outcome'[n] = outcome[n]
    <2>1. outcome \in Seq({"none"} \cup Results) /\ m \in 1 .. Len(outcome) /\ Len(fate) = Len(outcome)
      BY <1>3 DEF TypeOK
    <2>. HIDE DEF m
    <2>. QED  BY <1>2, <1>4, <2>1
  <1>6. log' \in Seq(1 .. MaxCalls)
    <2>1. log \in Seq(1 .. MaxCalls) /\ m \in 1 .. MaxCalls
      BY <1>3, BoundsAssumption DEF TypeOK
    <2>2. CASE d[1] = "denied"  BY <1>2, <2>1, <2>2
    <2>3. CASE d[1] # "denied"
      <3>1. log' = Append(log, m)  BY <1>2, <2>3
      <3>. HIDE DEF m
      <3>. QED  BY <2>1, <3>1
    <2>. QED  BY <2>2, <2>3
  <1>7. /\ work' \in [Conns -> Messages] /\ tpc' \in [Conns -> ThreadLabels]
        /\ role' \in [Conns -> {"STUDENT", "ADMIN"}]
        /\ work'[k].says = d[1] /\ tpc'[k] = "sendHeader" /\ role'[k] = d[2]
        /\ \A j \in Conns : j # k => tpc'[j] = tpc[j] /\ work'[j] = work[j] /\ role'[j] = role[j]
    <2>1. [call |-> m, says |-> d[1], fits |-> d[3]] \in Messages
      BY <1>3, <1>4 DEF Messages
    <2>2. work \in [Conns -> Messages] /\ tpc \in [Conns -> ThreadLabels]
          /\ role \in [Conns -> {"STUDENT", "ADMIN"}] /\ "sendHeader" \in ThreadLabels
      BY DEF TypeOK, ThreadLabels
    <2>. QED  BY <1>1, <1>2, <1>4, <2>1, <2>2
  <1>8. TypeOK'  BY <1>1, <1>5, <1>6, <1>7 DEF TypeOK
  <1>9. \A j \in Conns : j # k => SameConn(j)
    BY <1>1, <1>7 DEF SameConn, SameThread
  <1>10. \A j \in Conns, n \in 0 .. MaxCalls : Carries(j, n)' => Carries(j, n) /\ j # k
    <2>1. \A n \in 0 .. MaxCalls : ~Carries(k, n)'
      BY <1>1, <1>3, <1>7 DEF Carries
    <2>. QED  BY <1>9, <2>1, ThreadKeeps DEF SameConn
  <1>11. Sockets'
    <2>1. \A j \in Conns : (tpc'[j] = "unused") <=> (tpc[j] = "unused")
      BY <1>1, <1>7
    <2>2. \A c \in Clients : sock[c] # None => sock[c] \in Conns  BY DEF TypeOK
    <2>3. \A c \in Clients : sock[c] # None => tpc'[sock[c]] # "unused"
      BY <2>1, <2>2 DEF Sockets
    <2>4. \A j \in Conns : tpc'[j] = "unused" =>
             toServer'[j] = <<>> /\ toClient'[j] = <<>> /\ role'[j] = "STUDENT"
      BY <1>1, <1>7, <2>1 DEF Sockets
    <2>. QED  BY <1>1, <2>3, <2>4 DEF Sockets, Busy
  <1>12. Pending'
    <2>1. \A n \in 1 .. Len(fate) : fate[n] \notin {"pending", "failed"} => outcome'[n] # "none"
      BY <1>4, <1>5 DEF Pending, Results
    <2>. QED  BY <1>1, <2>1 DEF Pending, Busy
  <1>13. Undecided'
    <2>1. ASSUME NEW j \in Conns, NEW n \in 0 .. MaxCalls, Carries(j, n)'
          PROVE  /\ n \in 1 .. Len(fate) /\ outcome'[n] = "none"
                 /\ \A i \in Conns : Carries(i, n)' => i = j
      <3>1. Carries(j, n) /\ j # k  BY <1>10, <2>1
      <3>2. n # m  BY <1>3, <3>1
      <3>. QED  BY <1>5, <1>10, <3>1, <3>2 DEF Undecided
    <2>. QED  BY <1>1, <2>1 DEF Undecided
  <1>14. OneRequest'  BY <1>1, <1>3, <1>7, <1>9 DEF OneRequest, SameConn, SameThread
  <1>15. ASSUME NEW c \in Clients, NEW j \in Conns, sock[c] = j
         PROVE  Linked(c, j)'
    <2>1. Linked(c, j)  BY <1>15 DEF Attached
    <2>2. CASE j = k
      <3>1. /\ Busy(c) /\ Own(c, k) /\ Session(c, k)
            /\ cpc[c] = "recvHeader" /\ toClient[k] = <<>>
        BY <1>1, <1>15, <2>2, ServedFacts
      <3>2. work[k] = request[c]  BY <1>1, <3>1 DEF Own
      <3>3. Phase(c, k)'
        <4>1. Owed(k)' = 2 /\ Len(toClient'[k]) = 0  BY <1>1, <1>7, <3>1 DEF Owed
        <4>. QED  BY <1>1, <3>1, <4>1 DEF Phase
      <3>4. Session(c, k)'
        <4>1. (role[k] = "ADMIN") <=> trusted[c]
          BY <1>1, <1>3, <3>1, <3>2 DEF Session, Knows
        <4>2. (role'[k] = "ADMIN") <=> Knows(c, outcome[request[c].call])'
          BY <1>1, <1>4, <1>5, <1>7, <3>2, <4>1 DEF Knows
        <4>. QED  BY <1>1, <3>1, <4>2 DEF Session, Busy
      <3>5. Own(c, k)'
        <4>1. \A i \in Conns, n \in 0 .. MaxCalls : Carries(i, n)' /\ n = m => i = k
          BY <1>3, <1>10
        <4>. QED  BY <1>1, <1>3, <1>4, <1>5, <1>7, <3>1, <3>2, <4>1 DEF Own, Results
      <3>. QED  BY <2>2, <3>3, <3>4, <3>5 DEF Linked
    <2>3. CASE j # k
      <3>1. SameConn(j) /\ SameClient(c)  BY <1>1, <1>9, <2>3 DEF SameClient
      <3>2. Busy(c) => outcome'[request[c].call] = outcome[request[c].call]
        <4>1. SUFFICES ASSUME Busy(c) PROVE request[c].call # m
          BY <1>5 DEF Pending
        <4>2. Carries(k, m)  BY <1>1, DispatchFacts
        <4>3. PICK n \in 0 .. MaxCalls : n = m  BY <1>3
        <4>4. Carries(k, n)  BY <1>1, <4>3 DEF Carries
        <4>. QED  BY <2>1, <2>3, <4>1, <4>3, <4>4 DEF Linked, Own
      <3>. QED  BY <2>1, <3>1, <3>2, <1>10, LinkedKept
    <2>. QED  BY <2>2, <2>3
  <1>. QED  BY <1>1, <1>8, <1>11, <1>12, <1>13, <1>14, <1>15 DEF Inv, Attached

-----------------------------------------------------------------------------
(* Connections that break and the server that restarts. *)

\* A reset changes nothing but what may be expected of the connection.
LEMMA BreakStep ==
    ASSUME Inv, NEW k \in Conns, Break(k)
    PROVE  Inv'
  <1>. USE DEF Break, clientVars, threadVars, callVars, Inv
  <1>1. TypeOK'  BY DEF TypeOK
  <1>2. Sockets' /\ Pending' /\ OneRequest'  BY DEF Sockets, Pending, OneRequest, Busy
  <1>3. NothingNew  BY ThreadKeeps DEF SameThread, NothingNew
  <1>4. Undecided'  BY <1>3, UndecidedKept DEF TypeOK
  <1>5. ASSUME NEW c \in Clients, NEW j \in Conns, sock[c] = j
        PROVE  Linked(c, j)'
    <2>1. SameConn(j) /\ SameClient(c)  BY DEF SameConn, SameThread, SameClient
    <2>2. Linked(c, j)  BY <1>5 DEF Attached
    <2>. QED  BY <1>3, <2>1, <2>2, LinkedKept DEF NothingNew
  <1>. QED  BY <1>1, <1>2, <1>4, <1>5 DEF Attached

\* The server restarts: every connection that it had is closed and its session
\* is gone, whatever its client was doing.
LEMMA ServerRestartsStep ==
    ASSUME Inv, ServerRestarts
    PROVE  Inv'
  <1>. USE DEF ServerRestarts, clientVars, callVars
  <1>0. TypeOK /\ Sockets /\ Pending /\ Undecided /\ OneRequest /\ Attached  BY DEF Inv
  <1>. USE <1>0
  <1>1. /\ tpc' \in [Conns -> ThreadLabels] /\ role' \in [Conns -> {"STUDENT", "ADMIN"}]
        /\ work' \in [Conns -> Messages] /\ toServer' \in [Conns -> Seq(Parts)]
        /\ \A k \in Conns : /\ toServer'[k] = <<>> /\ role'[k] = "STUDENT"
                            /\ tpc'[k] \in {"unused", "closed"}
                            /\ tpc'[k] = "unused" <=> tpc[k] = "unused"
    BY NothingFits DEF TypeOK, ThreadLabels, ServerEnd
  <1>2. TypeOK'  BY <1>1 DEF TypeOK
  <1>3. Sockets'
    <2>1. \A c \in Clients : sock[c] # None => sock[c] \in Conns  BY DEF TypeOK
    <2>2. \A c \in Clients : sock[c] # None => tpc'[sock[c]] # "unused"
      BY <1>1, <2>1 DEF Sockets
    <2>3. \A k \in Conns : tpc'[k] = "unused" =>
             toServer'[k] = <<>> /\ toClient'[k] = <<>> /\ role'[k] = "STUDENT"
      BY <1>1 DEF Sockets
    <2>. QED  BY <2>2, <2>3 DEF Sockets, Busy
  <1>4. Pending'  BY DEF Pending, Busy
  <1>5. \A k \in Conns, n \in 0 .. MaxCalls : ~Carries(k, n)'  BY <1>1 DEF Carries
  <1>6. Undecided'  BY <1>5 DEF Undecided
  <1>7. OneRequest'  BY <1>1 DEF OneRequest
  <1>8. ASSUME NEW c \in Clients, NEW k \in Conns, sock[c] = k
        PROVE  Linked(c, k)'
    <2>1. Linked(c, k)  BY <1>8 DEF Attached
    <2>2. tpc'[k] = "closed"
      <3>1. tpc[k] # "unused"  BY <1>8, ConnFacts DEF Sockets
      <3>. QED  BY <1>1, <3>1
    <2>3. Phase(c, k)'
      <3>1. Owed(k)' = 0  BY <1>1, <2>2 DEF Owed
      <3>2. Owed(k) \in Nat /\ Len(toClient[k]) \in Nat  BY DEF Owed, TypeOK
      <3>. QED  BY <1>1, <2>1, <2>2, <3>1, <3>2 DEF Linked, Phase
    <2>4. Session(c, k)'  BY <2>2 DEF Session
    <2>5. Busy(c)' => Own(c, k)'
      BY <1>1, <1>5, <2>1, <2>2 DEF Linked, Own, Busy
    <2>. QED  BY <2>3, <2>4, <2>5 DEF Linked
  <1>. QED  BY <1>2, <1>3, <1>4, <1>6, <1>7, <1>8 DEF Inv, Attached

\* Every step of a thread: it ends, or goes on.
LEMMA ThreadStep ==
    ASSUME Inv, NEW k \in Conns, ThreadRuns(k)
    PROVE  Inv'
  <1>1. CASE Accept(k)  BY <1>1, AcceptStep
  <1>2. CASE TakeHeader(k)
    <2>1. CASE End(k)  BY <1>2, <2>1, EndStep DEF TakeHeader
    <2>2. CASE ~End(k)  BY <1>2, <2>2, TakeStep DEF TakeHeader
    <2>. QED  BY <2>1, <2>2
  <1>3. CASE TakeBody(k)
    <2>1. CASE End(k)  BY <1>3, <2>1, EndStep DEF TakeBody
    <2>2. CASE ~End(k)  BY <1>3, <2>2, TakeStep DEF TakeBody
    <2>. QED  BY <2>1, <2>2
  <1>4. CASE Dispatch(k)  BY <1>4, DispatchStep
  <1>5. CASE ReplyHeader(k)
    <2>1. CASE End(k)  BY <1>5, <2>1, EndStep DEF ReplyHeader
    <2>2. CASE ~End(k)  BY <1>5, <2>2, ReplyStep DEF ReplyHeader
    <2>. QED  BY <2>1, <2>2
  <1>6. CASE ReplyBody(k)
    <2>1. CASE End(k)  BY <1>6, <2>1, EndStep DEF ReplyBody
    <2>2. CASE ~End(k)  BY <1>6, <2>2, ReplyStep DEF ReplyBody
    <2>. QED  BY <2>1, <2>2
  <1>. QED  BY <1>1, <1>2, <1>3, <1>4, <1>5, <1>6 DEF ThreadRuns

\* Nothing of Inv depends on more than the variables.
LEMMA StutterStep ==
    ASSUME Inv, UNCHANGED vars
    PROVE  Inv'
  <1>. USE DEF vars, clientVars, threadVars, netVars, callVars, Inv
  <1>1. TypeOK' /\ Sockets' /\ Pending' /\ OneRequest'
    BY DEF TypeOK, Sockets, Pending, OneRequest, Busy
  <1>2. NothingNew  BY ThreadKeeps DEF SameThread, NothingNew
  <1>3. Undecided'  BY <1>2, UndecidedKept DEF TypeOK
  <1>4. ASSUME NEW c \in Clients, NEW j \in Conns, sock[c] = j
        PROVE  Linked(c, j)'
    <2>1. SameConn(j) /\ SameClient(c)  BY DEF SameConn, SameThread, SameClient
    <2>2. Linked(c, j)  BY <1>4 DEF Attached
    <2>. QED  BY <1>2, <2>1, <2>2, LinkedKept DEF NothingNew
  <1>. QED  BY <1>1, <1>3, <1>4 DEF Attached

\* Every step of the exchange.
LEMMA InvNext == Inv /\ [Next]_vars => Inv'
  <1>. SUFFICES ASSUME Inv, [Next]_vars PROVE Inv'  OBVIOUS
  <1>1. ASSUME NEW c \in Clients, Reads(c) \/ ClientRuns(c) \/ Restart(c)  PROVE Inv'
    BY <1>1, ClientStep, StutterStep
  <1>2. ASSUME NEW k \in Conns, ThreadRuns(k)  PROVE Inv'  BY <1>2, ThreadStep
  <1>3. ASSUME NEW k \in Conns, Break(k)  PROVE Inv'  BY <1>3, BreakStep
  <1>4. CASE ServerRestarts  BY <1>4, ServerRestartsStep
  <1>5. CASE UNCHANGED vars  BY <1>5, StutterStep
  <1>. QED  BY <1>1, <1>2, <1>3, <1>4, <1>5 DEF Next

-----------------------------------------------------------------------------
(* The theorems. *)

\* The inductive invariant holds in every reachable state.
THEOREM ExchangeInvariant == Spec => []Inv
<1>1. Init => Inv  BY InvInit
<1>2. Inv /\ [Next]_vars => Inv'  BY InvNext
<1>. QED  BY <1>1, <1>2, PTL DEF Spec

\* Every variable keeps its type, whatever is sent and whoever restarts.
THEOREM ExchangeTypes == Spec => []TypeOK
<1>1. Inv => TypeOK  BY DEF Inv
<1>. QED  BY <1>1, ExchangeInvariant, PTL

\* Between two lines the session of the client's connection is an
\* administrator's exactly if the client was told so on that connection.
THEOREM RolesAlwaysAgree == Spec => []RolesAgree
<1>1. Inv => RolesAgree
  <2>. SUFFICES ASSUME Inv, NEW c \in Clients,
                       cpc[c] = "line", sock[c] # None, ServerEnd(sock[c])
                PROVE  role[sock[c]] = "ADMIN" <=> trusted[c]
    BY DEF RolesAgree
  <2>1. PICK k \in Conns : sock[c] = k  BY DEF Inv, TypeOK
  <2>2. Session(c, k)  BY <2>1 DEF Inv, Attached, Linked
  <2>3. tpc[k] # "closed" /\ ~Busy(c)  BY <2>1 DEF ServerEnd, Busy
  <2>. QED  BY <2>1, <2>2, <2>3 DEF Session
<1>. QED  BY <1>1, ExchangeInvariant, PTL

\* Between two lines nothing is under way on the client's connection, so the
\* next answer it reads is the answer to its next request.
THEOREM NothingIsLeftUnread == Spec => []NothingUnread
<1>1. Inv => NothingUnread
  <2>. SUFFICES ASSUME Inv, NEW c \in Clients, cpc[c] = "line", sock[c] # None
                PROVE  /\ toClient[sock[c]] = <<>> /\ toServer[sock[c]] = <<>>
                       /\ tpc[sock[c]] \in {"backlog", "recvHeader", "closed"}
    BY DEF NothingUnread
  <2>1. PICK k \in Conns : sock[c] = k  BY DEF Inv, TypeOK
  <2>2. Phase(c, k)  BY <2>1 DEF Inv, Attached, Linked
  <2>. QED  BY <2>1, <2>2 DEF Phase
<1>. QED  BY <1>1, ExchangeInvariant, PTL


-----------------------------------------------------------------------------
(* The exchange implements Call. *)

\* A call that fails is one that was pending.
LEMMA FailMaps ==
    ASSUME Inv, NEW c \in Clients, Busy(c), Settle(c, "failed")
    PROVE  CallSpec!Next
  <1>1. request[c].call \in CallSpec!Asked /\ fate[request[c].call] = "pending"
    BY DEF Inv, Pending, CallSpec!Asked
  <1>2. CallSpec!Fail(request[c].call)
    BY <1>1 DEF Settle, CallSpec!Fail
  <1>. QED  BY <1>1, <1>2 DEF CallSpec!Next

\* An answer that is read is the decision on the call it answers.
LEMMA AnsweredMaps ==
    ASSUME Inv, NEW c \in Clients, cpc[c] = "recvBody", toClient[sock[c]] # <<>>,
           Answered(c, Head(toClient[sock[c]]).of)
    PROVE  CallSpec!Next
  <1>1. Busy(c)  BY DEF Busy
  <1>2. request[c].call \in CallSpec!Asked /\ fate[request[c].call] = "pending"
    BY <1>1 DEF Inv, Pending, CallSpec!Asked
  <1>3. PICK k \in Conns : sock[c] = k  BY <1>1 DEF Inv, Sockets, TypeOK
  <1>4. /\ Head(toClient[k]).of.says = outcome[request[c].call]
        /\ outcome[request[c].call] # "none"
    BY <1>3, AnswerFacts
  <1>5. CallSpec!Answer(request[c].call)
    BY <1>2, <1>3, <1>4 DEF Answered, Settle, CallSpec!Answer
  <1>. QED  BY <1>2, <1>5 DEF CallSpec!Next

\* A call is decided at most once, and before it was answered.
LEMMA DispatchMaps ==
    ASSUME Inv, NEW k \in Conns, Dispatch(k)
    PROVE  CallSpec!Next
  <1>. DEFINE m == work[k].call
  <1>1. tpc[k] = "dispatch" /\ UNCHANGED fate  BY DEF Dispatch
  <1>2. /\ work[k].says \in Verbs /\ m \in 1 .. Len(fate) /\ outcome[m] = "none"
    BY <1>1, DispatchFacts
  <1>3. fate[m] \in {"pending", "failed"}  BY <1>2 DEF Inv, Pending
  <1>4. PICK d \in Decisions(work[k].says, role[k]) :
           /\ outcome' = [outcome EXCEPT ![m] = d[1]]
           /\ log' = IF d[1] = "denied" THEN log ELSE Append(log, m)
    BY DEF Dispatch
  <1>5. d[1] \in Results
    <2>1. role[k] \in {"STUDENT", "ADMIN"}  BY DEF Inv, TypeOK
    <2>. QED  BY <1>2, <2>1, DecisionFacts
  <1>6. CallSpec!Decide(m, d[1])
    BY <1>1, <1>2, <1>3, <1>4 DEF CallSpec!Decide
  <1>. QED  BY <1>2, <1>5, <1>6 DEF CallSpec!Next, CallSpec!Asked

\* Every step of the exchange is one of Call or leaves the calls as they are.
LEMMA StepMaps ==
    ASSUME Inv, [Next]_vars
    PROVE  [CallSpec!Next]_CallSpec!vars
  <1>. USE DEF CallSpec!vars
  <1>1. ASSUME NEW c \in Clients, Reads(c)
        PROVE  [CallSpec!Next]_CallSpec!vars
    <2>1. CASE Ask(c)  BY <2>1 DEF Ask, CallSpec!Next, CallSpec!Ask
    <2>2. CASE ~Ask(c)
      BY <1>1, <2>2 DEF Reads, Refused, Connect, Disconnect, Local, callVars
    <2>. QED  BY <2>1, <2>2
  <1>2. ASSUME NEW c \in Clients, ClientRuns(c) \/ Restart(c)
        PROVE  [CallSpec!Next]_CallSpec!vars
    <2>1. CASE UNCHANGED callVars  BY <2>1 DEF callVars
    <2>2. CASE Busy(c) /\ Settle(c, "failed")  BY <2>2, FailMaps
    <2>3. CASE /\ cpc[c] = "recvBody" /\ toClient[sock[c]] # <<>>
               /\ Answered(c, Head(toClient[sock[c]]).of)
      BY <2>3, AnsweredMaps
    <2>. QED
      BY <1>2, <2>1, <2>2, <2>3
      DEF ClientRuns, SendHeader, SendBody, RecvHeader, RecvBody, Restart, Fail, Goto, Local, Busy
  <1>3. ASSUME NEW k \in Conns, ThreadRuns(k)
        PROVE  [CallSpec!Next]_CallSpec!vars
    <2>1. CASE Dispatch(k)  BY <2>1, DispatchMaps
    <2>2. CASE ~Dispatch(k)
      BY <1>3, <2>2
      DEF ThreadRuns, Accept, TakeHeader, TakeBody, ReplyHeader, ReplyBody, End, callVars
    <2>. QED  BY <2>1, <2>2
  <1>4. ASSUME NEW k \in Conns, Break(k)
        PROVE  [CallSpec!Next]_CallSpec!vars
    BY <1>4 DEF Break, callVars
  <1>5. CASE ServerRestarts  BY <1>5 DEF ServerRestarts, callVars
  <1>6. CASE UNCHANGED vars  BY <1>6 DEF vars, callVars
  <1>. QED  BY <1>1, <1>2, <1>3, <1>4, <1>5, <1>6 DEF Next

\* Every behaviour of the exchange is one of Call: an answer is what was decided
\* on the call it answers, and each call is decided at most once.
THEOREM ExchangeImplementsCall == Spec => ImplementsCall
<1>1. Init => CallSpec!Init  BY DEF Init, CallSpec!Init
<1>2. Inv /\ [Next]_vars => [CallSpec!Next]_CallSpec!vars  BY StepMaps
<1>. QED
  BY <1>1, <1>2, ExchangeInvariant, PTL DEF Spec, ImplementsCall, CallSpec!Spec

=============================================================================
