----------------------------- MODULE BridgeOutput -----------------------------
(***************************************************************************)
(* What a client of Exchange writes to stdout while it deals with a line:  *)
(* the status line of the protocol (emit_ok, emit_err, emit_data,          *)
(* emit_admins) and, because print_log writes to the same stream           *)
(* (log.cpp), one line for every error of the transport.                   *)
(***************************************************************************)
EXTENDS Exchange

VARIABLE out    \* what each client wrote for the line it read last

Prints(c, lines) == out' = [out EXCEPT ![c] = lines]

RefusesHeader(c) ==
    /\ cpc[c] = "recvHeader" /\ toClient[sock[c]] # <<>>
    /\ ~Accepts(Head(toClient[sock[c]]))

\* A body that cannot be encrypted and a header that is refused are logged once,
\* by send_body and Package_receive; a send() or recv() that fails is logged by
\* socket_send or socket_recv too.
Logged(c) ==
    {<<"log", "log">>}
    \cup {l \in {<<"log">>} : cpc[c] = "sendHeader" \/ RefusesHeader(c)}

\* run_bridge: no output for an empty line.
Blank(c) == Refused(c) /\ Prints(c, <<>>)

ReadsAndPrints(c) ==
    \/ Blank(c)
    \/ (Refused(c) \/ Connect(c) \/ Disconnect(c)) /\ Prints(c, <<"status">>)
    \/ Ask(c) /\ Prints(c, <<>>)

\* An answer is one line; a failed call is logged and then answered with ERR.
RunsAndPrints(c) ==
    /\ ClientRuns(c)
    /\ IF cpc'[c] # "line" THEN UNCHANGED out
       ELSE IF fate'[request[c].call] # "failed" THEN Prints(c, <<"status">>)
       ELSE \E logged \in Logged(c) : Prints(c, Append(logged, "status"))

\* READY.
StartsAndPrints(c) == Restart(c) /\ Prints(c, <<"status">>)

OutputInit == Init /\ out = [c \in Clients |-> <<"status">>]

OutputNext ==
    \/ \E c \in Clients : ReadsAndPrints(c) \/ RunsAndPrints(c) \/ StartsAndPrints(c)
    \/ (ServerRestarts \/ \E k \in Conns : ThreadRuns(k) \/ Break(k)) /\ UNCHANGED out

OutputSpec == OutputInit /\ [][OutputNext]_<<vars, out>>

-----------------------------------------------------------------------------

\* The bridge is silent (documents/client_bridge.md:22): for a line it writes
\* nothing but the status line of the answer, so that whoever reads the n-th
\* line reads the answer to the n-th request.
SilentBridge == \A c \in Clients : \A i \in DOMAIN out[c] : out[c][i] = "status"

=============================================================================
