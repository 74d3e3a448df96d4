--------------------------------- MODULE Call ---------------------------------
(***************************************************************************)
(* What the client promises to whoever types a line that asks the server   *)
(* for something (programs/Client/src/client_main.cpp): the n-th such line *)
(* is answered with what the server decided on it, or fails.  The server   *)
(* takes a request up at most once, before the answer, but possibly after  *)
(* the client gave the call up, and possibly not at all.                   *)
(***************************************************************************)
EXTENDS Naturals, Sequences

CONSTANT Results    \* what the server may decide on a request

VARIABLES
    fate,       \* what became of each call, in the order they were asked
    outcome,    \* what the server decided on it
    log         \* the calls whose handlers ran, in the order of the server

vars == <<fate, outcome, log>>

Asked == 1 .. Len(fate)

Init == fate = <<>> /\ outcome = <<>> /\ log = <<>>

Ask ==
    /\ fate' = Append(fate, "pending")
    /\ outcome' = Append(outcome, "none")
    /\ UNCHANGED log

\* A request that the session is not permitted to make reaches no handler.
Decide(n, r) ==
    /\ fate[n] \in {"pending", "failed"} /\ outcome[n] = "none"
    /\ outcome' = [outcome EXCEPT ![n] = r]
    /\ log' = IF r = "denied" THEN log ELSE Append(log, n)
    /\ UNCHANGED fate

Answer(n) ==
    /\ fate[n] = "pending" /\ outcome[n] # "none"
    /\ fate' = [fate EXCEPT ![n] = outcome[n]]
    /\ UNCHANGED <<outcome, log>>

Fail(n) ==
    /\ fate[n] = "pending"
    /\ fate' = [fate EXCEPT ![n] = "failed"]
    /\ UNCHANGED <<outcome, log>>

Next == Ask \/ \E n \in Asked : Answer(n) \/ Fail(n) \/ \E r \in Results : Decide(n, r)

Spec == Init /\ [][Next]_vars

=============================================================================
