----------------------------- MODULE AdminLedger -----------------------------
(***************************************************************************)
(* AdminAccounts with two history variables: which account each            *)
(* administrator logged in to, under the name it has now, and how many     *)
(* rows its last DELETE removed.  They observe and constrain nothing.      *)
(***************************************************************************)
EXTENDS AdminAccounts

VARIABLES self, removed

Moves(t, from, to) == pc[t] = from /\ pc'[t] = to

\* The name, after a step of t, of the account that had name n before it.
NameAfter(t, n) ==
    IF n = None \/ accounts'[n] # None
    THEN n
    ELSE IF pc[t] = "rename" THEN req[t].new ELSE None

\* A session has an account of its own from a login to the end of the role.
Own(t, u) ==
    IF session'[u].role # "ADMIN"
    THEN None
    ELSE IF u = t /\ pc[t] \in {"fetch", "upgrade"} /\ pc'[t] = "ok"
         THEN IF accounts'[req[t].name] # None THEN req[t].name ELSE None
         ELSE NameAfter(t, self[u])

Observe(t) ==
    /\ self' = [u \in Sessions |-> Own(t, u)]
    /\ removed' = [removed EXCEPT ![t] =
           CASE pc[t] = "idle" -> 0
             [] Moves(t, "remove", "changes") -> changes'
             [] OTHER -> @]

Nothing == [t \in Sessions |-> None]

LedgerInit == /\ Init
              /\ self    = Nothing
              /\ removed = [t \in Sessions |-> 0]

LedgerNext ==
    \/ \E t \in Sessions : (Receive(t) \/ Serve(t) \/ Disconnect(t)) /\ Observe(t)
    \/ Restart /\ self' = Nothing /\ removed' = [t \in Sessions |-> 0]

ledgerVars == <<vars, self, removed>>

LedgerSpec == LedgerInit /\ [][LedgerNext]_ledgerVars

-----------------------------------------------------------------------------
(* Properties. *)

\* No administrator deletes the account it logged in to, whatever that account
\* has been renamed to since.
NeverDeletesItself ==
    [][\A t \in Sessions :
           Moves(t, "remove", "changes") /\ changes' = 1
               => req[t].name # self[t]]_ledgerVars

\* The answer to CMD_ADMIN_DELETE says whether the account was deleted.
DeleteAnswersTruly ==
    \A t \in Sessions :
        req[t] # None /\ req[t].op = "delete" =>
            /\ pc[t] = "ok"    => removed[t] = 1
            /\ pc[t] = "error" => removed[t] = 0

=============================================================================
