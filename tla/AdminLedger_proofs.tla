-------------------------- MODULE AdminLedger_proofs --------------------------
(***************************************************************************)
(* Theorems about AdminLedger: whose account a session has, and what its   *)
(* deletes did.                                                            *)
(***************************************************************************)
EXTENDS AdminLedger, AdminAccounts_proofs

-----------------------------------------------------------------------------
(* The ledger only observes: what is proved of AdminAccounts carries over. *)

\* A step with its history is a step.
LEMMA LedgerStep == [LedgerNext]_ledgerVars => [Next]_vars
  BY DEF LedgerNext, ledgerVars, Next

\* What is proved of AdminAccounts holds of AdminLedger.
LEMMA LedgerIsAccounts == LedgerSpec => Spec
<1>1. LedgerInit => Init
  BY DEF LedgerInit
<1> QED
  BY <1>1, LedgerStep, PTL DEF LedgerSpec, Spec

RemovedType == removed \in [Sessions -> {0, 1}]

\* The history of each session's DELETE keeps its type.
LEMMA RemovedTypeInvariant == LedgerSpec => []RemovedType
<1>1. LedgerInit => RemovedType
  BY DEF LedgerInit, RemovedType
<1>2. TypeInv /\ TypeInv' /\ RemovedType /\ [LedgerNext]_ledgerVars => RemovedType'
  BY DEF RemovedType, LedgerNext, ledgerVars, Observe, TypeInv, TypeOK
<1> QED
  BY <1>1, <1>2, LedgerIsAccounts, TypeInvariant, PTL DEF LedgerSpec

-----------------------------------------------------------------------------
(* The answer to a delete, for a session alone. *)

\* From the DELETE to the answer, what the handler of t knows is what happened.
Counted(t) ==
    /\ pc[t] = "list"    => req[t].op # "delete"
    /\ pc[t] = "remove"  => removed[t] = 0
    /\ pc[t] = "changes" => removed[t] = changes
    /\ req[t] \in Requests /\ req[t].op = "delete" =>
          /\ pc[t] = "ok"    => removed[t] = 1
          /\ pc[t] = "error" => removed[t] = 0

DeleteInv == \A t \in Sessions : Counted(t)

\* The count of the connection stays the one of the session's own DELETE.
LEMMA DeleteStep ==
    ASSUME Alone
    PROVE  TypeInv /\ RemovedType /\ DeleteInv /\ [LedgerNext]_ledgerVars
              => DeleteInv'
<1> SUFFICES ASSUME TypeInv, RemovedType, DeleteInv, [LedgerNext]_ledgerVars
             PROVE  DeleteInv'
  OBVIOUS
<1> USE DEF TypeInv, TypeOK, InHandler, RemovedType, Goto, Continue
<1>0. ASSUME NEW t \in Sessions, Counted(t)' PROVE DeleteInv'
  BY <1>0 DEF Alone, DeleteInv
<1>1. ASSUME NEW t \in Sessions PROVE Counted(t)
  BY DEF DeleteInv
<1>2. ASSUME NEW t \in Sessions, Observe(t)
      PROVE  removed'[t] = CASE pc[t] = "idle" -> 0
                             [] Moves(t, "remove", "changes") -> changes'
                             [] OTHER -> removed[t]
  BY <1>2 DEF Observe
<1> USE DEF Counted
<1>3. ASSUME NEW t \in Sessions, Observe(t), Receive(t) PROVE DeleteInv'
  <2>1. PICK r \in Requests : Receive(t)!2!(r)
    BY <1>3 DEF Receive
  <2>2. removed'[t] = 0
    BY <1>2, <1>3 DEF Receive, Moves
  <2>3. req'[t] = r
    BY <2>1
  <2>4. pc'[t] \in {"error", FirstLabel(r.op)}
    BY <2>1
  <2>5. pc'[t] \in {"ok", "list"} => r.op # "delete"
    BY <2>4, FirstLabels
  <2>6. pc'[t] # "changes"
    BY <2>4, RequestByOp, FirstLabels
  <2> QED
    BY <1>0, <2>2, <2>3, <2>5, <2>6
<1>4. ASSUME NEW t \in Sessions,
             \/ Fetch(t) \/ Upgrade(t) \/ CreateExists(t) \/ UpdateFindOld(t)
             \/ RenameFindOld(t) \/ RenameFindNew(t) \/ Rename(t) \/ Upsert(t)
             \/ Sync(t)
      PROVE  DeleteInv'
  <2>1. /\ pc'[t] \notin {"list", "remove", "changes"} /\ req' = req
        /\ pc[t] \in {"fetch", "upgrade", "exists", "findOld", "renameOld",
                      "renameNew", "rename", "upsert", "sync"}
    BY <1>4 DEF Fetch, Upgrade, CreateExists, UpdateFindOld, RenameFindOld,
                RenameFindNew, Rename, Upsert, Sync, AfterRename, Become, Write,
                WriteFails
  <2>2. req[t].op # "delete"
    BY <2>1 DEF Logins, Creates, Updates
  <2> QED
    BY <1>0, <2>1, <2>2
<1>5. ASSUME NEW t \in Sessions, Observe(t), Remove(t) PROVE DeleteInv'
  <2>1. pc[t] = "remove" /\ pc'[t] \in {"changes", "error"} /\ req' = req
    BY <1>5 DEF Remove, Write, WriteFails
  <2>2. removed'[t] = IF pc'[t] = "changes" THEN changes' ELSE removed[t]
    BY <1>2, <1>5, <2>1 DEF Moves
  <2> QED
    BY <1>0, <1>1, <2>1, <2>2
<1>6. ASSUME NEW t \in Sessions, Observe(t), ReadChanges(t) PROVE DeleteInv'
  <2>1. /\ pc[t] = "changes" /\ req' = req
        /\ pc'[t] = IF changes = 0 THEN "error" ELSE "ok"
    BY <1>6 DEF ReadChanges
  <2>2. removed'[t] = removed[t]
    BY <1>2, <1>6, <2>1 DEF Moves
  <2> QED
    BY <1>0, <1>1, <2>1, <2>2
<1>7. ASSUME NEW t \in Sessions, List(t) PROVE DeleteInv'
  BY <1>0, <1>1, <1>7 DEF List
<1>8. ASSUME NEW t \in Sessions, Reply(t) \/ Disconnect(t) PROVE DeleteInv'
  <2>1. pc'[t] = "idle"
    BY <1>8 DEF Reply, Disconnect
  <2> QED
    BY <1>0, <2>1
<1>9. CASE Restart
  BY <1>9 DEF Restart, DeleteInv
<1>10. CASE UNCHANGED ledgerVars
  BY <1>10 DEF ledgerVars, vars, DeleteInv
<1> QED
  BY <1>3, <1>4, <1>5, <1>6, <1>7, <1>8, <1>9, <1>10 DEF LedgerNext, Serve

\* With one session, CMD_ADMIN_DELETE answers OK exactly if it deleted the
\* account, whichever statements fail: sqlite3_changes, a call of its own, still
\* speaks of the DELETE before it, also when a failed statement has left it as
\* it was.
THEOREM DeletesAnswered ==
    ASSUME Alone
    PROVE  LedgerSpec => []DeleteAnswersTruly
<1>1. LedgerInit => DeleteInv
  <2> SUFFICES ASSUME LedgerInit, NEW t \in Sessions PROVE Counted(t)
    BY DEF DeleteInv
  <2>1. pc[t] = "idle"
    BY DEF LedgerInit, Init
  <2> QED
    BY <2>1 DEF Counted
<1>2. TypeInv /\ RemovedType /\ DeleteInv /\ [LedgerNext]_ledgerVars => DeleteInv'
  BY DeleteStep
<1>3. TypeInv /\ DeleteInv => DeleteAnswersTruly
  BY DEF TypeInv, TypeOK, DeleteInv, Counted, DeleteAnswersTruly
<1> QED
  BY <1>1, <1>2, <1>3, LedgerIsAccounts, TypeInvariant, RemovedTypeInvariant, PTL
     DEF LedgerSpec

-----------------------------------------------------------------------------
(* The account of a session alone, when no statement fails. *)

\* The session knows its account by the name it has now, except between the
\* rename and Sync.
SelfKnown ==
    \A t \in Sessions : session[t].role = "ADMIN" => self[t] = Current(t)

\* The name in a session stays the name of the account it logged in to.
LEMMA SelfStep ==
    ASSUME Undisturbed
    PROVE  /\ TypeInv /\ RoleInside /\ AloneInv /\ AloneInv' /\ SelfKnown
           /\ [LedgerNext]_ledgerVars
           => SelfKnown'
<1> SUFFICES ASSUME TypeInv, RoleInside, AloneInv, AloneInv', SelfKnown,
                    [LedgerNext]_ledgerVars
             PROVE  SelfKnown'
  OBVIOUS
<1> USE DEF TypeInv, TypeOK, InHandler, RoleInside, AdminLabels, Goto, Continue
<1>0. ASSUME NEW t \in Sessions,
             session'[t].role = "ADMIN" => self'[t] = Current(t)'
      PROVE  SelfKnown'
  BY <1>0 DEF Undisturbed, Alone, SelfKnown
<1>1. ASSUME NEW t \in Sessions, Observe(t), session'[t].role = "ADMIN"
      PROVE  /\ accounts'[Current(t)'] # None /\ Current(t)' \in Names
             /\ self'[t] =
                  IF pc[t] \in {"fetch", "upgrade"} /\ pc'[t] = "ok"
                  THEN IF accounts'[req[t].name] # None THEN req[t].name ELSE None
                  ELSE NameAfter(t, self[t])
  BY <1>1 DEF Observe, Own, AloneInv, HasAccount, Exists
\* The account is still there under the name it had.
<1>2. ASSUME NEW t \in Sessions, Observe(t), session[t].role = "ADMIN",
             pc[t] \notin {"fetch", "upgrade"} \/ pc'[t] # "ok",
             session'[t].role = "ADMIN" => Current(t)' = Current(t)
      PROVE  SelfKnown'
  <2> SUFFICES ASSUME session'[t].role = "ADMIN" PROVE self'[t] = Current(t)'
    BY <1>0
  <2>1. accounts'[Current(t)'] # None /\ self'[t] = NameAfter(t, self[t])
    BY <1>1, <1>2
  <2>2. self[t] = Current(t)'
    BY <1>2 DEF SelfKnown
  <2>3. accounts'[self[t]] # None
    BY <2>1, <2>2
  <2>4. NameAfter(t, self[t]) = self[t]
    BY <2>3 DEF NameAfter
  <2> QED
    BY <2>1, <2>2, <2>4
<1>3. ASSUME NEW t \in Sessions, session'[t].role # "ADMIN" PROVE SelfKnown'
  BY <1>0, <1>3
<1> USE DEF Current
<1>4. ASSUME NEW t \in Sessions, Observe(t), Receive(t) PROVE SelfKnown'
  <2>1. PICK r \in Requests : Receive(t)!2!(r)
    BY <1>4 DEF Receive
  <2>2. pc[t] = "idle" /\ pc'[t] \notin {"upsert", "sync"}
    BY <1>4, <2>1, RequestByOp, FirstLabels DEF Receive
  <2>3. session'[t] \in {session[t], Anonymous}
    BY <2>1
  <2> QED
    BY <1>2, <1>3, <1>4, <2>2, <2>3 DEF Anonymous
<1>5. ASSUME NEW t \in Sessions, Observe(t), Fetch(t) PROVE SelfKnown'
  <2>1. CASE Become(t, Admin(req[t].name))
    <3>1. session'[t] = Admin(req[t].name) /\ pc'[t] = "ok" /\ pc[t] = "fetch"
      BY <1>5, <2>1 DEF Fetch, Become
    <3> QED
      BY <1>0, <1>1, <1>5, <3>1 DEF Admin
  <2>2. CASE pc'[t] \in {"upgrade", "error"} /\ session' = session /\ pc[t] = "fetch"
    BY <1>2, <1>3, <1>5, <2>2
  <2> QED
    BY <1>5, <2>1, <2>2 DEF Fetch
<1>6. ASSUME NEW t \in Sessions, Observe(t), Upgrade(t) PROVE SelfKnown'
  <2>1. session'[t] = Admin(req[t].name) /\ pc'[t] = "ok" /\ pc[t] = "upgrade"
    BY <1>6 DEF Upgrade
  <2> QED
    BY <1>0, <1>1, <1>6, <2>1 DEF Admin
<1>7. ASSUME NEW t \in Sessions, Observe(t),
             \/ CreateExists(t) \/ RenameFindOld(t) \/ RenameFindNew(t)
             \/ Remove(t) \/ ReadChanges(t) \/ List(t)
      PROVE  SelfKnown'
  <2>1. /\ pc[t] \in AdminLabels \ {"upsert", "sync", "findOld"}
        /\ UNCHANGED <<session, req>>
        /\ pc'[t] = "upsert" => pc[t] = "exists"
        /\ pc'[t] # "sync"
    BY <1>7 DEF CreateExists, RenameFindOld, RenameFindNew, Remove, ReadChanges,
                List, Write, WriteFails
  <2>2. pc[t] = "exists" => req[t].op = "create"
    BY DEF Creates
  <2> QED
    BY <1>2, <1>7, <2>1, <2>2
<1>8. ASSUME NEW t \in Sessions, Observe(t), UpdateFindOld(t) PROVE SelfKnown'
  <2>1. /\ pc[t] = "findOld" /\ UNCHANGED <<session, req>>
        /\ pc'[t] \in {"upsert", "sync"} => req[t].name = req[t].new
    BY <1>8 DEF UpdateFindOld, AfterRename
  <2> QED
    BY <1>2, <1>8, <2>1
<1>9. ASSUME NEW t \in Sessions, Observe(t), Rename(t) PROVE SelfKnown'
  <2>1. /\ pc[t] = "rename" /\ req[t] \in Updates
        /\ Exists(req[t].name) /\ ~Exists(req[t].new) /\ req[t].name # req[t].new
    BY <1>9 DEF Rename, AloneInv, Found
  <2>2. /\ accounts' = Moved(req[t].name, req[t].new)
        /\ pc'[t] \in {"sync", "upsert"} /\ UNCHANGED <<session, req>>
    BY <1>9, <2>1 DEF Rename, Write, AfterRename, Undisturbed
  <2>3. session[t].role = "ADMIN" /\ self[t] = session[t].name
    BY <2>1 DEF SelfKnown
  <2>4. CASE session[t].name = req[t].name
    <3>1. accounts'[self[t]] = None /\ self[t] # None
      BY <2>1, <2>2, <2>3, <2>4, NoneAssumption DEF Moved, Updates
    <3>2. self'[t] = req[t].new
      BY <1>1, <1>9, <2>1, <2>2, <2>3, <3>1 DEF NameAfter
    <3> QED
      BY <1>0, <2>1, <2>2, <2>4, <3>2 DEF Updates
  <2>5. CASE session[t].name # req[t].name
    BY <1>2, <1>9, <2>1, <2>2, <2>3, <2>5
  <2> QED
    BY <2>4, <2>5
<1>10. ASSUME NEW t \in Sessions, Observe(t), Upsert(t) PROVE SelfKnown'
  <2>1. /\ pc[t] = "upsert" /\ UNCHANGED <<session, req>>
        /\ pc'[t] = IF req[t].op = "create" THEN "ok" ELSE "sync"
    BY <1>10 DEF Upsert, Write, Undisturbed
  <2>2. req[t].op \in {"create", "update"}
    BY <2>1 DEF Creates, Updates
  <2> QED
    BY <1>2, <1>10, <2>1, <2>2
<1>11. ASSUME NEW t \in Sessions, Observe(t), Sync(t) PROVE SelfKnown'
  <2>1. req[t].op = "update" /\ pc[t] = "sync" /\ pc'[t] = "ok"
    BY <1>11 DEF Sync, Updates
  <2> QED
    BY <1>2, <1>11, <2>1 DEF Sync
<1>12. ASSUME NEW t \in Sessions, Observe(t), Reply(t) PROVE SelfKnown'
  <2>1. pc[t] \in {"ok", "error"} /\ pc'[t] = "idle" /\ session' = session
    BY <1>12 DEF Reply
  <2> QED
    BY <1>2, <1>3, <1>12, <2>1
<1>13. ASSUME NEW t \in Sessions, Disconnect(t) PROVE SelfKnown'
  BY <1>3, <1>13 DEF Disconnect, Anonymous
<1>14. CASE Restart
  BY <1>14 DEF Restart, SelfKnown, Anonymous
<1>15. CASE UNCHANGED ledgerVars
  BY <1>15 DEF ledgerVars, vars, SelfKnown
<1> QED
  BY <1>4, <1>5, <1>6, <1>7, <1>8, <1>9, <1>10, <1>11, <1>12, <1>13, <1>14, <1>15
     DEF LedgerNext, Serve

\* An administrator that is alone never deletes the account it logged in to,
\* whatever it has renamed that account to since.
THEOREM NoSelfDelete ==
    ASSUME Undisturbed
    PROVE  LedgerSpec => NeverDeletesItself
<1>1. LedgerInit => SelfKnown
  BY DEF LedgerInit, Init, SelfKnown, Anonymous
<1>2. /\ TypeInv /\ RoleInside /\ AloneInv /\ AloneInv' /\ SelfKnown
      /\ [LedgerNext]_ledgerVars
      => SelfKnown'
  BY SelfStep
<1>3. RoleInside /\ AloneInv /\ SelfKnown =>
          [\A t \in Sessions :
               Moves(t, "remove", "changes") /\ changes' = 1
                   => req[t].name # self[t]]_ledgerVars
  BY DEF RoleInside, AdminLabels, AloneInv, Found, SelfKnown, Current, Moves
<1> QED
  BY <1>1, <1>2, <1>3, LedgerIsAccounts, RoleInvariant, AloneInvariant, PTL
     DEF LedgerSpec, NeverDeletesItself

-----------------------------------------------------------------------------
(* Any number of sessions, when no account is renamed.                      *)

NoUpdates == Requests \cap Updates = {}

\* An administrator has the account of its session's name or none any more, and
\* is not about to delete that name.
SelfNamed ==
    \A t \in Sessions :
        /\ session[t].role = "ADMIN" => self[t] \in {None, session[t].name}
        /\ pc[t] = "remove" => req[t].name # session[t].name

\* Without renames no step gives an account another name.
LEMMA NamedStep ==
    ASSUME NoUpdates
    PROVE  TypeInv /\ SelfNamed /\ [LedgerNext]_ledgerVars => SelfNamed'
<1> SUFFICES ASSUME TypeInv, SelfNamed, [LedgerNext]_ledgerVars
             PROVE  SelfNamed'
  OBVIOUS
<1> USE DEF TypeInv, TypeOK, InHandler, Goto, Continue
<1>1. ASSUME NEW t \in Sessions
      PROVE  pc[t] \notin {"findOld", "renameOld", "renameNew", "rename", "sync"}
  BY DEF NoUpdates, Updates
<1>2. ASSUME NEW t \in Sessions, NEW u \in Sessions, Observe(t),
             session'[u].role = "ADMIN"
      PROVE  self'[u] = IF u = t /\ pc[t] \in {"fetch", "upgrade"} /\ pc'[t] = "ok"
                        THEN IF accounts'[req[t].name] # None THEN req[t].name ELSE None
                        ELSE NameAfter(t, self[u])
  BY <1>2 DEF Observe, Own
<1>3. ASSUME NEW t \in Sessions, NEW n PROVE NameAfter(t, n) \in {None, n}
  BY <1>1 DEF NameAfter
\* A step of t leaves the others alone.
<1>4. ASSUME NEW t \in Sessions, Observe(t),
             \A u \in Sessions \ {t} :
                session'[u] = session[u] /\ pc'[u] = pc[u] /\ req'[u] = req[u],
             session'[t].role = "ADMIN" =>
                \/ session'[t] = session[t]
                \/ /\ session'[t] = Admin(req[t].name)
                   /\ pc[t] \in {"fetch", "upgrade"} /\ pc'[t] = "ok",
             pc[t] \in {"fetch", "upgrade"} /\ pc'[t] = "ok" =>
                session'[t] = Admin(req[t].name),
             pc'[t] = "remove" => req'[t].name # session'[t].name
      PROVE  SelfNamed'
  <2> SUFFICES ASSUME NEW u \in Sessions
               PROVE  /\ session'[u].role = "ADMIN" => self'[u] \in {None, session'[u].name}
                      /\ pc'[u] = "remove" => req'[u].name # session'[u].name
    BY DEF SelfNamed
  <2>1. CASE u # t
    BY <1>2, <1>3, <1>4, <2>1 DEF SelfNamed
  <2>2. CASE u = t
    <3>1. CASE pc[t] \in {"fetch", "upgrade"} /\ pc'[t] = "ok"
      BY <1>2, <1>4, <2>2, <3>1 DEF Admin
    <3>2. CASE ~(pc[t] \in {"fetch", "upgrade"} /\ pc'[t] = "ok")
      BY <1>2, <1>3, <1>4, <2>2, <3>2 DEF SelfNamed
    <3> QED
      BY <3>1, <3>2
  <2> QED
    BY <2>1, <2>2
<1>5. ASSUME NEW t \in Sessions, Observe(t), Receive(t) PROVE SelfNamed'
  <2>1. PICK r \in Requests : Receive(t)!2!(r)
    BY <1>5 DEF Receive
  <2>2. pc[t] = "idle" /\ req'[t] = r /\ session'[t] \in {session[t], Anonymous}
    BY <1>5, <2>1 DEF Receive
  <2>3. pc'[t] = "remove" => req'[t].name # session'[t].name
    BY <2>1, RequestByOp, FirstLabels DEF Refused
  <2> QED
    BY <1>4, <1>5, <2>1, <2>2, <2>3 DEF Anonymous
<1>6. ASSUME NEW t \in Sessions, Observe(t), Fetch(t) \/ Upgrade(t) PROVE SelfNamed'
  <2>1. /\ pc[t] \in {"fetch", "upgrade"} /\ pc'[t] \in {"ok", "upgrade", "error"}
        /\ IF pc'[t] = "ok" THEN session' = [session EXCEPT ![t] = Admin(req[t].name)]
           ELSE session' = session
        /\ req' = req /\ \A u \in Sessions \ {t} : pc'[u] = pc[u]
    BY <1>6 DEF Fetch, Upgrade, Become
  <2> QED
    BY <1>4, <1>6, <2>1
<1>7. ASSUME NEW t \in Sessions, Observe(t),
             CreateExists(t) \/ Upsert(t) \/ Remove(t) \/ ReadChanges(t) \/ List(t)
      PROVE  SelfNamed'
  <2>1. /\ pc[t] \notin {"fetch", "upgrade"} /\ pc'[t] # "remove"
        /\ session' = session /\ req' = req
        /\ \A u \in Sessions \ {t} : pc'[u] = pc[u]
    BY <1>7 DEF CreateExists, Upsert, Remove, ReadChanges, List, Write, WriteFails
  <2> QED
    BY <1>4, <1>7, <2>1
<1>8. ASSUME NEW t \in Sessions, Observe(t), Reply(t) \/ Disconnect(t) PROVE SelfNamed'
  <2>1. /\ pc[t] \notin {"fetch", "upgrade"} /\ pc'[t] # "remove"
        /\ session'[t] \in {session[t], Anonymous}
        /\ \A u \in Sessions \ {t} :
              session'[u] = session[u] /\ pc'[u] = pc[u] /\ req'[u] = req[u]
    BY <1>8 DEF Reply, Disconnect
  <2> QED
    BY <1>4, <1>8, <2>1 DEF Anonymous
<1>9. CASE Restart
  BY <1>9 DEF Restart, SelfNamed, Anonymous
<1>10. CASE UNCHANGED ledgerVars
  BY <1>10 DEF ledgerVars, vars, SelfNamed
<1>11. ASSUME NEW t \in Sessions,
              \/ UpdateFindOld(t) \/ RenameFindOld(t) \/ RenameFindNew(t)
              \/ Rename(t) \/ Sync(t)
       PROVE  FALSE
  BY <1>1, <1>11 DEF UpdateFindOld, RenameFindOld, RenameFindNew, Rename, Sync
<1> QED
  BY <1>5, <1>6, <1>7, <1>8, <1>9, <1>10, <1>11 DEF LedgerNext, Serve

\* As long as nobody renames an account, the check of handle_admin_delete is
\* enough: of any number of administrators that log in, create and delete at the
\* same time, none deletes its own account, whichever statements fail.
THEOREM NobodyDeletesItself ==
    ASSUME NoUpdates
    PROVE  LedgerSpec => NeverDeletesItself
<1>1. LedgerInit => SelfNamed
  <2> SUFFICES ASSUME LedgerInit, NEW t \in Sessions
               PROVE  session[t].role # "ADMIN" /\ pc[t] # "remove"
    BY DEF SelfNamed
  <2> QED
    BY DEF LedgerInit, Init, Anonymous
<1>2. TypeInv /\ SelfNamed /\ [LedgerNext]_ledgerVars => SelfNamed'
  BY NamedStep
<1>3. TypeInv /\ RoleInside /\ SelfNamed =>
          [\A t \in Sessions :
               Moves(t, "remove", "changes") /\ changes' = 1
                   => req[t].name # self[t]]_ledgerVars
  BY NoneAssumption
     DEF TypeInv, InHandler, RoleInside, AdminLabels, SelfNamed, Moves, Removals
<1> QED
  BY <1>1, <1>2, <1>3, LedgerIsAccounts, RoleInvariant, PTL
     DEF LedgerSpec, NeverDeletesItself

=============================================================================
