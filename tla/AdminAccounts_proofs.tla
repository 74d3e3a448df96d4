------------------------ MODULE AdminAccounts_proofs ------------------------
(***************************************************************************)
(* Theorems about AdminAccounts, for any set of sessions, names, passwords *)
(* and requests, and whether or not statements may fail.                   *)
(***************************************************************************)
EXTENDS AdminAccounts, TLAPS

-----------------------------------------------------------------------------
(* Type correctness. *)

\* A session inside a handler serves a request of that handler.
InHandler ==
    \A t \in Sessions :
        /\ pc[t] # "idle" => req[t] \in Requests
        /\ pc[t] \in {"fetch", "upgrade"} => req[t] \in Logins
        /\ pc[t] = "exists" => req[t] \in Creates
        /\ pc[t] \in {"findOld", "renameOld", "renameNew", "rename", "sync"}
              => req[t] \in Updates
        /\ pc[t] = "upsert" =>
              \/ req[t] \in Creates
              \/ req[t] \in Updates /\ req[t].pass # None
        /\ pc[t] \in {"remove", "changes"} => req[t] \in Removals

\* The handlers of administrators run for administrators.
RoleInside ==
    \A t \in Sessions : pc[t] \in AdminLabels => session[t].role = "ADMIN"

TypeInv == TypeOK /\ InHandler

\* What a request asks for tells which handler it belongs to.
LEMMA RequestByOp ==
    ASSUME NEW r \in Requests
    PROVE  /\ r.op \in {"login", "create", "update", "delete", "list", "logout"}
           /\ r.op = "login"  => r \in Logins
           /\ r.op = "create" => r \in Creates
           /\ r.op = "update" => r \in Updates
           /\ r.op = "delete" => r \in Removals
  BY RequestAssumption DEF Logins, Creates, Updates, Removals, Others

\* The first statement of the handler of a request.
LEMMA FirstLabels ==
    /\ FirstLabel("login") = "fetch"    /\ FirstLabel("create") = "exists"
    /\ FirstLabel("update") = "findOld" /\ FirstLabel("delete") = "remove"
    /\ FirstLabel("list") = "list"      /\ FirstLabel("logout") = "ok"
  BY DEF FirstLabel

\* Passwords are stored as words with a form.
LEMMA EncodeType == \A p \in Passwords : Encode(p) \in Stored
  BY DEF Encode, Stored

\* The startup leaves a table behind.
LEMMA InjectedType ==
    ASSUME NEW table \in [Names -> Stored \cup {None}]
    PROVE  Injected(table) \in [Names -> Stored \cup {None}]
  BY EncodeType, DefaultAssumption DEF Injected

\* The table of the time before hashing and the first start upon it are typed.
THEOREM TypeInit == Init => TypeInv
<1> SUFFICES ASSUME Init PROVE TypeInv
  OBVIOUS
<1>1. PICK old \in [Names -> {None} \cup [form : {"plain"}, word : Passwords \ HashLike]] :
          accounts = Injected(old)
  BY DEF Init
<1>2. old \in [Names -> Stored \cup {None}]
  BY <1>1 DEF Stored
<1>3. accounts \in [Names -> Stored \cup {None}]
  BY <1>1, <1>2, InjectedType
<1> QED
  BY <1>3 DEF Init, TypeInv, TypeOK, InHandler, Labels, AdminLabels, Anonymous

\* Every statement of a handler, and a restart, keeps the types.
THEOREM TypeStep == TypeInv /\ [Next]_vars => TypeInv'
<1> SUFFICES ASSUME TypeInv, [Next]_vars PROVE TypeInv'
  OBVIOUS
<1> USE DEF TypeInv, TypeOK, InHandler, Labels, AdminLabels, Goto, Continue
<1>1. ASSUME NEW t \in Sessions, Receive(t) PROVE TypeInv'
  <2>1. PICK r \in Requests : Receive(t)!2!(r)
    BY <1>1 DEF Receive
  <2>2. pc' = [pc EXCEPT ![t] = "error"] \/ pc' = [pc EXCEPT ![t] = FirstLabel(r.op)]
    BY <2>1
  <2> QED
    BY <1>1, <2>1, <2>2, RequestByOp, FirstLabels DEF Receive, Anonymous
<1>2. ASSUME NEW t \in Sessions, Fetch(t) PROVE TypeInv'
  BY <1>2 DEF Fetch, Become, Admin, Logins
<1>3. ASSUME NEW t \in Sessions, Upgrade(t) PROVE TypeInv'
  BY <1>3, EncodeType DEF Upgrade, Admin, Logins
<1>4. ASSUME NEW t \in Sessions, CreateExists(t) PROVE TypeInv'
  BY <1>4 DEF CreateExists
<1>5. ASSUME NEW t \in Sessions, UpdateFindOld(t) PROVE TypeInv'
  BY <1>5 DEF UpdateFindOld, AfterRename
<1>6. ASSUME NEW t \in Sessions, RenameFindOld(t) PROVE TypeInv'
  BY <1>6 DEF RenameFindOld
<1>7. ASSUME NEW t \in Sessions, RenameFindNew(t) PROVE TypeInv'
  BY <1>7 DEF RenameFindNew
<1>8. ASSUME NEW t \in Sessions, Rename(t) PROVE TypeInv'
  <2>1. Moved(req[t].name, req[t].new) \in [Names -> Stored \cup {None}]
    BY <1>8 DEF Rename, Moved, Updates
  <2> QED
    BY <1>8, <2>1 DEF Rename, AfterRename, Write, WriteFails
<1>9. ASSUME NEW t \in Sessions, Upsert(t) PROVE TypeInv'
  <2>1. req[t].pass \in Passwords
    BY <1>9 DEF Upsert, Creates, Updates
  <2>2. \A n : [accounts EXCEPT ![n] = Encode(req[t].pass)] \in [Names -> Stored \cup {None}]
    BY <2>1, EncodeType
  <2>3. req[t].op # "create" => req[t] \in Updates
    BY <1>9 DEF Upsert, Creates
  <2>4. accounts' \in [Names -> Stored \cup {None}] /\ changes' \in {0, 1}
    BY <1>9, <2>2 DEF Upsert, Write, WriteFails
  <2>5. \/ pc' = [pc EXCEPT ![t] = "ok"] \/ pc' = [pc EXCEPT ![t] = "error"]
        \/ pc' = [pc EXCEPT ![t] = "sync"] /\ req[t].op # "create"
    BY <1>9 DEF Upsert, Write, WriteFails
  <2>6. pc[t] = "upsert" /\ req' = req /\ session' = session
    BY <1>9 DEF Upsert, Write, WriteFails
  <2> QED
    BY <2>3, <2>4, <2>5, <2>6
<1>10. ASSUME NEW t \in Sessions, Sync(t) PROVE TypeInv'
  BY <1>10 DEF Sync, Updates
<1>11. ASSUME NEW t \in Sessions, Remove(t) PROVE TypeInv'
  <2>1. accounts' \in [Names -> Stored \cup {None}] /\ changes' \in {0, 1}
    BY <1>11 DEF Remove, Write, WriteFails
  <2>2. /\ pc[t] = "remove" /\ req' = req /\ session' = session
        /\ \/ pc' = [pc EXCEPT ![t] = "changes"]
           \/ pc' = [pc EXCEPT ![t] = "error"]
    BY <1>11 DEF Remove, Write, WriteFails
  <2>3. pc' \in [Sessions -> Labels] /\ pc'[t] \in {"changes", "error"}
        /\ \A u \in Sessions \ {t} : pc'[u] = pc[u]
    BY <2>2
  <2>4. TypeOK'
    BY <2>1, <2>2, <2>3
  <2>5. InHandler'
    BY <2>2, <2>3
  <2> QED
    BY <2>4, <2>5
<1>12. ASSUME NEW t \in Sessions, ReadChanges(t) PROVE TypeInv'
  BY <1>12 DEF ReadChanges
<1>13. ASSUME NEW t \in Sessions, List(t) PROVE TypeInv'
  BY <1>13 DEF List
<1>14. ASSUME NEW t \in Sessions, Reply(t) PROVE TypeInv'
  BY <1>14 DEF Reply
<1>15. ASSUME NEW t \in Sessions, Disconnect(t) PROVE TypeInv'
  BY <1>15 DEF Disconnect, Anonymous
<1>16. CASE Restart
  BY <1>16, InjectedType DEF Restart, Anonymous
<1>17. CASE UNCHANGED vars
  BY <1>17 DEF vars
<1> QED
  BY <1>1, <1>2, <1>3, <1>4, <1>5, <1>6, <1>7, <1>8, <1>9, <1>10, <1>11, <1>12,
     <1>13, <1>14, <1>15, <1>16, <1>17 DEF Next, Serve

\* The types hold for ever, with the kind of request at each label.
LEMMA TypeInvariant == Spec => []TypeInv
<1>1. Init => TypeInv
  BY TypeInit
<1>2. TypeInv /\ [Next]_vars => TypeInv'
  BY TypeStep
<1> QED
  BY <1>1, <1>2, PTL DEF Spec

\* Every variable keeps its type.
THEOREM TypeCorrect == Spec => []TypeOK
<1>1. TypeInv => TypeOK
  BY DEF TypeInv
<1> QED
  BY <1>1, TypeInvariant, PTL

-----------------------------------------------------------------------------
(* Roles. *)

\* A handler of administrators was entered by one, and only the session itself
\* can give its role away, between two requests.
LEMMA RoleStep ==
    TypeInv /\ RoleInside /\ [Next]_vars => RoleInside'
<1> SUFFICES ASSUME TypeInv, RoleInside, [Next]_vars PROVE RoleInside'
  OBVIOUS
<1> USE DEF TypeInv, TypeOK, RoleInside, Labels, AdminLabels, Goto, Continue
<1>1. ASSUME NEW t \in Sessions, Receive(t) PROVE RoleInside'
  <2>1. PICK r \in Requests : Receive(t)!2!(r)
    BY <1>1 DEF Receive
  <2>2. \/ pc' = [pc EXCEPT ![t] = "error"]
        \/ pc' = [pc EXCEPT ![t] = FirstLabel(r.op)]
           /\ (r.op \in AdminOps => session[t].role = "ADMIN")
    BY <2>1 DEF Permitted
  <2>3. r.op # "logout" => session' = session
    BY <2>1
  <2>4. r.op = "logout" => pc'[t] \in {"ok", "error"} /\ \A u \in Sessions \ {t} :
            session'[u] = session[u] /\ pc'[u] = pc[u]
    BY <2>1, <2>2, FirstLabels
  <2>5. r.op # "logout" => RoleInside'
    BY <2>2, <2>3, RequestByOp, FirstLabels DEF AdminOps
  <2> QED
    BY <2>4, <2>5
<1>2. ASSUME NEW t \in Sessions, Fetch(t) PROVE RoleInside'
  BY <1>2 DEF Fetch, Become, Admin
<1>3. ASSUME NEW t \in Sessions, Upgrade(t) PROVE RoleInside'
  BY <1>3 DEF Upgrade, Admin
<1>4. ASSUME NEW t \in Sessions, CreateExists(t) PROVE RoleInside'
  BY <1>4 DEF CreateExists
<1>5. ASSUME NEW t \in Sessions, UpdateFindOld(t) PROVE RoleInside'
  BY <1>5 DEF UpdateFindOld, AfterRename
<1>6. ASSUME NEW t \in Sessions, RenameFindOld(t) PROVE RoleInside'
  BY <1>6 DEF RenameFindOld
<1>7. ASSUME NEW t \in Sessions, RenameFindNew(t) PROVE RoleInside'
  BY <1>7 DEF RenameFindNew
<1>8. ASSUME NEW t \in Sessions, Rename(t) PROVE RoleInside'
  BY <1>8 DEF Rename, AfterRename, Write, WriteFails
<1>9. ASSUME NEW t \in Sessions, Upsert(t) PROVE RoleInside'
  BY <1>9 DEF Upsert, Write, WriteFails
<1>10. ASSUME NEW t \in Sessions, Sync(t) PROVE RoleInside'
  BY <1>10 DEF Sync
<1>11. ASSUME NEW t \in Sessions, Remove(t) PROVE RoleInside'
  BY <1>11 DEF Remove, Write, WriteFails
<1>12. ASSUME NEW t \in Sessions, ReadChanges(t) PROVE RoleInside'
  BY <1>12 DEF ReadChanges
<1>13. ASSUME NEW t \in Sessions, List(t) PROVE RoleInside'
  BY <1>13 DEF List
<1>14. ASSUME NEW t \in Sessions, Reply(t) PROVE RoleInside'
  BY <1>14 DEF Reply
<1>15. ASSUME NEW t \in Sessions, Disconnect(t) PROVE RoleInside'
  BY <1>15 DEF Disconnect
<1>16. CASE Restart
  BY <1>16 DEF Restart
<1>17. CASE UNCHANGED vars
  BY <1>17 DEF vars
<1> QED
  BY <1>1, <1>2, <1>3, <1>4, <1>5, <1>6, <1>7, <1>8, <1>9, <1>10, <1>11, <1>12,
     <1>13, <1>14, <1>15, <1>16, <1>17 DEF Next, Serve

\* Only an administrator is inside a handler of accounts.
LEMMA RoleInvariant == Spec => [](TypeInv /\ RoleInside)
<1>1. Init => RoleInside
  BY DEF Init, RoleInside, AdminLabels
<1>2. TypeInv /\ RoleInside /\ [Next]_vars => RoleInside'
  BY RoleStep
<1> QED
  BY <1>1, <1>2, TypeInvariant, PTL DEF Spec

-----------------------------------------------------------------------------
(* What a step can do to the table. *)

Rewritten(n, p) == accounts' = [accounts EXCEPT ![n] = Encode(p)]

\* A step of t that executes the statement at label.
Runs(t, label) == pc[t] = label /\ pc'[t] # label

Created(t) ==
    Runs(t, "upsert") /\ \E n \in Names : \E p \in Passwords : Rewritten(n, p)

Upgraded == \E n \in Existing : \E p \in Passwords : Rewritten(n, p)

Renamed(t) ==
    Runs(t, "rename") /\ \E old \in Existing : \E new \in Names \ Existing :
        accounts' = Moved(old, new)

Deleted(t) ==
    /\ pc[t] = "remove" /\ pc'[t] = "changes"
    /\ \E n \in Names : accounts' = [accounts EXCEPT ![n] = None]

\* The statements that write the table, each with the guards that surround it.
LEMMA TableStep ==
    ASSUME TypeInv, [Next]_vars
    PROVE  \/ UNCHANGED accounts
           \/ Upgraded
           \/ Restart /\ accounts' = Injected(accounts)
           \/ \E t \in Sessions : Created(t) \/ Renamed(t) \/ Deleted(t)
<1> USE DEF TypeInv, TypeOK, InHandler, Labels, AdminLabels, Goto
<1>1. CASE \E t \in Sessions :
             \/ Receive(t) \/ Fetch(t) \/ CreateExists(t) \/ UpdateFindOld(t)
             \/ RenameFindOld(t) \/ RenameFindNew(t) \/ Sync(t) \/ ReadChanges(t)
             \/ List(t) \/ Reply(t) \/ Disconnect(t)
  BY <1>1 DEF Receive, Fetch, CreateExists, UpdateFindOld, RenameFindOld,
              RenameFindNew, Sync, ReadChanges, List, Reply, Disconnect,
              Continue, Become
<1>2. ASSUME NEW t \in Sessions, Upgrade(t) PROVE UNCHANGED accounts \/ Upgraded
  BY <1>2 DEF Upgrade, Upgraded, Rewritten, Existing, Exists, Logins
<1>3. ASSUME NEW t \in Sessions, Rename(t) PROVE UNCHANGED accounts \/ Renamed(t)
  <2>1. req[t].name \in Names /\ req[t].new \in Names
    BY <1>3 DEF Rename, Updates
  <2> QED
    BY <1>3, <2>1 DEF Rename, Renamed, Runs, Write, WriteFails, AfterRename,
                      Existing, Exists
<1>4. ASSUME NEW t \in Sessions, Upsert(t) PROVE UNCHANGED accounts \/ Created(t)
  <2>1. req[t].pass \in Passwords /\ req[t].name \in Names
    BY <1>4 DEF Upsert, Creates, Updates
  <2>2. req[t].op # "create" => req[t].new \in Names
    BY <1>4 DEF Upsert, Creates, Updates
  <2> QED
    BY <1>4, <2>1, <2>2 DEF Upsert, Created, Rewritten, Runs, Write, WriteFails
<1>5. ASSUME NEW t \in Sessions, Remove(t) PROVE UNCHANGED accounts \/ Deleted(t)
  BY <1>5 DEF Remove, Deleted, Removals, Write, WriteFails
<1>6. CASE Restart
  BY <1>6 DEF Restart
<1>7. CASE UNCHANGED vars
  BY <1>7 DEF vars
<1> QED
  BY <1>1, <1>2, <1>3, <1>4, <1>5, <1>6, <1>7 DEF Next, Serve

\* A row is a row, before and after the statement that writes it.
LEMMA Row == \A p \in Passwords : Encode(p) # None
  BY EncodeType, NoneAssumption

-----------------------------------------------------------------------------
(* The action properties. *)

\* Accounts come and go only by the hand of a session that has logged in, or
\* by a restart.
THEOREM OnlyAdmins == Spec => OnlyAdminsChangeAccounts
<1>1. ASSUME TypeInv, RoleInside, [Next]_vars, Existing' # Existing
      PROVE  (\E t \in Sessions : pc'[t] # pc[t] /\ session[t].role = "ADMIN") \/ Restart
  <2> USE <1>1 DEF TypeInv, TypeOK
  <2>1. ~Upgraded
    BY Row DEF Upgraded, Rewritten, Existing, Exists
  <2>2. accounts' # accounts
    BY DEF Existing, Exists
  <2>3. ASSUME NEW t \in Sessions, Created(t) \/ Renamed(t) \/ Deleted(t)
        PROVE  pc'[t] # pc[t] /\ session[t].role = "ADMIN"
    BY <2>3 DEF Created, Renamed, Deleted, Runs, RoleInside, AdminLabels
  <2> QED
    BY <2>1, <2>2, <2>3, TableStep
<1>2. TypeInv /\ RoleInside /\ [Next]_vars =>
          [Existing' # Existing =>
               \/ \E t \in Sessions : pc'[t] # pc[t] /\ session[t].role = "ADMIN"
               \/ Restart]_vars
  BY <1>1
<1> QED
  BY <1>2, RoleInvariant, PTL DEF Spec, OnlyAdminsChangeAccounts

\* No step writes a password as it was typed, except one that already looks
\* like a hash.
THEOREM NoPlaintext == Spec => NoNewPlaintext
<1>1. ASSUME TypeInv, [Next]_vars
      PROVE  PlainWords' \subseteq PlainWords \cup HashLike
  <2> USE <1>1 DEF TypeInv, TypeOK
  <2>1. SUFFICES ASSUME NEW p \in Passwords, NEW m \in Names,
                        accounts'[m] = [form |-> "plain", word |-> p]
                 PROVE  p \in HashLike \/ \E n \in Names : accounts[n] = accounts'[m]
    BY DEF PlainWords
  <2>2. accounts'[m] # None
    BY <2>1, NoneAssumption DEF Stored
  <2>3. ASSUME NEW n \in Names, NEW w \in Passwords, Rewritten(n, w)
        PROVE  p \in HashLike \/ accounts[m] = accounts'[m]
    BY <2>1, <2>3 DEF Rewritten, Encode
  <2>4. accounts' = Injected(accounts) =>
           accounts' = accounts \/ Rewritten(DefaultName, DefaultPassword)
    BY DEF Injected, Rewritten
  <2>5. ASSUME NEW old \in Names, NEW new \in Names, accounts' = Moved(old, new)
        PROVE  accounts[m] = accounts'[m] \/ accounts[old] = accounts'[m]
    BY <2>2, <2>5 DEF Moved
  <2>6. ASSUME NEW n \in Names, accounts' = [accounts EXCEPT ![n] = None]
        PROVE  accounts[m] = accounts'[m]
    BY <2>2, <2>6
  <2>7. CASE UNCHANGED accounts
    BY <2>7
  <2>8. CASE Upgraded
    BY <2>3, <2>8 DEF Upgraded, Existing
  <2>9. CASE Restart /\ accounts' = Injected(accounts)
    BY <2>3, <2>4, <2>7, <2>9, DefaultAssumption
  <2>10. CASE \E t \in Sessions : Created(t) \/ Renamed(t) \/ Deleted(t)
    BY <2>3, <2>5, <2>6, <2>10 DEF Created, Renamed, Deleted, Existing
  <2> QED
    BY <2>7, <2>8, <2>9, <2>10, TableStep
<1>2. TypeInv /\ [Next]_vars => [PlainWords' \subseteq PlainWords \cup HashLike]_vars
  BY <1>1
<1> QED
  BY <1>2, TypeInvariant, PTL DEF Spec, NoNewPlaintext

\* An account goes away only by a DELETE, or lives on under a name nobody had.
THEOREM NoneLost == Spec => NoAccountLost
<1>1. ASSUME TypeInv, [Next]_vars, NEW n \in Existing \ Existing'
      PROVE  \/ \E t \in Sessions : pc[t] = "remove" /\ pc'[t] = "changes"
             \/ \E m \in Existing' \ Existing : accounts'[m] = accounts[n]
  <2> USE <1>1 DEF TypeInv, TypeOK, Existing, Exists
  <2>1. ASSUME NEW m \in Names, NEW w \in Passwords, Rewritten(m, w) PROVE FALSE
    BY <2>1, Row DEF Rewritten
  <2>2. accounts' = Injected(accounts) => Rewritten(DefaultName, DefaultPassword)
    BY DEF Injected, Rewritten
  <2>3. ASSUME NEW old \in Existing, NEW new \in Names \ Existing,
               accounts' = Moved(old, new)
        PROVE  \E m \in Existing' \ Existing : accounts'[m] = accounts[n]
    BY <2>3 DEF Moved
  <2>4. CASE UNCHANGED accounts
    BY <2>4
  <2>5. CASE Upgraded
    BY <2>1, <2>5 DEF Upgraded
  <2>6. CASE Restart /\ accounts' = Injected(accounts)
    BY <2>1, <2>2, <2>6, DefaultAssumption
  <2>7. CASE \E t \in Sessions : Created(t) \/ Renamed(t) \/ Deleted(t)
    BY <2>1, <2>3, <2>7 DEF Created, Renamed, Deleted
  <2> QED
    BY <2>4, <2>5, <2>6, <2>7, TableStep
<1>2. TypeInv /\ [Next]_vars =>
          [\A n \in Existing \ Existing' :
               \/ \E t \in Sessions : pc[t] = "remove" /\ pc'[t] = "changes"
               \/ \E m \in Existing' \ Existing : accounts'[m] = accounts[n]]_vars
  BY <1>1
<1> QED
  BY <1>2, TypeInvariant, PTL DEF Spec, NoAccountLost

-----------------------------------------------------------------------------
(* What a session has read stays true until it writes: for a session alone,  *)
(* and for the login among others that only log in and delete.               *)

Alone == \A t, u \in Sessions : t = u

OnlyRemovals == Requests \cap (Creates \cup Updates) = {}

\* The password that was compared is still the one in the table.
Compared ==
    \A t \in Sessions :
        pc[t] = "upgrade" /\ Exists(req[t].name)
            => accounts[req[t].name].word = req[t].pass

\* Steps of others that Compared survives.
KeepsWords ==
    \A n \in Names : Exists(n)' => Exists(n) /\ accounts'[n].word = accounts[n].word

\* A password that was compared stays the stored one until the upgrade writes it.
LEMMA ComparedStep ==
    ASSUME Alone \/ OnlyRemovals
    PROVE  TypeInv /\ Compared /\ [Next]_vars => Compared'
<1> SUFFICES ASSUME TypeInv, Compared, [Next]_vars PROVE Compared'
  OBVIOUS
<1> USE DEF TypeInv, TypeOK, InHandler, Goto
<1>1. ASSUME NEW t \in Sessions, pc'[t] # "upgrade", KeepsWords \/ Alone,
             \A u \in Sessions \ {t} : pc'[u] = pc[u] /\ req'[u] = req[u]
      PROVE  Compared'
  BY <1>1 DEF Compared, KeepsWords, Alone, Exists, Logins
<1>2. ASSUME UNCHANGED accounts PROVE KeepsWords
  BY <1>2 DEF KeepsWords, Exists
<1>3. ASSUME NEW t \in Sessions, Receive(t) PROVE Compared'
  <2>1. PICK r \in Requests : Receive(t)!2!(r)
    BY <1>3 DEF Receive
  <2>2. pc'[t] # "upgrade"
    BY <1>3, <2>1, RequestByOp, FirstLabels DEF Receive
  <2> QED
    BY <1>1, <1>2, <1>3, <2>1, <2>2 DEF Receive
<1>4. ASSUME NEW t \in Sessions, Fetch(t) PROVE Compared'
  <2>1. /\ UNCHANGED <<accounts, req>>
        /\ \A u \in Sessions \ {t} : pc'[u] = pc[u]
        /\ pc'[t] = "upgrade" =>
              /\ Opens(req[t].pass, accounts[req[t].name])
              /\ ~IsEncoded(accounts[req[t].name])
    BY <1>4 DEF Fetch, Become, Continue
  <2>2. pc'[t] = "upgrade" => accounts[req[t].name].word = req[t].pass
    BY <2>1 DEF Opens, IsEncoded
  <2> QED
    BY <2>1, <2>2 DEF Compared, Exists
<1>5. ASSUME NEW t \in Sessions, Upgrade(t) PROVE Compared'
  <2>1. req[t].name \in Names
    BY <1>5 DEF Upgrade, Logins
  <2>2. Exists(req[t].name) => accounts[req[t].name].word = req[t].pass
    BY <1>5 DEF Upgrade, Compared
  <2>3. KeepsWords
    BY <1>5, <2>1, <2>2 DEF Upgrade, KeepsWords, Exists, Encode
  <2> QED
    BY <1>1, <1>5, <2>3 DEF Upgrade
<1>6. ASSUME NEW t \in Sessions, Rename(t) \/ Upsert(t) PROVE Compared'
  <2>1. req[t] \in Creates \cup Updates /\ req[t] \in Requests
    BY <1>6 DEF Rename, Upsert
  <2>2. Alone
    BY <2>1 DEF OnlyRemovals
  <2> QED
    BY <1>1, <1>6, <2>2 DEF Rename, Upsert, AfterRename, Write, WriteFails
<1>7. ASSUME NEW t \in Sessions, Remove(t) PROVE Compared'
  <2>1. KeepsWords
    BY <1>7 DEF Remove, Removals, Write, WriteFails, KeepsWords, Exists
  <2> QED
    BY <1>1, <1>7, <2>1 DEF Remove, Write, WriteFails
<1>8. ASSUME NEW t \in Sessions,
             \/ CreateExists(t) \/ UpdateFindOld(t) \/ RenameFindOld(t)
             \/ RenameFindNew(t) \/ Sync(t) \/ ReadChanges(t) \/ List(t) \/ Reply(t)
      PROVE  Compared'
  BY <1>1, <1>2, <1>8
     DEF CreateExists, UpdateFindOld, RenameFindOld, RenameFindNew, AfterRename,
         Sync, ReadChanges, List, Reply, Continue
<1>9. ASSUME NEW t \in Sessions, Disconnect(t) PROVE Compared'
  BY <1>9 DEF Disconnect, Compared, Exists
<1>10. CASE Restart
  BY <1>10 DEF Restart, Compared
<1>11. CASE UNCHANGED vars
  BY <1>11 DEF vars, Compared, Exists
<1> QED
  BY <1>3, <1>4, <1>5, <1>6, <1>7, <1>8, <1>9, <1>10, <1>11 DEF Next, Serve

\* A login changes nobody's password, for a session alone and for any number
\* of sessions that log in, list and delete, whichever statements fail: the
\* upgrade of a password of the time before hashing finds the account as it was
\* compared, or gone.
THEOREM UpgradeIsHarmless ==
    ASSUME Alone \/ OnlyRemovals
    PROVE  Spec => UpgradeKeepsPassword
<1>1. Init => Compared
  BY DEF Init, Compared
<1>2. TypeInv /\ Compared /\ [Next]_vars => Compared'
  BY ComparedStep
<1>3. TypeInv /\ Compared => [(\E t \in Sessions : Upgrade(t)) => Words' = Words]_vars
  <2> SUFFICES ASSUME TypeInv, Compared, NEW t \in Sessions, Upgrade(t)
               PROVE  Words' = Words
    OBVIOUS
  <2>1. req[t].name \in Names /\ req[t].pass \in Passwords
    BY DEF Upgrade, TypeInv, InHandler, Logins
  <2>2. Exists(req[t].name) => accounts[req[t].name].word = req[t].pass
    BY DEF Upgrade, Compared
  <2>3. ASSUME NEW n \in Names
        PROVE  /\ Exists(n)' <=> Exists(n)
               /\ Exists(n) => accounts'[n].word = accounts[n].word
    BY <2>1, <2>2, Row DEF Upgrade, Exists, Encode, TypeInv, TypeOK
  <2> QED
    BY <2>3 DEF Words
<1> QED
  BY <1>1, <1>2, <1>3, TypeInvariant, PTL DEF Spec, UpgradeKeepsPassword

-----------------------------------------------------------------------------
(* A session alone, when no statement fails. *)

Undisturbed == Alone /\ ~MayFail

\* The name that the account of t has in the table: between the rename of its
\* own account and Sync the session still has the old one.
Current(t) ==
    IF pc[t] \in {"upsert", "sync"} /\ req[t].op = "update"
          /\ req[t].name = session[t].name
    THEN req[t].new
    ELSE session[t].name

\* What the handler of t has found out so far is still so.
Found(t) ==
    /\ pc[t] = "upgrade" => Exists(req[t].name)
    /\ pc[t] \in {"renameOld", "renameNew", "rename"} =>
          Exists(req[t].name) /\ req[t].name # req[t].new
    /\ pc[t] = "rename" => ~Exists(req[t].new)
    /\ pc[t] \in {"upsert", "sync"} /\ req[t].op = "update" => Exists(req[t].new)
    /\ pc[t] = "upsert" /\ req[t].op = "create" => ~Exists(req[t].name)
    /\ pc[t] = "remove" => req[t].name # session[t].name

HasAccount(t) ==
    session[t].role = "ADMIN" => Current(t) \in Names /\ Exists(Current(t))

AloneInv == \A t \in Sessions : Found(t) /\ HasAccount(t)

\* What a session found in the table stays true until it acts on it.
LEMMA AloneStep ==
    ASSUME Undisturbed
    PROVE  TypeInv /\ RoleInside /\ AloneInv /\ [Next]_vars => AloneInv'
<1> SUFFICES ASSUME TypeInv, RoleInside, AloneInv, [Next]_vars PROVE AloneInv'
  OBVIOUS
<1> USE DEF TypeInv, TypeOK, InHandler, Labels, AdminLabels, Goto, Continue
<1>0. ASSUME NEW t \in Sessions, Found(t)', HasAccount(t)' PROVE AloneInv'
  BY <1>0 DEF Undisturbed, Alone, AloneInv
<1>1. ASSUME NEW t \in Sessions PROVE Found(t) /\ HasAccount(t)
  BY DEF AloneInv
<1>2. ~MayFail
  BY DEF Undisturbed
<1> USE DEF Found, HasAccount, Current, Exists
<1>3. ASSUME NEW t \in Sessions, Receive(t) PROVE AloneInv'
  <2>1. PICK r \in Requests : Receive(t)!2!(r)
    BY <1>3 DEF Receive
  <2>2. pc'[t] \in {"fetch", "exists", "findOld", "remove", "list", "ok", "error"}
    BY <2>1, <1>3, RequestByOp, FirstLabels DEF Receive
  <2>3. pc'[t] = "remove" => ~Refused(t, r) /\ r.op = "delete"
    BY <2>1, <1>3, RequestByOp, FirstLabels DEF Receive
  <2>4. session'[t] \in {session[t], Anonymous} /\ (r.op # "logout" => session' = session)
    BY <2>1
  <2>5. Found(t)'
    BY <2>1, <2>2, <2>3, <2>4 DEF Refused
  <2>6. HasAccount(t)'
    BY <1>1, <1>3, <2>2, <2>4 DEF Receive, Anonymous
  <2> QED
    BY <1>0, <2>5, <2>6
<1>4. ASSUME NEW t \in Sessions, Fetch(t) PROVE AloneInv'
  <2>1. Found(t)'
    BY <1>1, <1>2, <1>4 DEF Fetch, Become
  <2>2. HasAccount(t)'
    BY <1>1, <1>2, <1>4 DEF Fetch, Become, Admin, Logins
  <2> QED
    BY <1>0, <2>1, <2>2
<1>5. ASSUME NEW t \in Sessions, Upgrade(t) PROVE AloneInv'
  <2>1. accounts'[req[t].name] # None /\ req[t].name \in Names
    BY <1>1, <1>2, <1>5, Row DEF Upgrade, Logins
  <2>2. pc'[t] = "ok" /\ session'[t] = Admin(req[t].name) /\ req' = req
    BY <1>5 DEF Upgrade
  <2> QED
    BY <1>0, <2>1, <2>2 DEF Admin
<1>6. ASSUME NEW t \in Sessions, CreateExists(t) PROVE AloneInv'
  BY <1>0, <1>1, <1>2, <1>6 DEF CreateExists, Creates
<1>7. ASSUME NEW t \in Sessions, UpdateFindOld(t) PROVE AloneInv'
  <2>1. /\ req[t].op = "update" /\ req[t].name \in Names
        /\ pc[t] = "findOld" /\ UNCHANGED <<accounts, session, req>>
    BY <1>7 DEF UpdateFindOld, Updates
  <2>2. \/ pc'[t] = "error"
        \/ pc'[t] = "renameOld" /\ Exists(req[t].name) /\ req[t].name # req[t].new
        \/ /\ pc'[t] \in {"sync", "upsert"}
           /\ Exists(req[t].name) /\ req[t].name = req[t].new
    BY <1>2, <1>7 DEF UpdateFindOld, AfterRename
  <2>3. Found(t)'
    BY <2>1, <2>2
  <2>4. HasAccount(t)'
    BY <1>1, <2>1, <2>2
  <2> QED
    BY <1>0, <2>3, <2>4
<1>8. ASSUME NEW t \in Sessions, RenameFindOld(t) \/ RenameFindNew(t) PROVE AloneInv'
  <2>1. /\ pc[t] \in {"renameOld", "renameNew"} /\ UNCHANGED <<accounts, session, req>>
        /\ \/ pc'[t] \in {"renameNew", "error"}
           \/ pc'[t] = "rename" /\ ~Exists(req[t].new)
    BY <1>2, <1>8 DEF RenameFindOld, RenameFindNew
  <2> QED
    BY <1>0, <1>1, <2>1
<1>9. ASSUME NEW t \in Sessions, Rename(t) PROVE AloneInv'
  <2>1. /\ pc[t] = "rename" /\ req[t] \in Updates
        /\ Exists(req[t].name) /\ ~Exists(req[t].new) /\ req[t].name # req[t].new
    BY <1>1, <1>9 DEF Rename
  <2>2. /\ accounts' = Moved(req[t].name, req[t].new)
        /\ pc'[t] \in {"sync", "upsert"} /\ UNCHANGED <<session, req>>
    BY <1>2, <1>9, <2>1 DEF Rename, Write, AfterRename
  <2>3. /\ accounts'[req[t].new] # None
        /\ \A n \in Names \ {req[t].name} :
              accounts[n] # None => accounts'[n] # None
    BY <2>1, <2>2 DEF Moved, Updates
  <2>4. req[t].op = "update"
    BY <2>1 DEF Updates
  <2>5. Found(t)'
    BY <2>2, <2>3, <2>4
  <2>6. HasAccount(t)'
    BY <1>1, <2>1, <2>2, <2>3, <2>4 DEF Updates
  <2> QED
    BY <1>0, <2>5, <2>6
<1>10. ASSUME NEW t \in Sessions, Upsert(t) PROVE AloneInv'
  <2>1. /\ pc[t] = "upsert" /\ UNCHANGED <<session, req>>
        /\ pc'[t] = IF req[t].op = "create" THEN "ok" ELSE "sync"
        /\ \A n \in Names : accounts[n] # None => accounts'[n] # None
    BY <1>2, <1>10, Row DEF Upsert, Write, Creates, Updates
  <2>2. req[t].op = "create" \/ (req[t].op = "update" /\ req[t].new \in Names)
    BY <2>1 DEF Creates, Updates
  <2>3. Found(t)'
    BY <1>1, <2>1, <2>2
  <2>4. HasAccount(t)'
    BY <1>1, <2>1, <2>2
  <2> QED
    BY <1>0, <2>3, <2>4
<1>11. ASSUME NEW t \in Sessions, Sync(t) PROVE AloneInv'
  <2>1. req[t].op = "update" /\ req[t].new \in Names
    BY <1>11 DEF Sync, Updates
  <2> QED
    BY <1>0, <1>1, <1>11, <2>1 DEF Sync
<1>12. ASSUME NEW t \in Sessions, Remove(t) PROVE AloneInv'
  <2>1. /\ pc[t] = "remove" /\ pc'[t] = "changes" /\ UNCHANGED <<session, req>>
        /\ accounts' = [accounts EXCEPT ![req[t].name] = None]
    BY <1>2, <1>12 DEF Remove, Write
  <2> QED
    BY <1>0, <1>1, <2>1
<1>13. ASSUME NEW t \in Sessions, ReadChanges(t) \/ List(t) \/ Reply(t) PROVE AloneInv'
  BY <1>0, <1>1, <1>13 DEF ReadChanges, List, Reply
<1>14. ASSUME NEW t \in Sessions, Disconnect(t) PROVE AloneInv'
  BY <1>0, <1>14 DEF Disconnect, Anonymous
<1>15. CASE Restart
  BY <1>15 DEF Restart, AloneInv, Anonymous
<1>16. CASE UNCHANGED vars
  BY <1>16 DEF vars, AloneInv
<1> QED
  BY <1>3, <1>4, <1>5, <1>6, <1>7, <1>8, <1>9, <1>10, <1>11, <1>12, <1>13, <1>14,
     <1>15, <1>16 DEF Next, Serve

\* Alone and without failing statements, what was checked holds when it is used.
LEMMA AloneInvariant ==
    ASSUME Undisturbed
    PROVE  Spec => []AloneInv
<1>1. Init => AloneInv
  <2> SUFFICES ASSUME Init, NEW t \in Sessions PROVE Found(t) /\ HasAccount(t)
    BY DEF AloneInv
  <2>1. pc[t] = "idle" /\ session[t].role = "STUDENT"
    BY DEF Init, Anonymous
  <2> QED
    BY <2>1 DEF Found, HasAccount
<1>2. TypeInv /\ RoleInside /\ AloneInv /\ [Next]_vars => AloneInv'
  BY AloneStep
<1> QED
  BY <1>1, <1>2, RoleInvariant, PTL DEF Spec

\* An administrator that is alone keeps its account: the handlers never let it
\* delete its own, under whatever name, and its session follows its renames.
THEOREM AccountStays ==
    ASSUME Undisturbed
    PROVE  Spec => []OwnAccountStays
<1>1. AloneInv => OwnAccountStays
  BY DEF AloneInv, HasAccount, Current, OwnAccountStays, Existing
<1> QED
  BY <1>1, AloneInvariant, PTL

\* For a session alone the check of handle_admin_create is as good as a lock: no
\* account is under the name when the upsert runs.
THEOREM CreatesOnlyNew ==
    ASSUME Undisturbed
    PROVE  Spec => CreateNeverOverwrites
<1>1. AloneInv => [\A t \in Sessions :
                      Upsert(t) /\ req[t].op = "create" =>
                          \/ req[t].name \notin Existing
                          \/ UNCHANGED accounts]_vars
  BY DEF AloneInv, Found, Upsert, Existing
<1> QED
  BY <1>1, AloneInvariant, PTL DEF CreateNeverOverwrites

=============================================================================
