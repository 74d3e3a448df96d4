---------------------------- MODULE AdminAccounts ----------------------------
(***************************************************************************)
(* The administrator accounts: AdministratorRepository                     *)
(* (driver/src/db_administrators_handle.cpp), the handlers that use it     *)
(* (programs/Server/src/cmdreg.cpp), the role check of the dispatcher and  *)
(* the session that each client thread keeps on its stack.                 *)
(*                                                                         *)
(* All sessions share one connection and no handler opens a transaction:   *)
(* every statement commits by itself, and between two statements of one    *)
(* session those of the others run.  A step is one statement.              *)
(***************************************************************************)
EXTENDS Naturals

CONSTANTS
    Sessions,         \* the client threads of the server
    Names,            \* usernames
    Passwords,        \* passwords
    HashLike,         \* those that begin with "pbkdf2$"
    HashOf,           \* the password each of these is a valid encoding of, or None
    DefaultName,      \* "admin"
    DefaultPassword,  \* "admin123"
    None,             \* no row, no name, no password to change
    Requests,         \* what clients may send
    MayFail           \* TRUE if a statement may fail

Logins   == [op : {"login"},  name : Names, pass : Passwords]
Creates  == [op : {"create"}, name : Names, pass : Passwords]
Updates  == [op : {"update"}, name : Names, new : Names,
             pass : Passwords \cup {None}]
Removals == [op : {"delete"}, name : Names]
Others   == [op : {"logout", "list"}]

\* What the table holds for a password.
Stored == [form : {"plain", "hash"}, word : Passwords]

ASSUME NoneAssumption    == None \notin Names \cup Passwords \cup Stored
ASSUME DefaultAssumption == /\ DefaultName \in Names
                            /\ DefaultPassword \in Passwords \ HashLike
ASSUME HashAssumption    == HashOf \in [HashLike -> Passwords \cup {None}]
ASSUME RequestAssumption ==
    Requests \subseteq Logins \cup Creates \cup Updates \cup Removals \cup Others

VARIABLES
    accounts,   \* the table: username to stored password
    changes,    \* what sqlite3_changes() of the connection returns
    session,    \* Session_t of each client thread
    pc,         \* the statement each session runs next
    req         \* the request it is serving

vars == <<accounts, changes, session, pc, req>>

Anonymous == [role |-> "STUDENT", name |-> None]
Admin(n)  == [role |-> "ADMIN", name |-> n]

AdminOps    == {"list", "create", "update", "delete"}
AdminLabels == {"list", "exists", "upsert", "findOld", "renameOld", "renameNew",
                "rename", "sync", "remove", "changes"}
Labels == AdminLabels \cup {"idle", "fetch", "upgrade", "ok", "error"}

-----------------------------------------------------------------------------
(* Passwords: PasswordHash and what the repository stores. *)

\* PasswordHash::is_encoded: by its prefix, so also a password that has it.
IsEncoded(st) == st.form = "hash" \/ st.word \in HashLike

\* Mutant: the password is stored as it was typed.
EncodeNothing(p) == [form |-> "plain", word |-> p]

\* What insert_or_replace stores: what looks encoded is kept as it is.
Encode(p) == [form |-> IF p \in HashLike THEN "plain" ELSE "hash", word |-> p]

\* verify_login: a hash opens to its password, a password of the time before
\* hashing to itself, and one stored because it looked encoded to the password
\* it is the encoding of, if it is one.
Opens(p, st) ==
    \/ p = st.word /\ (st.form = "hash" \/ ~IsEncoded(st))
    \/ st.form = "plain" /\ st.word \in HashLike /\ p = HashOf[st.word]

Exists(n) == accounts[n] # None

-----------------------------------------------------------------------------
(* Steps of the connection. *)

Goto(t, label) == pc' = [pc EXCEPT ![t] = label]

\* A statement that only reads, or fails, and leads to label.
Continue(t, label) == Goto(t, label) /\ UNCHANGED <<accounts, changes, session, req>>

\* A statement that writes: n rows of table become its outcome.
Write(t, table, n, label) ==
    /\ accounts' = table
    /\ changes' = n
    /\ Goto(t, label)
    /\ UNCHANGED <<session, req>>

\* A writing statement that fails leaves 0 changes, or is never executed.
WriteFails(t, label) ==
    /\ changes' \in {0, changes}
    /\ Goto(t, label)
    /\ UNCHANGED <<accounts, session, req>>

\* A session of a name becomes or ceases to be an administrator's.
Become(t, s) ==
    /\ session' = [session EXCEPT ![t] = s]
    /\ Goto(t, "ok")
    /\ UNCHANGED <<accounts, changes, req>>

-----------------------------------------------------------------------------
(* Dispatcher and handlers. *)

\* Mutant: register_handler with required role STUDENT for all.
PermittedAlways(t, r) == TRUE

\* Dispatcher::dispatch: session.role < required is refused.
Permitted(t, r) == r.op \in AdminOps => session[t].role = "ADMIN"

\* Mutant: handle_admin_delete without its check.
RefusedNever(t, r) == FALSE

\* handle_admin_delete: an administrator does not delete itself.
Refused(t, r) == r.op = "delete" /\ r.name = session[t].name

FirstLabel(op) ==
    CASE op = "login"  -> "fetch"
      [] op = "create" -> "exists"
      [] op = "update" -> "findOld"
      [] op = "delete" -> "remove"
      [] op = "list"   -> "list"
      [] op = "logout" -> "ok"

Receive(t) ==
    /\ pc[t] = "idle"
    /\ \E r \in Requests :
          /\ req' = [req EXCEPT ![t] = r]
          /\ IF Permitted(t, r) /\ ~Refused(t, r)
             THEN Goto(t, FirstLabel(r.op))
             ELSE Goto(t, "error")
          /\ session' = IF r.op = "logout"
                        THEN [session EXCEPT ![t] = Anonymous]
                        ELSE session
    /\ UNCHANGED <<accounts, changes>>

\* Mutant: a password of the time before hashing is not compared.
FetchComparesHashes(t) ==
    /\ pc[t] = "fetch"
    /\ LET n == req[t].name
       IN  \/ /\ Exists(n) /\ IsEncoded(accounts[n]) /\ Opens(req[t].pass, accounts[n])
              /\ Become(t, Admin(n))
           \/ Exists(n) /\ ~IsEncoded(accounts[n]) /\ Continue(t, "upgrade")
           \/ Continue(t, "error")

\* handle_login, verify_login: SELECT and comparison.
Fetch(t) ==
    /\ pc[t] = "fetch"
    /\ LET n == req[t].name
           opened == Exists(n) /\ Opens(req[t].pass, accounts[n])
       IN  \/ opened /\ IsEncoded(accounts[n]) /\ Become(t, Admin(n))
           \/ opened /\ ~IsEncoded(accounts[n]) /\ Continue(t, "upgrade")
           \/ ~opened /\ Continue(t, "error")
           \/ MayFail /\ Continue(t, "error")

\* verify_login, write_password: a password of the time before hashing is
\* replaced by its hash; whether that works is ignored.
Upgrade(t) ==
    /\ pc[t] = "upgrade"
    /\ LET n == req[t].name
       IN  \/ Exists(n)  /\ changes' = 1
              /\ accounts' = [accounts EXCEPT ![n] = Encode(req[t].pass)]
           \/ ~Exists(n) /\ changes' = 0 /\ UNCHANGED accounts
           \/ MayFail /\ changes' \in {0, changes} /\ UNCHANGED accounts
    /\ session' = [session EXCEPT ![t] = Admin(req[t].name)]
    /\ Goto(t, "ok")
    /\ UNCHANGED req

\* Mutant: the check for an existing account is gone.
CreateExistsIgnored(t) == pc[t] = "exists" /\ Continue(t, "upsert")

\* handle_admin_create: exists(), whose failure reads as "no".
CreateExists(t) ==
    /\ pc[t] = "exists"
    /\ \/ Exists(req[t].name) /\ Continue(t, "error")
       \/ (~Exists(req[t].name) \/ MayFail) /\ Continue(t, "upsert")

\* Mutant: an empty new password is written like any other.
AfterRenameAlways(t) == "upsert"

\* An empty new password is not written.
AfterRename(t) == IF req[t].pass = None THEN "sync" ELSE "upsert"

\* handle_admin_update: exists(old).
UpdateFindOld(t) ==
    /\ pc[t] = "findOld"
    /\ \/ /\ Exists(req[t].name)
          /\ Continue(t, IF req[t].name # req[t].new THEN "renameOld"
                         ELSE AfterRename(t))
       \/ (~Exists(req[t].name) \/ MayFail) /\ Continue(t, "error")

\* rename: exists(old) once more, then exists(new).
RenameFindOld(t) ==
    /\ pc[t] = "renameOld"
    /\ \/ Exists(req[t].name) /\ Continue(t, "renameNew")
       \/ (~Exists(req[t].name) \/ MayFail) /\ Continue(t, "error")

RenameFindNew(t) ==
    /\ pc[t] = "renameNew"
    /\ \/ Exists(req[t].new) /\ Continue(t, "error")
       \/ (~Exists(req[t].new) \/ MayFail) /\ Continue(t, "rename")

Moved(old, new) == [accounts EXCEPT ![new] = accounts[old], ![old] = None]

\* Mutant: UPDATE OR REPLACE.
RenameReplaces(t) ==
    /\ pc[t] = "rename"
    /\ LET old == req[t].name
       IN  IF Exists(old)
           THEN Write(t, Moved(old, req[t].new), 1, AfterRename(t))
           ELSE Write(t, accounts, 0, AfterRename(t))

\* rename: UPDATE of the primary key.  No row of the old name any more is no
\* error, a row of the new name by now is.
Rename(t) ==
    /\ pc[t] = "rename"
    /\ LET old == req[t].name
           new == req[t].new
       IN  \/ Exists(old) /\ ~Exists(new) /\ Write(t, Moved(old, new), 1, AfterRename(t))
           \/ ~Exists(old) /\ Write(t, accounts, 0, AfterRename(t))
           \/ ((Exists(old) /\ Exists(new)) \/ MayFail) /\ WriteFails(t, "error")

\* insert_or_replace, for a new account and for a new password.
Upsert(t) ==
    /\ pc[t] = "upsert"
    /\ LET create == req[t].op = "create"
           n == IF create THEN req[t].name ELSE req[t].new
       IN  \/ Write(t, [accounts EXCEPT ![n] = Encode(req[t].pass)], 1,
                    IF create THEN "ok" ELSE "sync")
           \/ MayFail /\ WriteFails(t, "error")

\* Mutant: handle_admin_update leaves the session alone.
SyncForgotten(t) == pc[t] = "sync" /\ Continue(t, "ok")

\* handle_admin_update: an administrator that renamed itself has a new name.
Sync(t) ==
    /\ pc[t] = "sync"
    /\ session' = IF session[t].name = req[t].name
                  THEN [session EXCEPT ![t].name = req[t].new]
                  ELSE session
    /\ Goto(t, "ok")
    /\ UNCHANGED <<accounts, changes, req>>

\* remove: the DELETE.
Remove(t) ==
    /\ pc[t] = "remove"
    /\ LET n == req[t].name
       IN  \/ Write(t, [accounts EXCEPT ![n] = None],
                    IF Exists(n) THEN 1 ELSE 0, "changes")
           \/ MayFail /\ WriteFails(t, "error")

\* Mutant: the number of deleted rows is not looked at.
ChangesIgnored(t) == pc[t] = "changes" /\ Continue(t, "ok")

\* remove: sqlite3_changes, a call of its own on the shared connection.
ReadChanges(t) ==
    /\ pc[t] = "changes"
    /\ Continue(t, IF changes = 0 THEN "error" ELSE "ok")

\* handle_admin_list: what it returns is left out, a failure is not seen.
List(t) == pc[t] = "list" /\ Continue(t, "ok")

\* The answer is sent.
Reply(t) ==
    /\ pc[t] \in {"ok", "error"}
    /\ Goto(t, "idle")
    /\ req' = [req EXCEPT ![t] = None]
    /\ UNCHANGED <<accounts, changes, session>>

\* handle_client ends and its session with it; a new client has a new one.
Disconnect(t) ==
    /\ pc[t] = "idle"
    /\ session' = [session EXCEPT ![t] = Anonymous]
    /\ UNCHANGED <<accounts, changes, pc, req>>

-----------------------------------------------------------------------------
(* The process. *)

\* main: unless it can log in with the default password, the default account
\* is written, whatever its password is.  The login upgrades a plain one.
Injected(table) ==
    LET st == table[DefaultName]
    IN  IF st # None /\ IsEncoded(st) /\ Opens(DefaultPassword, st)
        THEN table
        ELSE [table EXCEPT ![DefaultName] = Encode(DefaultPassword)]

\* The process ends, anywhere, and is started again.
Restart ==
    /\ \/ accounts' = Injected(accounts)
       \/ MayFail /\ UNCHANGED accounts
    /\ changes' \in {0, 1}
    /\ session' = [t \in Sessions |-> Anonymous]
    /\ pc'      = [t \in Sessions |-> "idle"]
    /\ req'     = [t \in Sessions |-> None]

\* A table of the time before hashing, and the first start upon it.
Init ==
    /\ \E old \in [Names -> {None} \cup [form : {"plain"}, word : Passwords \ HashLike]] :
          accounts = Injected(old)
    /\ changes = 0
    /\ session = [t \in Sessions |-> Anonymous]
    /\ pc      = [t \in Sessions |-> "idle"]
    /\ req     = [t \in Sessions |-> None]

Serve(t) == \/ Fetch(t) \/ Upgrade(t) \/ CreateExists(t) \/ UpdateFindOld(t)
            \/ RenameFindOld(t) \/ RenameFindNew(t) \/ Rename(t) \/ Upsert(t)
            \/ Sync(t) \/ Remove(t) \/ ReadChanges(t) \/ List(t) \/ Reply(t)

Next == (\E t \in Sessions : Receive(t) \/ Serve(t) \/ Disconnect(t)) \/ Restart

Spec == Init /\ [][Next]_vars

-----------------------------------------------------------------------------
(* Properties. *)

TypeOK ==
    /\ accounts \in [Names -> Stored \cup {None}]
    /\ changes  \in {0, 1}
    /\ session  \in [Sessions -> [role : {"STUDENT", "ADMIN"}, name : Names \cup {None}]]
    /\ pc       \in [Sessions -> Labels]
    /\ req      \in [Sessions -> Requests \cup {None}]

Existing == {n \in Names : Exists(n)}

\* The password each account opens with, as far as it has one.
Words == [n \in Names |-> IF Exists(n) THEN accounts[n].word ELSE None]

\* Accounts come and go only by the hand of a session that has logged in (or
\* by a restart): no path through the dispatcher or the login lets another
\* session create, rename or delete one.
OnlyAdminsChangeAccounts ==
    [][Existing' # Existing =>
           \/ \E t \in Sessions : pc'[t] # pc[t] /\ session[t].role = "ADMIN"
           \/ Restart]_vars

PlainWords ==
    {p \in Passwords : \E n \in Names : accounts[n] = [form |-> "plain", word |-> p]}

\* No step writes a password as it was typed, except one that already looks
\* like a hash: what is in plain text was there before.
NoNewPlaintext == [][PlainWords' \subseteq PlainWords \cup HashLike]_vars

\* An account goes away only by a DELETE, or lives on, with its password, under
\* a name that nobody had: a rename never takes the place of an account that
\* another session creates after the check for it.
NoAccountLost ==
    [][\A n \in Existing \ Existing' :
           \/ \E t \in Sessions : pc[t] = "remove" /\ pc'[t] = "changes"
           \/ \E m \in Existing' \ Existing : accounts'[m] = accounts[n]]_vars

\* An administrator that serves nothing has its account: it cannot delete its
\* own, and follows its renames.  For a single session, with no fault.
OwnAccountStays ==
    \A t \in Sessions :
        pc[t] = "idle" /\ session[t].role = "ADMIN" => session[t].name \in Existing

\* A login changes nobody's password: the upgrade of one of the time before
\* hashing changes its form and nothing else.  For a single session: the one of
\* another session may have changed it since it was compared.
UpgradeKeepsPassword ==
    [][(\E t \in Sessions : Upgrade(t)) => Words' = Words]_vars

\* CMD_ADMIN_CREATE makes a new account and overwrites none.
CreateNeverOverwrites ==
    [][\A t \in Sessions :
           Upsert(t) /\ req[t].op = "create" =>
               \/ req[t].name \notin Existing
               \/ UNCHANGED accounts]_vars

\* The default administrator is injected at the first start: a later start,
\* when there are accounts, changes no password.
FirstStartOnly == [][Restart /\ Existing # {} => Words' = Words]_vars

=============================================================================
