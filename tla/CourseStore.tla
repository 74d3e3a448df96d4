----------------------------- MODULE CourseStore -----------------------------
(***************************************************************************)
(* What driver/include/database.h promises of CourseRepository: a request  *)
(* is carried out at once and entirely, or it is refused and changes       *)
(* nothing; it answers "ok" only if it was carried out; and what was       *)
(* carried out survives a restart.  Who is connected, statements and       *)
(* transactions do not exist here.                                         *)
(***************************************************************************)
CONSTANTS Threads, CourseKeys, Slots, None, Requests

VARIABLES db, req, stage

vars == <<db, req, stage>>

Absent == [s \in Slots |-> None]

Exists(r)    == db.courses[r.key] # None
Scheduled(r) == db.schedules[r.key][r.slot] # None

\* The tables after request r.
Effect(r) ==
    CASE r.op = "add" ->
            [db EXCEPT !.courses[r.key] = r.detail,
                       !.schedules[r.key][r.slot] = r.room]
      [] r.op = "update" /\ Scheduled(r) ->
            [db EXCEPT !.courses[r.key] = r.detail,
                       !.schedules[r.key][r.slot] = r.room]
      [] r.op = "update" /\ ~Scheduled(r) /\ Exists(r) ->
            [db EXCEPT !.courses[r.key] = r.detail]
      [] r.op = "delete" ->
            [db EXCEPT !.courses[r.key] = None, !.schedules[r.key] = Absent]
      [] OTHER -> db

Ask(t) ==
    /\ stage[t] = "idle"
    /\ stage' = [stage EXCEPT ![t] = "asked"]
    /\ \E r \in Requests : req' = [req EXCEPT ![t] = r]
    /\ UNCHANGED db

CarryOut(t) ==
    /\ stage[t] = "asked"
    /\ stage' = [stage EXCEPT ![t] = "ok"]
    /\ db' = Effect(req[t])
    /\ UNCHANGED req

Refuse(t) ==
    /\ stage[t] = "asked"
    /\ stage' = [stage EXCEPT ![t] = "error"]
    /\ UNCHANGED <<db, req>>

Answer(t) ==
    /\ stage[t] \in {"ok", "error"}
    /\ stage' = [stage EXCEPT ![t] = "idle"]
    /\ req' = [req EXCEPT ![t] = None]
    /\ UNCHANGED db

Restart ==
    /\ stage' = [t \in Threads |-> "idle"]
    /\ req' = [t \in Threads |-> None]
    /\ UNCHANGED db

Init ==
    /\ db = [courses |-> [c \in CourseKeys |-> None],
             schedules |-> [c \in CourseKeys |-> Absent]]
    /\ stage = [t \in Threads |-> "idle"]
    /\ req = [t \in Threads |-> None]

Next ==
    \/ \E t \in Threads : Ask(t) \/ CarryOut(t) \/ Refuse(t) \/ Answer(t)
    \/ Restart

Spec == Init /\ [][Next]_vars

=============================================================================
