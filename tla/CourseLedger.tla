---------------------------- MODULE CourseLedger ----------------------------
(***************************************************************************)
(* CourseRepository with two history variables: what the answers sent so   *)
(* far entitle the administrators to believe of each course, and which     *)
(* courses were written since they were last deleted.  They observe the    *)
(* repository's steps and constrain none of them.                          *)
(***************************************************************************)
EXTENDS CourseRepository

VARIABLES belief, written

Beliefs == {"unknown", "present", "absent"}

\* Thread t serves a request op for course c.
Serves(t, op, c) == req[t] # None /\ req[t].op = op /\ req[t].key = c

Moves(t, from, to) == pc[t] = from /\ pc'[t] = to

\* t has written both rows of c, and will commit them.
Written(t, c) == Serves(t, "add", c) /\ Moves(t, "schedule", "commit")

\* The COMMIT of t succeeded.
Added(t, c) == Serves(t, "add", c) /\ Moves(t, "commit", "ok")

\* The DELETE of t succeeded, and the OK for it was sent.
Removed(t, c)  == Serves(t, "delete", c) /\ Moves(t, "delete", "ok")
Answered(t, c) == Serves(t, "delete", c) /\ Moves(t, "ok", "idle")

\* A course is believed present when an add of it is committed and nobody
\* deleted it since its rows were written, and absent when the OK of a delete
\* is sent and nobody added it since the DELETE ran.  A request that is refused
\* changes no belief.
Observe(t) ==
    /\ belief' = [c \in CourseKeys |->
           CASE Removed(t, c) -> "unknown"
             [] Added(t, c) /\ c \in written -> "present"
             [] Answered(t, c) /\ belief[c] = "unknown" -> "absent"
             [] OTHER -> belief[c]]
    /\ written' = {c \in CourseKeys : Written(t, c) \/ (c \in written /\ ~Removed(t, c))}

LedgerInit == Init /\ belief = [c \in CourseKeys |-> "unknown"] /\ written = {}

LedgerNext ==
    \/ \E t \in Threads : (Receive(t) \/ Serve(t)) /\ Observe(t)
    \/ Crash /\ UNCHANGED <<belief, written>>

ledgerVars == <<vars, belief, written>>

LedgerSpec == LedgerInit /\ [][LedgerNext]_ledgerVars

-----------------------------------------------------------------------------
(* Properties.  Both speak of the moments no transaction is open, when what *)
(* is on disk is all there is.                                              *)

\* A course whose insert_or_replace returned true is there, with a schedule,
\* until a DELETE removes it: no ROLLBACK of another thread and no crash
\* takes it away.
AddedStays ==
    ~inTx => \A c \in CourseKeys : belief[c] = "present" =>
                 /\ disk.courses[c] # None
                 /\ \E s \in Slots : disk.schedules[c][s] # None

\* A course whose DELETE was answered OK stays away until it is added again.
DeletedStays ==
    ~inTx => \A c \in CourseKeys : belief[c] = "absent" => disk.courses[c] = None

=============================================================================
