------------------------- MODULE CourseLedger_proofs -------------------------
(***************************************************************************)
(* Theorems about CourseLedger: what administrators were told of a course  *)
(* agrees with the tables.                                                 *)
(***************************************************************************)
EXTENDS CourseLedger, CourseRepository_proofs

-----------------------------------------------------------------------------
(* The ledger only observes: what is proved of CourseRepository carries over. *)

\* A step with its history is a step.
LEMMA LedgerStep == [LedgerNext]_ledgerVars => [Next]_vars
  BY DEF LedgerNext, ledgerVars, Next

\* What is proved of CourseRepository holds of CourseLedger.
LEMMA LedgerIsRepository == LedgerSpec => Spec
<1>1. LedgerInit => Init
  BY DEF LedgerInit
<1> QED
  BY <1>1, LedgerStep, PTL DEF LedgerSpec, Spec

BeliefType == belief \in [CourseKeys -> Beliefs] /\ written \subseteq CourseKeys

\* The history keeps its type.
LEMMA BeliefTypeInvariant == LedgerSpec => []BeliefType
<1>1. LedgerInit => BeliefType
  BY DEF LedgerInit, BeliefType, Beliefs
<1>2. BeliefType /\ [LedgerNext]_ledgerVars => BeliefType'
  BY DEF BeliefType, Beliefs, LedgerNext, ledgerVars, Observe
<1> QED
  BY <1>1, <1>2, PTL DEF LedgerSpec

\* What makes a belief begin.
LEMMA BeliefBegins ==
    ASSUME BeliefType, NEW t \in Threads, NEW c \in CourseKeys, Observe(t)
    PROVE  /\ belief'[c] = "present" =>
                 /\ ~Removed(t, c)
                 /\ belief[c] = "present" \/ (Added(t, c) /\ c \in written)
           /\ belief'[c] = "absent" =>
                 \/ belief[c] = "absent" /\ ~(Added(t, c) /\ c \in written)
                 \/ Answered(t, c) /\ belief[c] = "unknown"
           /\ c \in written' <=> Written(t, c) \/ (c \in written /\ ~Removed(t, c))
  BY DEF BeliefType, Observe, Written, Added, Removed, Answered, Moves

-----------------------------------------------------------------------------
(* A course that was added stays. *)

Held(db, c) == db.courses[c] # None /\ \E s \in Slots : db.schedules[c][s] # None

\* No statement but the DELETE that names a course takes it or its last
\* schedule away, and the two of an add put both there.
LEMMA StatementHolds ==
    ASSUME NEW db \in Tables, NEW c \in CourseKeys
    PROVE  /\ \A r \in Writes :
                 Held(db, c) => Held(PutCourse(db, r), c) /\ Held(PutSchedule(db, r), c)
           /\ \A r \in Writes :
                 r.op = "add" /\ r.key = c /\ ForeignKeyHolds(db, r)
                    => Held(PutSchedule(db, r), c)
           /\ \A d \in CourseKeys \ {c} : Held(db, c) => Held(DropCourse(db, d), c)
<1> USE DEF Tables, Held
<1>1. ASSUME NEW r \in Writes, Held(db, c) PROVE Held(PutCourse(db, r), c)
  BY <1>1, NoneAssumption DEF PutCourse, Writes
<1>2. ASSUME NEW r \in Writes
      PROVE  /\ PutSchedule(db, r).courses = db.courses
             /\ \A s \in Slots : \/ PutSchedule(db, r).schedules[c][s] = db.schedules[c][s]
                                 \/ PutSchedule(db, r).schedules[c][s] # None
  BY <1>2, NoneAssumption DEF PutSchedule, Writes
<1>3. ASSUME NEW r \in Writes, Held(db, c) PROVE Held(PutSchedule(db, r), c)
  BY <1>2, <1>3
<1>4. ASSUME NEW r \in Writes, r.op = "add", r.key = c, ForeignKeyHolds(db, r)
      PROVE  Held(PutSchedule(db, r), c)
  BY <1>4, NoneAssumption DEF PutSchedule, ForeignKeyHolds, Writes
<1>5. ASSUME NEW d \in CourseKeys \ {c}, Held(db, c) PROVE Held(DropCourse(db, d), c)
  BY <1>5 DEF DropCourse
<1> QED
  BY <1>1, <1>3, <1>4, <1>5

\* A course believed present is in the tables of the connection and on disk;
\* one whose rows a thread is about to commit is in those of the connection.
AddedInv ==
    \A c \in CourseKeys :
        /\ belief[c] = "present" => Held(work, c) /\ Held(disk, c)
        /\ \A t \in Threads :
              pc[t] = "commit" /\ Serves(t, "add", c) /\ c \in written
                  => Held(work, c)

\* A course that was added, or is about to be, is held until a DELETE names it.
LEMMA AddedStep ==
    ASSUME Undisturbed
    PROVE  TypeInv /\ BeliefType /\ Owned /\ AddedInv /\ [LedgerNext]_ledgerVars
              => AddedInv'
<1> SUFFICES ASSUME TypeInv, BeliefType, Owned, AddedInv, [LedgerNext]_ledgerVars
             PROVE  AddedInv'
  OBVIOUS
<1> USE DEF TypeInv, TypeOK, InHandler, Inside, Goto
\* A step that writes nothing, or takes back what its own thread wrote.
<1>1. ASSUME NEW t \in Threads, Observe(t), pc[t] # "commit" \/ pc'[t] # "ok",
             pc'[t] # "commit", \A c \in CourseKeys : ~Written(t, c),
             \A u \in Threads \ {t} : pc'[u] = pc[u] /\ req'[u] = req[u],
             disk' = disk,
             \/ UNCHANGED work
             \/ work' = disk /\ \A u \in Threads \ {t} : pc[u] # "commit"
      PROVE  AddedInv'
  <2> SUFFICES ASSUME NEW c \in CourseKeys
               PROVE  /\ belief'[c] = "present" => Held(work', c) /\ Held(disk', c)
                      /\ \A u \in Threads :
                            /\ pc'[u] = "commit" /\ Serves(u, "add", c)'
                            /\ c \in written'
                            => Held(work', c)
    BY DEF AddedInv, Held, Serves
  <2>1. belief'[c] = "present" => belief[c] = "present"
    BY <1>1, BeliefBegins DEF Added, Moves
  <2>2. c \in written' => c \in written
    BY <1>1, BeliefBegins
  <2> QED
    BY <1>1, <2>1, <2>2 DEF AddedInv, Serves
<1>2. ASSUME NEW t \in Threads, NEW label, Faulted(t, label), label # "commit",
             pc[t] # "commit" \/ label # "ok", UNCHANGED req, Observe(t)
      PROVE  AddedInv'
  <2>1. \A c \in CourseKeys : ~Written(t, c)
    BY <1>2, FaultedOwn DEF Written, Moves
  <2> QED
    BY <1>1, <1>2, <2>1, FaultedOwn
<1>3. ASSUME NEW t \in Threads, Observe(t),
             Receive(t) \/ Begin(t) \/ SelectStep(t) \/ SelectEnd(t) \/ Reply(t)
      PROVE  AddedInv'
  <2>1. pc'[t] # "commit" /\ pc[t] # "commit" /\ pc[t] # "schedule"
    BY <1>3, FaultedOwn DEF Receive, Begin, StatementFault, SelectStep, SelectEnd,
                            Reply
  <2>2. \A c \in CourseKeys : ~Written(t, c)
    BY <2>1 DEF Written, Moves
  <2>3. \A u \in Threads \ {t} : pc'[u] = pc[u] /\ req'[u] = req[u]
    BY <1>3, FaultedOwn DEF Receive, Begin, StatementFault, SelectStep, SelectEnd,
                            Reply
  <2>4. UNCHANGED <<work, disk>> \/ (Faulted(t, "ok") /\ UNCHANGED req)
    BY <1>3 DEF Receive, Begin, StatementFault, SelectStep, SelectEnd, Reply,
                connection
  <2> QED
    BY <1>1, <1>2, <1>3, <2>1, <2>2, <2>3, <2>4
<1>4. ASSUME NEW t \in Threads, Observe(t), WriteCourse(t) PROVE AddedInv'
  <2>1. CASE Store(PutCourse(work, req[t])) /\ Goto(t, "schedule")
    <3>1. disk' = disk /\ work' = PutCourse(work, req[t])
      BY <1>4, <2>1 DEF WriteCourse, Owned, Writing, Store
    <3>2. \A c \in CourseKeys : Held(work, c) => Held(work', c)
      BY <1>4, <3>1, StatementHolds DEF WriteCourse
    <3>3. \A u \in Threads : pc'[u] # "commit"
      BY <1>4, <2>1 DEF WriteCourse, Owned, Writing
    <3>4. \A c \in CourseKeys : belief'[c] = "present" => belief[c] = "present"
      BY <1>4, <2>1, BeliefBegins DEF WriteCourse, Added, Moves
    <3> QED
      BY <3>1, <3>2, <3>3, <3>4 DEF AddedInv, Held, Serves
  <2> QED
    BY <1>2, <1>4, <2>1 DEF WriteCourse, cursors
<1>5. ASSUME NEW t \in Threads, Observe(t), WriteSchedule(t) PROVE AddedInv'
  <2>1. CASE /\ ForeignKeyHolds(work, req[t]) /\ Store(PutSchedule(work, req[t]))
             /\ Goto(t, "commit")
    <3>1. disk' = disk /\ work' = PutSchedule(work, req[t])
      BY <1>5, <2>1 DEF WriteSchedule, Owned, Writing, Store
    <3>2. \A c \in CourseKeys :
             \/ Held(work, c)
             \/ req[t].op = "add" /\ req[t].key = c
             => Held(work', c)
      BY <1>5, <2>1, <3>1, StatementHolds DEF WriteSchedule
    <3>3. \A u \in Threads : pc'[u] = "commit" => u = t
      BY <1>5, <2>1 DEF WriteSchedule, Owned, Writing
    <3>4. \A c \in CourseKeys : belief'[c] = "present" => belief[c] = "present"
      BY <1>5, <2>1, BeliefBegins DEF WriteSchedule, Added, Moves
    <3>5. req' = req
      BY <1>5 DEF WriteSchedule
    <3> QED
      BY <3>1, <3>2, <3>3, <3>4, <3>5 DEF AddedInv, Held, Serves
  <2>2. CASE Goto(t, "rollback") /\ UNCHANGED connection
    BY <1>1, <1>5, <2>2 DEF WriteSchedule, Written, Moves, connection
  <2> QED
    BY <1>2, <1>5, <2>1, <2>2 DEF WriteSchedule
<1>6. ASSUME NEW t \in Threads, Observe(t), Commit(t) PROVE AddedInv'
  <2>1. CASE disk' = work /\ work' = work /\ Goto(t, "ok")
    <3>1. \A u \in Threads : pc'[u] # "commit"
      BY <1>6, <2>1 DEF Commit, Owned, Writing
    <3>2. ASSUME NEW c \in CourseKeys, belief'[c] = "present" PROVE Held(work, c)
      BY <1>6, <3>2, BeliefBegins DEF AddedInv, Added, Moves
    <3> QED
      BY <2>1, <3>1, <3>2 DEF AddedInv, Held, Serves
  <2>2. CASE Goto(t, "rollback") /\ UNCHANGED connection
    BY <1>1, <1>6, <2>2 DEF Commit, Written, Moves, connection
  <2> QED
    BY <1>2, <1>6, <2>1, <2>2 DEF Commit
<1>7. ASSUME NEW t \in Threads, Observe(t), Rollback(t) PROVE AddedInv'
  <2>1. \A u \in Threads \ {t} : pc[u] # "commit"
    BY <1>7 DEF Rollback, Owned, Writing
  <2> QED
    BY <1>1, <1>7, <2>1 DEF Rollback, Discard, Written, Moves
<1>8. ASSUME NEW t \in Threads, Observe(t), Delete(t) PROVE AddedInv'
  <2>1. CASE Store(DropCourse(work, req[t].key)) /\ Goto(t, "ok")
    <3>1. /\ req[t].key \in CourseKeys /\ req[t] # None /\ req[t].op = "delete"
          /\ pc[t] = "delete"
      BY <1>8, NoneAssumption DEF Delete, Deletes
    <3>2. work' = DropCourse(work, req[t].key) /\ disk' \in {disk, work'}
      BY <2>1 DEF Store
    <3>3. \A c \in CourseKeys :
             /\ belief'[c] = "present" => c # req[t].key /\ belief[c] = "present"
             /\ c \in written' => c # req[t].key /\ c \in written
      BY <1>8, <2>1, <3>1, BeliefBegins
         DEF Written, Removed, Added, Serves, Moves
    <3>4. \A c \in CourseKeys : c # req[t].key /\ Held(work, c) => Held(work', c)
      BY <3>1, <3>2, StatementHolds
    <3>5. \A u \in Threads : pc'[u] = "commit" => pc[u] = "commit" /\ req'[u] = req[u]
      BY <1>8, <2>1 DEF Delete
    <3> QED
      BY <3>2, <3>3, <3>4, <3>5 DEF AddedInv, Held, Serves
  <2> QED
    BY <1>2, <1>8, <2>1 DEF Delete
<1>9. CASE Crash /\ UNCHANGED <<belief, written>>
  BY <1>9 DEF Crash, Discard, AddedInv, Held, Serves
<1>10. CASE UNCHANGED ledgerVars
  BY <1>10 DEF ledgerVars, vars, AddedInv, Held, Serves
<1> QED
  BY <1>3, <1>4, <1>5, <1>6, <1>7, <1>8, <1>9, <1>10 DEF LedgerNext, Serve

\* Whatever any number of threads do with the shared connection, a course whose
\* add was committed is there, with a schedule, until a DELETE removes it: no
\* ROLLBACK and no crash takes it away.  With one thread this also holds when
\* SQLite rolls transactions back by itself.
THEOREM AddedCoursesStay ==
    ASSUME Undisturbed
    PROVE  LedgerSpec => []AddedStays
<1>1. LedgerInit => AddedInv
  BY DEF LedgerInit, Init, AddedInv
<1>2. TypeInv /\ BeliefType /\ Owned /\ AddedInv /\ [LedgerNext]_ledgerVars
         => AddedInv'
  BY AddedStep
<1>3. AddedInv => AddedStays
  BY DEF AddedInv, AddedStays, Held
<1> QED
  BY <1>1, <1>2, <1>3, LedgerIsRepository, TypeInvariant, OwnedInvariant,
     BeliefTypeInvariant, PTL DEF LedgerSpec

-----------------------------------------------------------------------------
(* A course whose delete was answered stays away, if no other thread can put *)
(* the DELETE into a transaction that it rolls back.                         *)

\* What the thread commits for a course believed absent is no such course.
DeletedInv ==
    \A c \in CourseKeys :
        /\ belief[c] = "absent" => disk.courses[c] = None
        /\ \A t \in Threads :
              /\ pc[t] = "ok" /\ Serves(t, "delete", c) /\ belief[c] = "unknown"
                    => disk.courses[c] = None
              /\ pc[t] = "commit" /\ Serves(t, "add", c) => c \in written

\* A course that was deleted is away until a write names it.
LEMMA DeletedStep ==
    ASSUME Alone
    PROVE  /\ TypeInv /\ BeliefType /\ Owned /\ NoLeakedTransaction /\ Settled
           /\ Progress /\ DeletedInv /\ [LedgerNext]_ledgerVars
           => DeletedInv'
<1> SUFFICES ASSUME TypeInv, BeliefType, Owned, NoLeakedTransaction, Settled,
                    Progress, DeletedInv, [LedgerNext]_ledgerVars
             PROVE  DeletedInv'
  OBVIOUS
<1>0. Undisturbed
  BY DEF Undisturbed
<1> USE DEF TypeInv, TypeOK, InHandler, Inside, Goto
\* A step that commits nothing.
<1>1. ASSUME NEW t \in Threads, Observe(t), disk' = disk,
             pc'[t] = "ok" => req[t].op # "delete" /\ req' = req,
             pc'[t] = "commit" => \A c \in CourseKeys : Serves(t, "add", c)' => Written(t, c)
      PROVE  DeletedInv'
  <2> SUFFICES ASSUME NEW c \in CourseKeys
               PROVE  /\ belief'[c] = "absent" => disk'.courses[c] = None
                      /\ pc'[t] = "ok" /\ Serves(t, "delete", c)' /\ belief'[c] = "unknown"
                            => disk'.courses[c] = None
                      /\ pc'[t] = "commit" /\ Serves(t, "add", c)'
                            => c \in written'
    BY DEF DeletedInv, Alone, Serves
  <2>1. belief'[c] = "absent" => disk.courses[c] = None
    BY <1>1, BeliefBegins DEF DeletedInv, Answered, Moves
  <2> QED
    BY <1>1, <2>1, BeliefBegins DEF Serves
<1>2. ASSUME NEW t \in Threads, NEW label, Faulted(t, label), label # "commit",
             label = "ok" => req[t].op # "delete", UNCHANGED req, Observe(t)
      PROVE  DeletedInv'
  BY <1>0, <1>1, <1>2, FaultedOwn
<1>3. ASSUME NEW t \in Threads, Observe(t),
             Receive(t) \/ Begin(t) \/ SelectStep(t) \/ Rollback(t) \/ Reply(t)
      PROVE  DeletedInv'
  <2>1. pc'[t] \notin {"ok", "commit"}
    BY <1>3 DEF Receive, Begin, StatementFault, SelectStep, Rollback, Reply
  <2>2. disk' = disk
    BY <1>3 DEF Receive, Begin, StatementFault, SelectStep, Rollback, Reply,
                Discard, connection
  <2> QED
    BY <1>1, <1>3, <2>1, <2>2
<1>4. ASSUME NEW t \in Threads, Observe(t), SelectEnd(t) PROVE DeletedInv'
  <2>1. req[t].op # "delete" /\ req' = req
    BY <1>4 DEF SelectEnd, Queries
  <2>2. disk' = disk /\ pc'[t] = "ok"
    BY <1>0, <1>4, FaultedOwn DEF SelectEnd, connection
  <2> QED
    BY <1>1, <1>4, <2>1, <2>2
<1>5. ASSUME NEW t \in Threads, Observe(t), WriteCourse(t) PROVE DeletedInv'
  <2>1. CASE Store(PutCourse(work, req[t])) /\ Goto(t, "schedule")
    BY <1>1, <1>5, <2>1 DEF WriteCourse, Owned, Writing, Store
  <2> QED
    BY <1>2, <1>5, <2>1 DEF WriteCourse, cursors
<1>6. ASSUME NEW t \in Threads, Observe(t), WriteSchedule(t) PROVE DeletedInv'
  <2>1. CASE Store(PutSchedule(work, req[t])) /\ Goto(t, "commit")
    <3>1. disk' = disk /\ req' = req
      BY <1>6, <2>1 DEF WriteSchedule, Owned, Writing, Store
    <3>2. \A c \in CourseKeys : Serves(t, "add", c)' => Written(t, c)
      BY <1>6, <2>1, <3>1 DEF WriteSchedule, Written, Serves, Moves
    <3> QED
      BY <1>1, <1>6, <2>1, <3>1, <3>2
  <2>2. CASE Goto(t, "rollback") /\ UNCHANGED connection
    BY <1>1, <1>6, <2>2 DEF WriteSchedule, connection
  <2> QED
    BY <1>2, <1>6, <2>1, <2>2 DEF WriteSchedule
<1>7. ASSUME NEW t \in Threads, Observe(t), Commit(t) PROVE DeletedInv'
  <2>1. CASE disk' = work /\ Goto(t, "ok")
    <3>1. pc[t] = "commit" /\ req[t] \in Writes /\ req[t] # None /\ req' = req
      BY <1>7, NoneAssumption DEF Commit
    <3>2. work = PutSchedule(PutCourse(disk, req[t]), req[t])
      BY <3>1 DEF Progress
    <3>3. ASSUME NEW c \in CourseKeys, disk.courses[c] = None,
                 req[t].op = "add" => req[t].key # c
          PROVE  work.courses[c] = None
      BY <3>1, <3>2, <3>3 DEF PutSchedule, PutCourse, Tables, Writes
    <3>4. ASSUME NEW c \in CourseKeys, belief'[c] = "absent"
          PROVE  work.courses[c] = None
      <4>1. belief[c] = "absent"
        BY <1>7, <3>1, <3>4, BeliefBegins DEF Answered, Moves
      <4>2. req[t].op = "add" => req[t].key # c
        BY <1>7, <2>1, <3>1, <3>4, BeliefBegins
           DEF DeletedInv, Serves, Added, Answered, Moves
      <4> QED
        BY <3>3, <4>1, <4>2 DEF DeletedInv
    <3>5. \A u \in Threads : u = t
      BY DEF Alone
    <3> QED
      BY <2>1, <3>1, <3>4, <3>5 DEF DeletedInv, Serves, Writes
  <2>2. CASE Goto(t, "rollback") /\ UNCHANGED connection
    BY <1>1, <1>7, <2>2 DEF Commit, connection
  <2> QED
    BY <1>2, <1>7, <2>1, <2>2 DEF Commit
<1>8. ASSUME NEW t \in Threads, Observe(t), Delete(t) PROVE DeletedInv'
  <2>1. CASE Store(DropCourse(work, req[t].key)) /\ Goto(t, "ok")
    <3>1. pc[t] = "delete" /\ req[t] \in Deletes /\ req[t] # None /\ req' = req
      BY <1>8, NoneAssumption DEF Delete
    <3>2. \A u \in Threads : u = t
      BY DEF Alone
    <3>3. ~inTx
      BY <3>1, <3>2 DEF NoLeakedTransaction
    <3>4. disk' = DropCourse(disk, req[t].key)
      BY <2>1, <3>3 DEF Store, Settled
    <3>5. ASSUME NEW c \in CourseKeys
          PROVE  /\ c = req[t].key \/ disk.courses[c] = None => disk'.courses[c] = None
                 /\ belief'[c] = "absent" => belief[c] = "absent"
                 /\ Serves(t, "delete", c)' => c = req[t].key
      BY <1>8, <2>1, <3>1, <3>4, BeliefBegins
         DEF DropCourse, Deletes, Tables, Serves, Answered, Moves
    <3>6. pc'[t] = "ok"
      BY <2>1
    <3> QED
      BY <3>2, <3>5, <3>6 DEF DeletedInv, Serves
  <2> QED
    BY <1>2, <1>8, <2>1 DEF Delete
<1>9. CASE Crash /\ UNCHANGED <<belief, written>>
  BY <1>9 DEF Crash, Discard, DeletedInv
<1>10. CASE UNCHANGED ledgerVars
  BY <1>10 DEF ledgerVars, vars, DeletedInv, Serves
<1> QED
  BY <1>3, <1>4, <1>5, <1>6, <1>7, <1>8, <1>9, <1>10 DEF LedgerNext, Serve

\* With one thread, a course whose delete was answered OK stays away until it
\* is added again, whichever statements fail and whichever transactions SQLite
\* drops.
THEOREM DeletedCoursesStayAway ==
    ASSUME Alone
    PROVE  LedgerSpec => []DeletedStays
<1>0. Undisturbed /\ Unmixed
  BY DEF Undisturbed, Unmixed
<1>1. LedgerInit => DeletedInv
  BY DEF LedgerInit, Init, DeletedInv
<1>2. /\ TypeInv /\ BeliefType /\ Owned /\ NoLeakedTransaction /\ Settled
      /\ Progress /\ DeletedInv /\ [LedgerNext]_ledgerVars
      => DeletedInv'
  BY DeletedStep
<1>3. DeletedInv => DeletedStays
  BY DEF DeletedInv, DeletedStays
<1> QED
  BY <1>0, <1>1, <1>2, <1>3, LedgerIsRepository, TypeInvariant, OwnedInvariant,
     NoLeak, SettledInvariant, ProgressInvariant, BeliefTypeInvariant, PTL
     DEF LedgerSpec

=============================================================================
