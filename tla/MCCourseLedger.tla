---------------------------- MODULE MCCourseLedger ----------------------------
(* Instances of CourseLedger for TLC, with the requests of MCCourse. *)
EXTENDS CourseLedger, MCCourse

\* A server that never crashes.
SteadyNext == \E t \in Threads : (Receive(t) \/ Serve(t)) /\ Observe(t)

SteadySpec == LedgerInit /\ [][SteadyNext]_ledgerVars

=============================================================================
