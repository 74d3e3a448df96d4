------------------------------- MODULE MCServer -------------------------------
(* Instances of Server for TLC. *)
EXTENDS Server, TLC

\* Not for the runs that check liveness.
Symmetric == Permutations(Threads) \cup Permutations(Stoppers) \cup Permutations(Handles)

=============================================================================
