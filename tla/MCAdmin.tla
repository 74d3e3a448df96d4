------------------------------- MODULE MCAdmin -------------------------------
(* Instances of AdminAccounts for TLC. *)
EXTENDS AdminAccounts, TLC

AllRequests == Logins \cup Creates \cup Updates \cup Removals \cup Others

\* What looks like a hash is one of the default password.
MCHashOf == [p \in HashLike |-> DefaultPassword]

Symmetric == Permutations(Sessions)

=============================================================================
