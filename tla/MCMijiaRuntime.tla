--------------------------- MODULE MCMijiaRuntime ---------------------------
(* Instances of MijiaRuntime for TLC. *)
EXTENDS MijiaRuntime, TLC

Interchangeable ==
  Permutations(Users) \cup Permutations(Tokens)
    \cup Permutations(Jobs) \cup Permutations(Tasks)

=============================================================================
