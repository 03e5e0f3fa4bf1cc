------------------------------- MODULE MCCache -------------------------------
(* Small instances of Cache for TLC. *)
EXTENDS Cache, TLC

\* Used only where no liveness is checked.
Symmetry == Permutations(Threads) \cup Permutations(Tasks) \cup Permutations(Keys)
=============================================================================
