--------------------------- MODULE MCCacheAnswers ---------------------------
(* Small instances of CacheAnswers for TLC. *)
EXTENDS CacheAnswers, TLC

\* Not of the keys: some are not in use on Redis.
Symmetry == Permutations(Tasks)
=============================================================================
