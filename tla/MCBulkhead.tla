----------------------------- MODULE MCBulkhead -----------------------------
(* Small instances of Bulkhead for TLC.                                    *)
EXTENDS Bulkhead, TLC

\* Threads are interchangeable, and tasks are: used for safety only.
Symmetry == Permutations(Threads) \cup Permutations(Tasks)
=============================================================================
