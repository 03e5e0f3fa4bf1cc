----------------------------- MODULE MCPipeline -----------------------------
(* Small instances of Pipeline for TLC.  Exceptions are strings in the .cfg: *)
(* "fatal" is in both lists of each layer, so the list that goes first must  *)
(* decide.                                                                   *)
EXTENDS Pipeline, TLC

\* Bound: callers outside the pool share nothing with anyone, so each mode of
\* theirs is tried beside the simplest caller only.
OneOutsidePool ==
    \A c, d \in Callers : ~InPool(c) /\ c # d => mode[d] = "thread"

\* Used only where no liveness is checked.
Symmetry == Permutations(Callers)
=============================================================================
