-------------------------- MODULE MCCircuitBreaker --------------------------
(* Small instances of CircuitBreaker for TLC.                              *)
EXTENDS CircuitBreaker, TLC

\* Callers are interchangeable: used only where no liveness is checked.
Symmetry == Permutations(Callers)
=============================================================================
