---------------------------- MODULE MCRateLimiter ----------------------------
(* Small instances of RateLimiter for TLC.                                 *)
EXTENDS RateLimiter, TLC

\* Callers are interchangeable: used for safety only.
Symmetry == Permutations(Callers)
=============================================================================
