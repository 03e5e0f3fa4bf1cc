-------------------------- MODULE BreakerProtocol --------------------------
(***************************************************************************)
(* What the circuit breaker promises about its state machine, with neither *)
(* window nor callers: HALF_OPEN hands out exactly Permitted probes and     *)
(* leaves only on the verdict of the last of them (module docstring of      *)
(* circuitbreaker.py, and docs/circuitbreaker.md).                          *)
(***************************************************************************)
EXTENDS Naturals

CONSTANT Permitted

VARIABLES phase,     \* the breaker's state
          granted,   \* probes let through in this half-open episode
          verdicts   \* probes of this episode that have completed

protocolVars == <<phase, granted, verdicts>>

Init == phase = "CLOSED" /\ granted = 0 /\ verdicts = 0

Trip ==
    /\ phase = "CLOSED"
    /\ phase' = "OPEN"
    /\ UNCHANGED <<granted, verdicts>>

FirstProbe ==
    /\ phase = "OPEN"
    /\ phase' = "HALF_OPEN"
    /\ granted' = 1
    /\ verdicts' = 0

Grant ==
    /\ phase = "HALF_OPEN"
    /\ granted < Permitted
    /\ granted' = granted + 1
    /\ UNCHANGED <<phase, verdicts>>

Verdict ==
    /\ phase = "HALF_OPEN"
    /\ verdicts < granted
    /\ verdicts + 1 < Permitted
    /\ verdicts' = verdicts + 1
    /\ UNCHANGED <<phase, granted>>

Decide ==
    /\ phase = "HALF_OPEN"
    /\ granted = Permitted
    /\ verdicts = Permitted - 1
    /\ phase' \in {"OPEN", "CLOSED"}
    /\ granted' = 0
    /\ verdicts' = 0

Next == Trip \/ FirstProbe \/ Grant \/ Verdict \/ Decide

Spec == Init /\ [][Next]_protocolVars
=============================================================================
