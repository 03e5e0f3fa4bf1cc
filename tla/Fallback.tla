------------------------------- MODULE Fallback -------------------------------
(***************************************************************************)
(* Fallback (src/pysilience/fallback.py) around a Retry.  Its action is one *)
(* call that returns or raises an Exception.                               *)
(***************************************************************************)
EXTENDS Retry

CONSTANTS
    FallbackOn,     \* fallback_on
    RaiseOn         \* raise_on

VARIABLE answer     \* per caller, what its call gave it

FallbackInit == answer = [c \in Callers |-> "none"]

\* _should_fallback: raise_on goes first.
ShouldFallback(e) == e \notin RaiseOn /\ e \in FallbackOn

\* The primary action is over for the caller, whatever goes on in the pool.
PrimaryEnded(c) ==
    \/ stage[c] = "over"
    \/ mode[c] = "nested" /\ verdict[c] # "none"

Answer(c, what) ==
    /\ PrimaryEnded(c) /\ answer[c] = "none"
    /\ answer' = [answer EXCEPT ![c] = what]
    /\ UNCHANGED <<timeoutVars, retryVars>>

PrimarySucceeded(c) == verdict[c] = "value" /\ Answer(c, "value")

Reraise(c) ==
    /\ verdict[c] # "value" /\ ~ShouldFallback(verdict[c])
    /\ Answer(c, verdict[c])

\* _invoke_fallback
InvokeFallback(c) ==
    /\ verdict[c] # "value" /\ ShouldFallback(verdict[c])
    /\ Answer(c, "recovered") \/ Answer(c, "fallbackError")

FallbackStep(c) == PrimarySucceeded(c) \/ Reraise(c) \/ InvokeFallback(c)
=============================================================================
