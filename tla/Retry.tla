-------------------------------- MODULE Retry --------------------------------
(***************************************************************************)
(* Retry (src/pysilience/retry.py) around the executions of Timeout: the    *)
(* loop of execute and of execute_async, which differ in how they sleep.    *)
(* An iteration makes one execution, so `attempt` is the loop's counter.    *)
(* How long a back-off lasts is left out.                                  *)
(***************************************************************************)
EXTENDS Timeout

CONSTANTS
    RetryOn,        \* retry_on
    AbortOn         \* abort_on

VARIABLES
    stage,          \* per caller, where its call is
    verdict         \* per caller, how the loop ended

retryVars == <<stage, verdict>>

Stages == {"idle", "ready", "trying", "backoff", "limited", "over"}

\* What `except Exception` catches; CancelledError is a BaseException.
Exceptions == Errors \cup {"timeoutError", "timeout", "refused"}

RetryInit ==
    /\ stage = [c \in Callers |-> "idle"]
    /\ verdict = [c \in Callers |-> "none"]

Go(c, place) == stage' = [stage EXCEPT ![c] = place]

\* The loop is over; the limit around it, if there is one, is left next.  A
\* caller that this limit has answered already does not hear how it ended.
End(c, how) ==
    /\ Go(c, IF mode[c] \in {"total", "nested"} THEN "limited" ELSE "over")
    /\ verdict' = [verdict EXCEPT ![c] = IF @ = "none" THEN how ELSE @]
    /\ UNCHANGED timeoutVars

\* The top of the loop's body.
TryOnce(c) ==
    /\ stage[c] = "ready"
    /\ Execute(c)
    /\ Go(c, "trying")
    /\ UNCHANGED verdict

\* _classifies_retryable: abort_on goes first.
Retryable(e) == e \notin AbortOn /\ e \in RetryOn

\* Mutations: one attempt too few, one too many.
ExhaustedEarly(c) == attempt[c] + 1 >= MaxAttempts
ExhaustedLate(c) == attempt[c] > MaxAttempts

Exhausted(c) == attempt[c] >= MaxAttempts

Heard(c, outcomes) == stage[c] = "trying" /\ where[c] = "out" /\ heard[c] \in outcomes

Succeed(c) == Heard(c, {"value"}) /\ End(c, "value")

\* Mutation: the loop takes a cancellation for a failed attempt.
PropagateAsFailure(c) == Heard(c, {"cancelled"}) /\ End(c, "exhausted")

\* No clause of the loop catches a cancellation.
Propagate(c) == Heard(c, {"cancelled"}) /\ End(c, "cancelled")

RaiseUnretried(c) == Heard(c, {e \in Exceptions : ~Retryable(e)}) /\ End(c, heard[c])

RaiseExhausted(c) ==
    /\ Heard(c, {e \in Exceptions : Retryable(e)})
    /\ Exhausted(c)
    /\ End(c, "exhausted")

BackOff(c) ==
    /\ Heard(c, {e \in Exceptions : Retryable(e)})
    /\ ~Exhausted(c)
    /\ Go(c, "backoff")
    /\ UNCHANGED <<timeoutVars, verdict>>

\* time.sleep and asyncio.sleep return.
WakeUp(c) ==
    /\ stage[c] = "backoff"
    /\ Go(c, "ready")
    /\ UNCHANGED <<timeoutVars, verdict>>

\* Mutation: a back-off that is cancelled ends the loop with the last failure.
CancelBackOffAsFailure(c) == stage[c] = "backoff" /\ InTask(c) /\ End(c, heard[c])

\* Only asyncio.sleep can be cancelled.
CancelBackOff(c) == stage[c] = "backoff" /\ InTask(c) /\ End(c, "cancelled")

\* What follows an execution, up to the next one or the end of the loop.
AfterAttempt(c) ==
    \/ Succeed(c) \/ Propagate(c) \/ RaiseUnretried(c) \/ RaiseExhausted(c)
    \/ BackOff(c) \/ WakeUp(c)
=============================================================================
