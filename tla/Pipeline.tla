------------------------------ MODULE Pipeline ------------------------------
(***************************************************************************)
(* @fallback over @retry over @timeout, the order of                       *)
(* docs/examples/composition_examples.md: several callers share the three   *)
(* instances, and so the timeout's pool of threads.  A caller of mode total *)
(* or nested has one more timeout between @fallback and @retry, as in the   *)
(* "Timeout + Retry (total timeout)" of the same page; by default it uses   *)
(* the same pool.                                                          *)
(***************************************************************************)
EXTENDS Fallback

VARIABLE cancelled  \* history: callers whose call was cancelled, and still is

pipelineVars == <<timeoutVars, retryVars, answer>>
recordedVars == <<pipelineVars, cancelled>>

Init ==
    /\ TimeoutInit /\ RetryInit /\ FallbackInit
    /\ cancelled = [c \in Callers |-> FALSE]

Of(c) == {c} \X (0..MaxAttempts)
Loop(c) == <<c, 0>>

\* A caller calls the decorated function.  Operations of an earlier call that
\* are still about must end first, only so that their numbers can be used again.
Begin(c) ==
    /\ stage[c] = "idle"
    /\ \A j \in Of(c) : job[j] = "over"
    /\ \A i \in DOMAIN workQueue : workQueue[i] \notin Of(c)

Call(c) ==
    /\ mode[c] # "nested"
    /\ Begin(c)
    /\ Go(c, "ready")
    /\ alarm' = IF mode[c] = "total" THEN Armed("total") ELSE alarm
    /\ UNCHANGED <<mode, attempt, job, workQueue, shut, background, where, heard,
                   verdict, answer>>

\* The outer of two nested limits submits the loop to the pool.
CallNested(c) ==
    /\ mode[c] = "nested"
    /\ Begin(c)
    /\ IF shut
         THEN /\ Go(c, "over")
              /\ verdict' = [verdict EXCEPT ![c] = "refused"]
              /\ UNCHANGED <<job, workQueue>>
         ELSE /\ Go(c, "ready")
              /\ job' = [job EXCEPT ![Loop(c)] = "queued"]
              /\ workQueue' = Append(workQueue, Loop(c))
              /\ UNCHANGED verdict
    /\ UNCHANGED <<mode, attempt, shut, background, where, heard, alarm, answer>>

\* The outer limit passes: a loop that no worker has taken is cancelled, one
\* that runs goes on, with the attempts that are left to it.
TimeOutNested(c) ==
    /\ mode[c] = "nested" /\ verdict[c] = "none"
    /\ job[Loop(c)] \in {"queued", "running"}
    /\ verdict' = [verdict EXCEPT ![c] = "timeout"]
    /\ IF job[Loop(c)] = "queued"
         THEN /\ Go(c, "over")
              /\ job' = [job EXCEPT ![Loop(c)] = Abandoned]
         ELSE UNCHANGED <<stage, job>>
    /\ UNCHANGED <<mode, attempt, workQueue, shut, background, where, heard, alarm, answer>>

\* The loop returns to its worker.
LeaveNested(c) ==
    /\ mode[c] = "nested" /\ stage[c] = "limited"
    /\ Go(c, "over")
    /\ job' = [job EXCEPT ![Loop(c)] = "over"]
    /\ UNCHANGED <<mode, attempt, workQueue, shut, background, where, heard, alarm,
                   verdict, answer>>

\* The total limit's alarm, before an attempt has taken the timer over.
AlarmTotal(c) ==
    /\ mode[c] = "total" /\ stage[c] = "ready"
    /\ alarm.armed
    /\ Go(c, "limited")
    /\ verdict' = [verdict EXCEPT ![c] = "timeout"]
    /\ alarm' = [alarm EXCEPT !.armed = FALSE]
    /\ UNCHANGED <<mode, attempt, job, workQueue, shut, background, where, heard, answer>>

\* The `finally` of the total limit.
LeaveTotal(c) ==
    /\ mode[c] = "total" /\ stage[c] = "limited"
    /\ Go(c, "over")
    /\ alarm' = Disarmed("total")
    /\ UNCHANGED <<mode, attempt, job, workQueue, shut, background, where, heard,
                   verdict, answer>>

\* The caller has its answer, and the call's frames are gone.
Done(c) ==
    /\ stage[c] = "over" /\ answer[c] # "none"
    /\ Go(c, "idle")
    /\ attempt' = [attempt EXCEPT ![c] = 0]
    /\ heard' = [heard EXCEPT ![c] = "none"]
    /\ verdict' = [verdict EXCEPT ![c] = "none"]
    /\ answer' = [answer EXCEPT ![c] = "none"]
    /\ UNCHANGED <<mode, job, workQueue, shut, background, where, alarm>>

\* The loop runs: in the caller's own thread or task, or in a worker's.
LoopStep(c) ==
    /\ mode[c] = "nested" => job[Loop(c)] = "running"
    /\ TryOnce(c) \/ AfterAttempt(c)
    /\ UNCHANGED answer

\* What the caller does next, once its primary action has ended.
CallerStep(c) == FallbackStep(c) \/ Done(c)

Next ==
    \/ \E c \in Callers : Call(c) \/ LoopStep(c) \/ CallerStep(c)
    \/ \E c \in Callers : AlarmTotal(c) \/ LeaveTotal(c)
    \/ \E c \in Callers : CallNested(c) \/ TimeOutNested(c) \/ LeaveNested(c)
    \/ \E c \in Callers : CancelBackOff(c) /\ UNCHANGED answer
    \/ TimeoutNext /\ UNCHANGED <<retryVars, answer>>

\* The operation that a cancellation reaches ends in a way of its own.
Swallows(c) == Fetch(c) /\ where[c] = "cancelled" /\ job[Current(c)] # "cancelled"

\* What happens to a call from outside, whatever the layers make of it: its task
\* is cancelled while it awaits an operation or sleeps.  Only the operation can
\* take that back, and the next call starts anew.
Record ==
    cancelled' = [c \in Callers |->
                    \/ Cancel(c) \/ CancelBackOff(c)
                    \/ cancelled[c] /\ ~Swallows(c) /\ ~Done(c)]

Spec == Init /\ [][Next /\ Record]_recordedVars

\* Callers run, limits pass, and a cancelled coroutine ends.  Nothing is
\* assumed of the operations, which may hang for ever, or of the workers.
FairSpec ==
    /\ Spec
    /\ \A c \in Callers :
         /\ WF_pipelineVars(LoopStep(c) \/ LeaveTotal(c) \/ LeaveNested(c))
         /\ WF_pipelineVars(CallerStep(c))
         /\ WF_pipelineVars(TimeOutNested(c))
         /\ WF_pipelineVars((TimeOut(c) \/ Return(c)) /\ UNCHANGED <<retryVars, answer>>)
         /\ \A n \in 1..MaxAttempts :
              WF_pipelineVars(/\ job[<<c, n>>] = "cancelling"
                              /\ \E e \in Endings \cup {"cancelled"} : Finish(<<c, n>>, e)
                              /\ UNCHANGED <<retryVars, answer>>)

-----------------------------------------------------------------------------
JobStates == Endings \cup {"queued", "running", "cancelling", "cancelled", "over"}
Outcomes == Exceptions \cup {"none", "value", "cancelled"}
Answers == Outcomes \cup {"exhausted", "recovered", "fallbackError"}
Frames == {"total", "attempt"}
Handlers == Frames \cup {"default"}

\* The variables of the layers.
LayersTyped ==
    /\ mode \in [Callers -> Modes]
    /\ attempt \in [Callers -> 0..MaxAttempts]
    /\ job \in [Jobs -> JobStates]
    /\ workQueue \in Seq(Jobs)
    /\ shut \in BOOLEAN
    /\ background \subseteq Jobs
    /\ where \in [Callers -> {"out", "waiting", "cancelled", "after"}]
    /\ heard \in [Callers -> Outcomes]
    /\ alarm \in [armed : BOOLEAN, handler : Handlers, saved : [Frames -> Handlers]]
    /\ stage \in [Callers -> Stages]
    /\ verdict \in [Callers -> Outcomes \cup {"exhausted"}]
    /\ answer \in [Callers -> Answers]

\* Every variable has its type: no attempt is made beyond the last, and the
\* timer's handlers are those of the frames.
TypeOK == LayersTyped /\ cancelled \in [Callers -> BOOLEAN]

\* An execution's caller, or that of the whole call, waits for the operation.
Wanted(j) == Awaited(j) \/ (j = Loop(j[1]) /\ verdict[j[1]] = "none")

\* An operation outlives the execution it was started for only in two ways: a
\* pool thread that already runs it ("it may continue running", timeout.py:285)
\* or a shielded task, and that one is held in _background_tasks.  Nothing is
\* left queued, and a cancelled coroutine is never left behind (with the wait_for
\* of Python 3.12 and later), so that attempts of one task do not overlap.  A loop whose total limit has passed
\* before a worker took it never starts.
NoLeftovers ==
    \A j \in Jobs : Live(j) /\ ~Wanted(j) =>
        /\ job[j] = "running"
        /\ \/ InPool(j[1])
           \/ mode[j[1]] = "shield" /\ j \in background

\* A failed call has used all its attempts or met a failure that must not be
\* retried, and was not cut short (retry.py:233-255); a call cut short by its
\* total limit or by a cancellation says so.
GivesUpOnlyWhenItMust ==
    \A c \in Callers : answer[c] \notin {"none", "value"} =>
        \/ attempt[c] = MaxAttempts
        \/ heard[c] \in Exceptions /\ ~Retryable(heard[c])
        \/ verdict[c] \in {"cancelled", "timeout"}
        \/ verdict[c] = "refused" /\ mode[c] = "nested"

\* A cancellation goes through all layers (retry.py:289, :319): a call that was
\* cancelled in an attempt, while an attempt is being cancelled for its limit,
\* or in a back-off ends as cancelled, neither retried nor answered by the
\* fallback, unless the operation itself has swallowed the cancellation; and
\* no other call ends so.
CancellationPropagates ==
    \A c \in Callers : answer[c] # "none" =>
        (answer[c] = "cancelled" <=> cancelled[c])

\* The frame whose handler this is would be interrupted by an alarm now.
Limits(frame, c) ==
    \/ frame = "attempt" /\ InMain(c) /\ where[c] \in {"waiting", "after"}
    \/ frame = "total" /\ mode[c] = "total" /\ stage[c] = "ready" /\ attempt[c] = 0

\* A pending alarm raises in the frame that has set it: whatever ends an
\* execution, alarms in its listeners and its `finally` included, none is left
\* to interrupt a back-off, the fallback, a later call or the caller's own code
\* (timeout.py:366-369).
NoStrayAlarm == alarm.armed => \E c \in Callers : Limits(alarm.handler, c)

\* Between the attempts of a call with a total limit, the timer that enforces
\* the limit runs.
TotalLimitStands ==
    \A c \in Callers : mode[c] = "total" /\ stage[c] = "backoff" => alarm.armed

\* Every call returns, though operations hang and keep all the pool's threads,
\* though loops in the pool wait for operations queued behind them, though the
\* pool is shut down, and whatever is cancelled.
EveryCallReturns ==
    \A c \in Callers :
        (stage[c] # "idle" /\ answer[c] = "none") ~> answer[c] # "none"
=============================================================================
