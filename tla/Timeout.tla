------------------------------- MODULE Timeout -------------------------------
(***************************************************************************)
(* One Timeout instance (src/pysilience/timeout.py) and the executions that *)
(* callers make through it.  How a caller's executions are limited is fixed *)
(* by its mode:                                                            *)
(*   thread   execute() in a thread, the operation in the shared pool       *)
(*   async    execute_async(), the coroutine cancelled when time is up      *)
(*   shield   execute_async(), the task left to run in the background       *)
(*   signal   execute() in the main thread, interrupted by SIGALRM          *)
(*   total    signal, with a second such time limit around the whole call   *)
(*   nested   thread, with a second such time limit around the whole call:   *)
(*            the call is itself an operation in the shared pool, number 0   *)
(*                                                                         *)
(* Time is not counted: an operation may take any time, so the limit may    *)
(* pass at any step of it.                                                 *)
(***************************************************************************)
EXTENDS Naturals, Sequences, FiniteSets

CONSTANTS
    Callers,
    Modes,          \* the modes that callers may have
    MaxAttempts,    \* executions one caller may make in one call
    PoolSize,       \* max_workers of the executor
    Errors          \* exceptions of the operation, but for TimeoutError

EveryMode == {"thread", "async", "shield", "signal", "total", "nested"}

ASSUME TimeoutAssumption ==
    /\ IsFiniteSet(Callers)
    /\ Modes \subseteq EveryMode
    /\ MaxAttempts \in Nat \ {0}
    /\ PoolSize \in Nat \ {0}

\* The other words that `job`, `heard` and `verdict` use are no exceptions.
ASSUME ErrorAssumption ==
    Errors \cap {"queued", "running", "cancelling", "cancelled", "over", "none",
                 "value", "timeoutError", "timeout", "refused", "exhausted"} = {}

VARIABLES
    mode,           \* per caller, which of the six
    attempt,        \* per caller, the number of executions it has made
    job,            \* per execution, what became of its operation
    workQueue,      \* the pool's queue of executions
    shut,           \* the executor is shut down
    background,     \* _background_tasks
    where,          \* per caller, where in execute it is
    heard,          \* per caller, what its latest execution gave it
    alarm           \* the process's interval timer and SIGALRM handler

timeoutVars == <<mode, attempt, job, workQueue, shut, background, where, heard, alarm>>

Jobs == Callers \X (0..MaxAttempts)
Endings == {"value", "timeoutError"} \cup Errors

InPool(c) == mode[c] \in {"thread", "nested"}
InTask(c) == mode[c] \in {"async", "shield"}
InMain(c) == mode[c] \in {"signal", "total"}

Current(c) == <<c, attempt[c]>>

\* Some caller still waits for what this job will give.
Awaited(j) == attempt[j[1]] = j[2] /\ where[j[1]] \in {"waiting", "cancelled"}

Live(j) == job[j] \in {"queued", "running", "cancelling"}

TimeoutInit ==
    /\ mode \in [Callers -> Modes]
    /\ Cardinality({c \in Callers : InMain(c)}) <= 1
    /\ attempt = [c \in Callers |-> 0]
    /\ job = [j \in Jobs |-> "over"]
    /\ workQueue = << >>
    /\ shut = FALSE
    /\ background = {}
    /\ where = [c \in Callers |-> "out"]
    /\ heard = [c \in Callers |-> "none"]
    /\ alarm = [armed |-> FALSE, handler |-> "default",
                saved |-> [total |-> "default", attempt |-> "default"]]

-----------------------------------------------------------------------------
(* A caller enters execute or execute_async with a new operation.          *)

\* signal.signal(SIGALRM, ...) and setitimer(duration) by a frame.
Armed(frame) == [armed |-> TRUE, handler |-> frame,
                 saved |-> [alarm.saved EXCEPT ![frame] = alarm.handler]]

Enter(c, state) ==
    /\ attempt' = [attempt EXCEPT ![c] = attempt[c] + 1]
    /\ job' = [job EXCEPT ![<<c, attempt[c] + 1>>] = state]
    /\ where' = [where EXCEPT ![c] = "waiting"]
    /\ heard' = [heard EXCEPT ![c] = "none"]
    /\ UNCHANGED <<mode, shut>>

SubmitToPool(c) ==
    /\ InPool(c)
    /\ ~shut
    /\ Enter(c, "queued")
    /\ workQueue' = Append(workQueue, <<c, attempt[c] + 1>>)
    /\ UNCHANGED <<background, alarm>>

\* submit() of a pool that is shut down raises, outside the try.
SubmitRefused(c) ==
    /\ InPool(c)
    /\ shut
    /\ attempt' = [attempt EXCEPT ![c] = attempt[c] + 1]
    /\ heard' = [heard EXCEPT ![c] = "refused"]
    /\ UNCHANGED <<mode, job, workQueue, shut, background, where, alarm>>

StartTask(c) ==
    /\ InTask(c)
    /\ Enter(c, "running")
    /\ background' = IF mode[c] = "shield"
                       THEN background \cup {<<c, attempt[c] + 1>>} ELSE background
    /\ UNCHANGED <<workQueue, alarm>>

CallInMain(c) ==
    /\ InMain(c)
    /\ Enter(c, "running")
    /\ alarm' = Armed("attempt")
    /\ UNCHANGED <<workQueue, background>>

Execute(c) ==
    /\ where[c] = "out"
    /\ SubmitToPool(c) \/ SubmitRefused(c) \/ StartTask(c) \/ CallInMain(c)

-----------------------------------------------------------------------------
(* The operations.                                                         *)

\* An idle worker takes the oldest execution, unless it was cancelled.
PoolStep ==
    /\ workQueue # << >>
    /\ Cardinality({j \in Jobs : InPool(j[1]) /\ job[j] = "running"}) < PoolSize
    /\ workQueue' = Tail(workQueue)
    /\ job' = IF job[Head(workQueue)] = "queued"
                THEN [job EXCEPT ![Head(workQueue)] = "running"] ELSE job
    /\ UNCHANGED <<mode, attempt, shut, background, where, heard, alarm>>

\* An operation returns or raises; a cancelled coroutine may also do that
\* instead of ending as cancelled.  _on_background_task_done forgets a task.
Finish(j, ending) ==
    /\ ~InMain(j[1]) /\ j[2] # 0
    /\ \/ job[j] = "running" /\ ending \in Endings
       \/ job[j] = "cancelling" /\ ending \in Endings \cup {"cancelled"}
    /\ job' = [job EXCEPT ![j] = IF Awaited(j) THEN ending ELSE "over"]
    /\ background' = background \ {j}
    /\ UNCHANGED <<mode, attempt, workQueue, shut, where, heard, alarm>>

Leave(c, outcome) ==
    /\ where' = [where EXCEPT ![c] = "out"]
    /\ heard' = [heard EXCEPT ![c] = outcome]

\* The caller finds its operation ended.  A TimeoutError of the operation's
\* own is caught as if the limit had passed.
Fetch(c) ==
    LET ending == job[Current(c)]
    IN  /\ where[c] \in {"waiting", "cancelled"}
        /\ ending \in Endings \cup {"cancelled"}
        /\ Leave(c, IF ending = "timeoutError" THEN "timeout"
                    ELSE IF ending = "cancelled" /\ where[c] = "waiting" THEN "timeout"
                    ELSE ending)
        /\ job' = [job EXCEPT ![Current(c)] = "over"]
        /\ UNCHANGED <<mode, attempt, workQueue, shut, background, alarm>>

-----------------------------------------------------------------------------
(* The limit passes before the operation has ended.                        *)

\* Mutation: the future is not cancelled.
AbandonedQueued == "queued"

\* future.cancel() succeeds while no worker has taken the execution.
Abandoned == "over"

\* Mutation: the limit counts from when a worker takes the execution.
TimeOutThreadStarted(c) ==
    /\ InPool(c) /\ where[c] = "waiting"
    /\ job[Current(c)] = "running"
    /\ Leave(c, "timeout")
    /\ UNCHANGED <<mode, attempt, job, workQueue, shut, background, alarm>>

TimeOutThread(c) ==
    /\ InPool(c) /\ where[c] = "waiting"
    /\ job[Current(c)] \in {"queued", "running"}
    /\ Leave(c, "timeout")
    /\ job' = IF job[Current(c)] = "queued"
                THEN [job EXCEPT ![Current(c)] = Abandoned] ELSE job
    /\ UNCHANGED <<mode, attempt, workQueue, shut, background, alarm>>

\* wait_for cancels the coroutine and waits for it to end.  As of Python 3.12 it
\* awaits the coroutine in the caller's own task, so that a cancellation of the
\* caller (Cancel) goes to it as well.  In 3.10 and 3.11 wait_for runs it as a
\* task of its own, which a Cancel at this point leaves behind: not modelled.
TimeOutTask(c) ==
    /\ mode[c] = "async" /\ where[c] = "waiting"
    /\ job[Current(c)] = "running"
    /\ job' = [job EXCEPT ![Current(c)] = "cancelling"]
    /\ UNCHANGED <<mode, attempt, workQueue, shut, background, where, heard, alarm>>

TimeOutShield(c) ==
    /\ mode[c] = "shield" /\ where[c] = "waiting"
    /\ job[Current(c)] = "running"
    /\ Leave(c, "timeout")
    /\ UNCHANGED <<mode, attempt, job, workQueue, shut, background, alarm>>

\* The caller's own task is cancelled: its coroutine is, a shielded task is not.
Cancel(c) ==
    /\ where[c] = "waiting"
    /\ \/ /\ mode[c] = "async" /\ Live(Current(c))
          /\ job' = [job EXCEPT ![Current(c)] = "cancelling"]
          /\ where' = [where EXCEPT ![c] = "cancelled"]
          /\ UNCHANGED heard
       \/ /\ mode[c] = "shield"
          /\ job' = [job EXCEPT ![Current(c)] = IF Live(Current(c)) THEN @ ELSE "over"]
          /\ Leave(c, "cancelled")
    /\ UNCHANGED <<mode, attempt, workQueue, shut, background, alarm>>

Shutdown ==
    /\ ~shut
    /\ shut' = TRUE
    /\ UNCHANGED <<mode, attempt, job, workQueue, background, where, heard, alarm>>

-----------------------------------------------------------------------------
(* The main thread: operation, event, then `finally`.                      *)

FinishInMain(c, ending) ==
    /\ InMain(c) /\ where[c] = "waiting"
    /\ job' = [job EXCEPT ![Current(c)] = "over"]
    /\ where' = [where EXCEPT ![c] = "after"]
    /\ heard' = [heard EXCEPT ![c] = ending]
    /\ UNCHANGED <<mode, attempt, workQueue, shut, background, alarm>>

\* SIGALRM interrupts the operation, or comes when it has ended already: then
\* it is swallowed with the listeners' errors, or it replaces the outcome.
Alarm(c) ==
    /\ InMain(c) /\ where[c] \in {"waiting", "after"}
    /\ alarm.armed
    /\ alarm' = [alarm EXCEPT !.armed = FALSE]
    /\ job' = [job EXCEPT ![Current(c)] = "over"]
    /\ where' = [where EXCEPT ![c] = "after"]
    /\ heard' \in {[heard EXCEPT ![c] = "timeout"]}
                    \cup (IF where[c] = "after" THEN {heard} ELSE {})
    /\ UNCHANGED <<mode, attempt, workQueue, shut, background>>

\* Mutation: only the handler is put back.
HandlerOnly(frame) == [alarm EXCEPT !.handler = alarm.saved[frame]]

\* The frame disarms the process's one timer and puts back what it saved.
Disarmed(frame) == [alarm EXCEPT !.armed = FALSE, !.handler = alarm.saved[frame]]

Finally(c) ==
    /\ InMain(c) /\ where[c] = "after"
    /\ alarm' = Disarmed("attempt")
    /\ where' = [where EXCEPT ![c] = "out"]
    /\ UNCHANGED <<mode, attempt, job, workQueue, shut, background, heard>>

\* SIGALRM between the two calls of `finally`: the handler stays installed.
AlarmInFinally(c) ==
    /\ InMain(c) /\ where[c] = "after"
    /\ alarm.armed
    /\ alarm' = [alarm EXCEPT !.armed = FALSE]
    /\ Leave(c, "timeout")
    /\ UNCHANGED <<mode, attempt, job, workQueue, shut, background>>

-----------------------------------------------------------------------------
\* The steps by which an execution comes to its end.
TimeOut(c) == TimeOutThread(c) \/ TimeOutTask(c) \/ TimeOutShield(c) \/ Alarm(c)
Return(c) == Fetch(c) \/ Finally(c) \/ AlarmInFinally(c)

TimeoutNext ==
    \/ PoolStep \/ Shutdown
    \/ \E j \in Jobs, ending \in Endings \cup {"cancelled"} : Finish(j, ending)
    \/ \E c \in Callers, ending \in Endings : FinishInMain(c, ending)
    \/ \E c \in Callers : TimeOut(c) \/ Return(c) \/ Cancel(c)
=============================================================================
