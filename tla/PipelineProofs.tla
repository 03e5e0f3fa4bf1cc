--------------------------- MODULE PipelineProofs ---------------------------
(***************************************************************************)
(* Proofs about Pipeline, for any number of callers of any mode, attempts, *)
(* threads in the pool and kinds of exceptions.                            *)
(***************************************************************************)
EXTENDS Pipeline, TLAPS

\* The list of modes is expanded in every step.
USE DEF EveryMode

-----------------------------------------------------------------------------
(* The inductive invariant, in four parts.                                 *)

\* Where a caller is in its call, in relation to where it is in execute().
CallInv(c) ==
    /\ where[c] # "out" => stage[c] = "trying" /\ attempt[c] # 0
    /\ where[c] = "after" => InMain(c)
    /\ where[c] = "cancelled" => mode[c] = "async"
    /\ stage[c] \in {"idle", "ready", "backoff"} => heard[c] # "cancelled"
    /\ stage[c] \in {"idle", "ready", "backoff"} => attempt[c] < MaxAttempts
    /\ stage[c] = "idle" => attempt[c] = 0 /\ verdict[c] = "none" /\ answer[c] = "none"
    /\ stage[c] = "limited" => mode[c] \in {"total", "nested"}

\* The loop of a nested call, as an operation in the pool.  Only this caller's
\* verdict can be known while the loop goes on.
LoopInv(c) ==
    /\ job[Loop(c)] \in {"queued", "running", "over"}
    /\ mode[c] # "nested" => job[Loop(c)] = "over"
    /\ job[Loop(c)] = "queued" =>
         stage[c] = "ready" /\ verdict[c] = "none" /\ attempt[c] = 0
    /\ job[Loop(c)] = "running" =>
         stage[c] \in {"ready", "trying", "backoff", "limited"}

\* An operation that is queued or being cancelled is awaited, one that runs is
\* awaited or may be left behind, only a coroutine can end as cancelled, and the
\* main thread leaves no outcome behind for a caller to fetch.
JobInv(c, n) ==
    LET awaited == attempt[c] = n /\ where[c] \in {"waiting", "cancelled"}
    IN  /\ job[<<c, n>>] = "queued" => InPool(c) /\ awaited
        /\ job[<<c, n>>] = "cancelling" => mode[c] = "async" /\ awaited
        /\ job[<<c, n>>] = "cancelled" => mode[c] = "async"
        /\ job[<<c, n>>] = "running" =>
             \/ InPool(c)
             \/ mode[c] = "shield" /\ <<c, n>> \in background
             \/ mode[c] \in {"async", "signal", "total"} /\ awaited
        /\ InMain(c) => job[<<c, n>>] \in {"running", "over"}

\* Why a call that is over is over.
Justified(c) ==
    \/ verdict[c] = "value"
    \/ attempt[c] = MaxAttempts
    \/ heard[c] \in Exceptions /\ ~Retryable(heard[c])
    \/ verdict[c] \in {"cancelled", "timeout"}
    \/ verdict[c] = "refused" /\ mode[c] = "nested"

\* A verdict stands once it is given, with its reason, and the answer follows.
VerdictInv(c) ==
    /\ stage[c] \in {"over", "limited"} => verdict[c] # "none"
    /\ verdict[c] # "none" =>
         /\ Justified(c)
         /\ \/ stage[c] \in {"over", "limited"}
            \/ mode[c] = "nested" /\ verdict[c] = "timeout"
    /\ heard[c] = "cancelled" => InTask(c)
    /\ verdict[c] = "cancelled" => InTask(c)
    /\ stage[c] = "over" /\ heard[c] = "cancelled" => verdict[c] = "cancelled"
    /\ answer[c] # "none" =>
         /\ PrimaryEnded(c)
         /\ verdict[c] = "value" <=> answer[c] = "value"
         /\ answer[c] = "cancelled" => verdict[c] = "cancelled"
         /\ verdict[c] = "cancelled" /\ ~ShouldFallback("cancelled")
              => answer[c] = "cancelled"

Inv ==
    /\ LayersTyped
    /\ \A c \in Callers : CallInv(c) /\ LoopInv(c) /\ VerdictInv(c)
    /\ \A c \in Callers, n \in 1..MaxAttempts : JobInv(c, n)
-----------------------------------------------------------------------------
(* Every step keeps it.                                                    *)

LEMMA NumbersOfJobs ==
    ASSUME NEW c \in Callers
    PROVE  /\ MaxAttempts \in Nat \ {0}
           /\ Loop(c) \in Jobs /\ Loop(c) = <<c, 0>>
           /\ \A n \in 0..MaxAttempts : <<c, n>> \in Jobs
BY TimeoutAssumption DEF Loop, Jobs

\* A new execution is made by a caller whose earlier ones have been answered.
LEMMA TryKeeps ==
    ASSUME Inv, NEW c \in Callers, mode[c] = "nested" => job[Loop(c)] = "running",
           TryOnce(c), UNCHANGED answer
    PROVE  Inv'
<1> DEFINE new == <<c, attempt[c] + 1>>
<1>1. /\ LayersTyped
      /\ CallInv(c)
      /\ stage[c] = "ready" /\ where[c] = "out"
  BY DEF Inv, TryOnce, Execute
<1>2. /\ attempt[c] + 1 \in 1..MaxAttempts
      /\ attempt[c] + 1 \in 0..MaxAttempts
  BY <1>1, TimeoutAssumption DEF LayersTyped, CallInv
<1>3. new \in Jobs /\ new # Loop(c) /\ new[1] = c /\ new[2] = attempt[c] + 1
  BY <1>2, NumbersOfJobs
<1>4. /\ attempt' = [attempt EXCEPT ![c] = attempt[c] + 1]
      /\ stage' = [stage EXCEPT ![c] = "trying"]
      /\ UNCHANGED <<mode, shut, verdict, answer>>
  BY DEF TryOnce, Execute, SubmitToPool, SubmitRefused, StartTask, CallInMain, Enter, Go
<1>5. \/ /\ SubmitRefused(c)
         /\ heard' = [heard EXCEPT ![c] = "refused"]
         /\ UNCHANGED <<job, workQueue, background, where, alarm>>
      \/ /\ where' = [where EXCEPT ![c] = "waiting"]
         /\ heard' = [heard EXCEPT ![c] = "none"]
         /\ \/ /\ InPool(c)
               /\ job' = [job EXCEPT ![new] = "queued"]
               /\ workQueue' = Append(workQueue, new)
               /\ UNCHANGED <<background, alarm>>
            \/ /\ InTask(c)
               /\ job' = [job EXCEPT ![new] = "running"]
               /\ background' = IF mode[c] = "shield" THEN background \cup {new}
                                                      ELSE background
               /\ UNCHANGED <<workQueue, alarm>>
            \/ /\ InMain(c)
               /\ job' = [job EXCEPT ![new] = "running"]
               /\ alarm' = Armed("attempt")
               /\ UNCHANGED <<workQueue, background>>
  BY DEF TryOnce, Execute, SubmitToPool, SubmitRefused, StartTask, CallInMain, Enter
<1>6. LayersTyped'
  <2>1. Armed("attempt")
          \in [armed : BOOLEAN, handler : Handlers, saved : [Frames -> Handlers]]
    BY <1>1 DEF LayersTyped, Armed, Frames, Handlers
  <2>2. workQueue' \in Seq(Jobs)
    <3>1. Append(workQueue, new) \in Seq(Jobs) /\ workQueue \in Seq(Jobs)
      BY <1>1, <1>3 DEF LayersTyped
    <3> QED
      BY <1>5, <3>1
  <2> QED
    BY <1>1, <1>2, <1>3, <1>4, <1>5, <2>1, <2>2
       DEF LayersTyped, JobStates, Outcomes, Exceptions, Stages
<1>7. ASSUME NEW d \in Callers
      PROVE  CallInv(d)'
  BY <1>1, <1>4, <1>5 DEF Inv, LayersTyped, CallInv, InPool, InTask, InMain
<1>8. ASSUME NEW d \in Callers
      PROVE  LoopInv(d)'
  BY <1>1, <1>3, <1>4, <1>5, NumbersOfJobs DEF Inv, LayersTyped, LoopInv
<1>9. ASSUME NEW d \in Callers
      PROVE  VerdictInv(d)'
  BY <1>1, <1>4, <1>5 DEF Inv, LayersTyped, VerdictInv, Justified, InTask, PrimaryEnded
<1>10. ASSUME NEW d \in Callers, NEW n \in 1..MaxAttempts
       PROVE  JobInv(d, n)'
  <2>1. /\ <<d, n>> \in Jobs
        /\ <<d, n>> = new <=> d = c /\ n = attempt[c] + 1
        /\ JobInv(d, n)
    BY <1>3, NumbersOfJobs DEF Inv
  <2>2. CASE <<d, n>> = new /\ ~SubmitRefused(c)
    BY <1>1, <1>4, <1>5, <2>1, <2>2 DEF LayersTyped, JobInv, InPool, InTask, InMain
  <2>3. CASE <<d, n>> # new \/ SubmitRefused(c)
    <3>1. job'[<<d, n>>] = job[<<d, n>>]
      BY <1>1, <1>3, <1>5, <2>1, <2>3 DEF LayersTyped, SubmitRefused
    <3>2. d # c => attempt'[d] = attempt[d] /\ where'[d] = where[d]
      BY <1>1, <1>4, <1>5 DEF LayersTyped
    <3> QED
      BY <1>1, <1>4, <1>5, <2>1, <3>1, <3>2 DEF LayersTyped, JobInv, InPool, InTask, InMain
  <2> QED
    BY <2>2, <2>3
<1> QED
  BY <1>6, <1>7, <1>8, <1>9, <1>10 DEF Inv

\* The loop goes on or ends; the executions are left as they are.
LEMMA LoopKeeps ==
    ASSUME Inv, NEW c \in Callers,
           AfterAttempt(c) \/ CancelBackOff(c), UNCHANGED answer
    PROVE  Inv'
<1>1. /\ LayersTyped
      /\ UNCHANGED <<timeoutVars, answer>>
  BY DEF Inv, AfterAttempt, CancelBackOff, Succeed, Propagate, RaiseUnretried,
         RaiseExhausted, BackOff, WakeUp, End
<1>2. \/ /\ stage' = [stage EXCEPT ![c] = IF mode[c] \in {"total", "nested"}
                                            THEN "limited" ELSE "over"]
         /\ \E how \in Outcomes \cup {"exhausted"} :
              /\ verdict' = [verdict EXCEPT ![c] = IF @ = "none" THEN how ELSE @]
              /\ how # "none"
              /\ \/ how = "value" /\ heard[c] = "value"
                 \/ how = "cancelled" /\ stage[c] = "trying" /\ heard[c] = "cancelled"
                 \/ how = "cancelled" /\ stage[c] = "backoff" /\ InTask(c)
                 \/ how = heard[c] /\ heard[c] \in Exceptions /\ ~Retryable(heard[c])
                 \/ /\ how = "exhausted" /\ attempt[c] >= MaxAttempts
                    /\ heard[c] \in Exceptions
      \/ /\ stage' = [stage EXCEPT ![c] = "backoff"]
         /\ heard[c] \in Exceptions /\ ~(attempt[c] >= MaxAttempts)
         /\ UNCHANGED verdict
      \/ /\ stage[c] = "backoff"
         /\ stage' = [stage EXCEPT ![c] = "ready"]
         /\ UNCHANGED verdict
  BY <1>1, ErrorAssumption
     DEF AfterAttempt, CancelBackOff, Succeed, Propagate, RaiseUnretried,
         RaiseExhausted, BackOff, WakeUp, End, Heard, Exhausted, Go, LayersTyped,
         Outcomes, Exceptions
<1>3. stage[c] \in {"trying", "backoff"} /\ where[c] = "out"
  BY DEF Inv, CallInv, AfterAttempt, CancelBackOff, Succeed, Propagate,
         RaiseUnretried, RaiseExhausted, BackOff, WakeUp, Heard
<1>4. "cancelled" \notin Exceptions
  BY ErrorAssumption DEF Exceptions
<1>5. LayersTyped'
  <2>1. stage' \in [Callers -> Stages]
    BY <1>1, <1>2 DEF LayersTyped, Stages
  <2>2. verdict' \in [Callers -> Outcomes \cup {"exhausted"}]
    BY <1>1, <1>2 DEF LayersTyped
  <2> QED
    BY <1>1, <2>1, <2>2 DEF LayersTyped, timeoutVars
<1>6. ASSUME NEW d \in Callers
      PROVE  CallInv(d)'
  BY <1>1, <1>2, <1>3, <1>4, TimeoutAssumption DEF Inv, LayersTyped, CallInv, timeoutVars, InMain
<1>7. ASSUME NEW d \in Callers
      PROVE  LoopInv(d)'
  BY <1>1, <1>2, <1>3 DEF Inv, LayersTyped, LoopInv, timeoutVars, Loop
<1>8. ASSUME NEW d \in Callers
      PROVE  VerdictInv(d)'
  BY <1>1, <1>2, <1>3, <1>4, TimeoutAssumption
     DEF Inv, LayersTyped, CallInv, VerdictInv, Justified, InTask, PrimaryEnded, timeoutVars
<1>9. ASSUME NEW d \in Callers, NEW n \in 1..MaxAttempts
      PROVE  JobInv(d, n)'
  BY <1>1 DEF Inv, JobInv, InPool, InMain, timeoutVars
<1> QED
  BY <1>5, <1>6, <1>7, <1>8, <1>9 DEF Inv

\* The fallback answers the caller.
LEMMA FallbackKeeps ==
    ASSUME Inv, NEW c \in Callers, FallbackStep(c)
    PROVE  Inv'
<1>1. /\ LayersTyped
      /\ PrimaryEnded(c) /\ answer[c] = "none" /\ verdict[c] # "none"
      /\ UNCHANGED <<timeoutVars, retryVars>>
  BY DEF Inv, VerdictInv, PrimaryEnded, FallbackStep, PrimarySucceeded, Reraise,
         InvokeFallback, Answer
<1>2. \E what \in Answers :
        /\ answer' = [answer EXCEPT ![c] = what]
        /\ \/ what = verdict[c] /\ (verdict[c] = "value" \/ ~ShouldFallback(verdict[c]))
           \/ /\ what \in {"recovered", "fallbackError"}
              /\ verdict[c] # "value" /\ ShouldFallback(verdict[c])
  BY <1>1 DEF FallbackStep, PrimarySucceeded, Reraise, InvokeFallback, Answer,
              Answers, LayersTyped
<1>3. stage[c] # "idle"
  BY <1>1 DEF Inv, CallInv
<1>4. LayersTyped'
  BY <1>1, <1>2 DEF LayersTyped, timeoutVars, retryVars
<1>5. ASSUME NEW d \in Callers
      PROVE  CallInv(d)' /\ LoopInv(d)'
  BY <1>1, <1>2, <1>3
     DEF Inv, LayersTyped, CallInv, LoopInv, timeoutVars, retryVars, InMain, Loop
<1>6. ASSUME NEW d \in Callers
      PROVE  VerdictInv(d)'
  BY <1>1, <1>2
     DEF Inv, LayersTyped, VerdictInv, Justified, InTask, PrimaryEnded, timeoutVars, retryVars
<1>7. ASSUME NEW d \in Callers, NEW n \in 1..MaxAttempts
      PROVE  JobInv(d, n)'
  BY <1>1 DEF Inv, JobInv, InPool, InMain, timeoutVars
<1> QED
  BY <1>4, <1>5, <1>6, <1>7 DEF Inv
-----------------------------------------------------------------------------
\* The call around the loop.

\* A call begins once nothing of the caller's previous one is left.
LEMMA CallKeeps ==
    ASSUME Inv, NEW c \in Callers, Call(c) \/ CallNested(c)
    PROVE  Inv'
<1>1. /\ LayersTyped
      /\ stage[c] = "idle" /\ where[c] = "out" /\ attempt[c] = 0
      /\ verdict[c] = "none" /\ answer[c] = "none"
      /\ \A n \in 0..MaxAttempts : job[<<c, n>>] = "over"
      /\ UNCHANGED <<mode, attempt, shut, background, where, heard, answer>>
  BY DEF Inv, CallInv, Call, CallNested, Begin, Of
<1>2. \/ /\ mode[c] # "nested"
         /\ stage' = [stage EXCEPT ![c] = "ready"]
         /\ alarm' = alarm \/ alarm' = Armed("total")
         /\ UNCHANGED <<job, workQueue, verdict>>
      \/ /\ mode[c] = "nested"
         /\ stage' = [stage EXCEPT ![c] = "over"]
         /\ verdict' = [verdict EXCEPT ![c] = "refused"]
         /\ UNCHANGED <<job, workQueue, alarm>>
      \/ /\ mode[c] = "nested"
         /\ stage' = [stage EXCEPT ![c] = "ready"]
         /\ job' = [job EXCEPT ![Loop(c)] = "queued"]
         /\ workQueue' = Append(workQueue, Loop(c))
         /\ UNCHANGED <<verdict, alarm>>
  BY DEF Call, CallNested, Go
<1>3. LayersTyped'
  <2>1. Armed("total")
          \in [armed : BOOLEAN, handler : Handlers, saved : [Frames -> Handlers]]
    BY <1>1 DEF LayersTyped, Armed, Frames, Handlers
  <2>2. workQueue' \in Seq(Jobs)
    <3>1. Append(workQueue, Loop(c)) \in Seq(Jobs) /\ workQueue \in Seq(Jobs)
      BY <1>1, NumbersOfJobs DEF LayersTyped
    <3> QED
      BY <1>2, <3>1
  <2>3. job' \in [Jobs -> JobStates]
    BY <1>1, <1>2 DEF LayersTyped, JobStates
  <2>4. /\ stage' \in [Callers -> Stages]
        /\ verdict' \in [Callers -> Outcomes \cup {"exhausted"}]
    BY <1>1, <1>2 DEF LayersTyped, Stages, Outcomes, Exceptions
  <2> QED
    BY <1>1, <1>2, <2>1, <2>2, <2>3, <2>4 DEF LayersTyped
<1>4. ASSUME NEW d \in Callers
      PROVE  CallInv(d)' /\ LoopInv(d)'
  BY <1>1, <1>2, NumbersOfJobs DEF Inv, LayersTyped, CallInv, LoopInv, InMain
<1>5. ASSUME NEW d \in Callers
      PROVE  VerdictInv(d)'
  BY <1>1, <1>2 DEF Inv, LayersTyped, CallInv, VerdictInv, Justified, InTask, PrimaryEnded
<1>6. ASSUME NEW d \in Callers, NEW n \in 1..MaxAttempts
      PROVE  JobInv(d, n)'
  <2>1. job'[<<d, n>>] = job[<<d, n>>]
    BY <1>1, <1>2, NumbersOfJobs DEF LayersTyped
  <2> QED
    BY <1>1, <2>1 DEF Inv, JobInv, InPool, InMain
<1> QED
  BY <1>3, <1>4, <1>5, <1>6 DEF Inv

\* A limit around the loop passes, and the loop is left.
LEMMA OuterLimitKeeps ==
    ASSUME Inv, NEW c \in Callers,
           \/ TimeOutNested(c) \/ LeaveNested(c) \/ AlarmTotal(c) \/ LeaveTotal(c)
    PROVE  Inv'
<1>1. /\ LayersTyped
      /\ UNCHANGED <<mode, attempt, workQueue, shut, background, where, heard, answer>>
  BY DEF Inv, TimeOutNested, LeaveNested, AlarmTotal, LeaveTotal
<1>2. \/ /\ mode[c] = "nested" /\ verdict[c] = "none"
         /\ verdict' = [verdict EXCEPT ![c] = "timeout"]
         /\ \/ /\ job[Loop(c)] = "queued"
               /\ stage' = [stage EXCEPT ![c] = "over"]
               /\ job' = [job EXCEPT ![Loop(c)] = "over"]
            \/ job[Loop(c)] = "running" /\ UNCHANGED <<stage, job>>
         /\ UNCHANGED alarm
      \/ /\ mode[c] = "nested" /\ stage[c] = "limited"
         /\ stage' = [stage EXCEPT ![c] = "over"]
         /\ job' = [job EXCEPT ![Loop(c)] = "over"]
         /\ UNCHANGED <<verdict, alarm>>
      \/ /\ mode[c] = "total" /\ stage[c] = "ready"
         /\ stage' = [stage EXCEPT ![c] = "limited"]
         /\ verdict' = [verdict EXCEPT ![c] = "timeout"]
         /\ alarm' = [alarm EXCEPT !.armed = FALSE]
         /\ UNCHANGED job
      \/ /\ mode[c] = "total" /\ stage[c] = "limited"
         /\ stage' = [stage EXCEPT ![c] = "over"]
         /\ alarm' = Disarmed("total")
         /\ UNCHANGED <<job, verdict>>
  BY DEF TimeOutNested, LeaveNested, AlarmTotal, LeaveTotal, Go, Abandoned
<1>3. LayersTyped'
  <2>1. alarm' \in [armed : BOOLEAN, handler : Handlers, saved : [Frames -> Handlers]]
    BY <1>1, <1>2 DEF LayersTyped, Disarmed, Frames, Handlers
  <2>2. job' \in [Jobs -> JobStates]
    BY <1>1, <1>2 DEF LayersTyped, JobStates
  <2>3. /\ stage' \in [Callers -> Stages]
        /\ verdict' \in [Callers -> Outcomes \cup {"exhausted"}]
    BY <1>1, <1>2 DEF LayersTyped, Stages, Outcomes, Exceptions
  <2> QED
    BY <1>1, <2>1, <2>2, <2>3 DEF LayersTyped
<1>4. ASSUME NEW d \in Callers
      PROVE  CallInv(d)' /\ LoopInv(d)'
  BY <1>1, <1>2, NumbersOfJobs DEF Inv, LayersTyped, CallInv, LoopInv, InMain
<1>5. ASSUME NEW d \in Callers
      PROVE  VerdictInv(d)'
  <2>1. CASE d = c
    BY <1>1, <1>2, <2>1
       DEF Inv, LayersTyped, LoopInv, VerdictInv, Justified, InTask, PrimaryEnded
  <2>2. CASE d # c
    BY <1>1, <1>2, <2>2 DEF Inv, LayersTyped, VerdictInv, Justified, InTask, PrimaryEnded
  <2> QED
    BY <2>1, <2>2
<1>6. ASSUME NEW d \in Callers, NEW n \in 1..MaxAttempts
      PROVE  JobInv(d, n)'
  <2>1. job'[<<d, n>>] = job[<<d, n>>]
    BY <1>1, <1>2, NumbersOfJobs DEF LayersTyped
  <2> QED
    BY <1>1, <2>1 DEF Inv, JobInv, InPool, InMain
<1> QED
  BY <1>3, <1>4, <1>5, <1>6 DEF Inv

\* The caller takes its answer: what still runs for it, it waits for no more.
LEMMA DoneKeeps ==
    ASSUME Inv, NEW c \in Callers, Done(c)
    PROVE  Inv'
<1>1. /\ LayersTyped
      /\ stage[c] = "over" /\ where[c] = "out"
      /\ stage' = [stage EXCEPT ![c] = "idle"]
      /\ attempt' = [attempt EXCEPT ![c] = 0]
      /\ heard' = [heard EXCEPT ![c] = "none"]
      /\ verdict' = [verdict EXCEPT ![c] = "none"]
      /\ answer' = [answer EXCEPT ![c] = "none"]
      /\ UNCHANGED <<mode, job, workQueue, shut, background, where, alarm>>
  BY DEF Inv, CallInv, Done, Go
<1>2. LayersTyped'
  BY <1>1, TimeoutAssumption DEF LayersTyped, Stages, Outcomes, Answers
<1>3. ASSUME NEW d \in Callers
      PROVE  CallInv(d)' /\ LoopInv(d)'
  BY <1>1, TimeoutAssumption DEF Inv, LayersTyped, CallInv, LoopInv, InMain, Loop
<1>4. ASSUME NEW d \in Callers
      PROVE  VerdictInv(d)'
  BY <1>1 DEF Inv, LayersTyped, VerdictInv, Justified, InTask, PrimaryEnded
<1>5. ASSUME NEW d \in Callers, NEW n \in 1..MaxAttempts
      PROVE  JobInv(d, n)'
  BY <1>1 DEF Inv, LayersTyped, JobInv, InPool, InMain
<1> QED
  BY <1>2, <1>3, <1>4, <1>5 DEF Inv
-----------------------------------------------------------------------------
(* What becomes of the operations.                                         *)

\* A worker takes an operation, or the pool is shut down.
LEMMA PoolKeeps ==
    ASSUME Inv, PoolStep \/ Shutdown, UNCHANGED <<retryVars, answer>>
    PROVE  Inv'
<1> DEFINE first == Head(workQueue)
<1>1. /\ LayersTyped
      /\ UNCHANGED <<mode, attempt, background, where, heard, alarm, retryVars, answer>>
  BY DEF Inv, PoolStep, Shutdown
<1>2. \/ UNCHANGED <<job, workQueue>> /\ shut' = TRUE
      \/ /\ workQueue # << >> /\ workQueue' = Tail(workQueue)
         /\ UNCHANGED shut
         /\ \/ UNCHANGED job
            \/ job[first] = "queued" /\ job' = [job EXCEPT ![first] = "running"]
  BY DEF PoolStep, Shutdown
<1>3. workQueue # << >> => first \in Jobs /\ Tail(workQueue) \in Seq(Jobs)
  BY <1>1 DEF LayersTyped
<1>4. LayersTyped'
  <2>1. job' \in [Jobs -> JobStates]
    BY <1>1, <1>2 DEF LayersTyped, JobStates
  <2>2. workQueue' \in Seq(Jobs) /\ shut' \in BOOLEAN
    BY <1>1, <1>2, <1>3 DEF LayersTyped
  <2> QED
    BY <1>1, <2>1, <2>2 DEF LayersTyped, retryVars
<1>5. \A j \in Jobs : \/ job'[j] = job[j]
                      \/ job[j] = "queued" /\ job'[j] = "running"
  BY <1>1, <1>2, <1>3 DEF LayersTyped
<1>6. ASSUME NEW d \in Callers
      PROVE  CallInv(d)' /\ LoopInv(d)' /\ VerdictInv(d)'
  <2>1. CallInv(d)' /\ VerdictInv(d)'
    BY <1>1 DEF Inv, CallInv, VerdictInv, Justified, InMain, InTask, PrimaryEnded, retryVars
  <2>2. LoopInv(d)'
    BY <1>1, <1>5, NumbersOfJobs DEF Inv, LoopInv, retryVars
  <2> QED
    BY <2>1, <2>2
<1>7. ASSUME NEW d \in Callers, NEW n \in 1..MaxAttempts
      PROVE  JobInv(d, n)'
  <2>1. <<d, n>> \in Jobs
    BY NumbersOfJobs
  <2> QED
    BY <1>1, <1>5, <2>1 DEF Inv, JobInv, InPool, InMain, retryVars
<1> QED
  BY <1>4, <1>6, <1>7 DEF Inv

\* An operation ends, and is kept only for a caller that waits for it.
LEMMA FinishKeeps ==
    ASSUME Inv, NEW j \in Jobs, NEW ending \in Endings \cup {"cancelled"},
           Finish(j, ending), UNCHANGED <<retryVars, answer>>
    PROVE  Inv'
<1>1. /\ LayersTyped
      /\ j[2] # 0
      /\ UNCHANGED <<mode, attempt, workQueue, shut, where, heard, alarm, retryVars,
                     answer>>
      /\ background' = background \ {j}
  BY DEF Inv, Finish
<1>2. PICK state \in {ending, "over"} : job' = [job EXCEPT ![j] = state]
  BY DEF Finish
<1>3. PICK c \in Callers, m \in 1..MaxAttempts : j = <<c, m>>
  BY <1>1, TimeoutAssumption DEF Jobs
<1>4. /\ ~InMain(c)
      /\ ending = "cancelled" => mode[c] = "async"
      /\ state \notin {"queued", "running", "cancelling"}
      /\ state \in JobStates
  BY <1>3, ErrorAssumption DEF Inv, JobInv, Finish, Endings, JobStates
<1>5. LayersTyped'
  <2>1. job' \in [Jobs -> JobStates]
    BY <1>1, <1>2, <1>4 DEF LayersTyped
  <2> QED
    BY <1>1, <2>1 DEF LayersTyped, retryVars
<1>6. ASSUME NEW d \in Callers
      PROVE  CallInv(d)' /\ LoopInv(d)' /\ VerdictInv(d)'
  <2>1. CallInv(d)' /\ VerdictInv(d)'
    BY <1>1 DEF Inv, CallInv, VerdictInv, Justified, InMain, InTask, PrimaryEnded, retryVars
  <2>2. job'[Loop(d)] = job[Loop(d)]
    BY <1>1, <1>2, <1>3, NumbersOfJobs DEF LayersTyped
  <2>3. LoopInv(d)'
    BY <1>1, <2>2 DEF Inv, LoopInv, Loop, retryVars
  <2> QED
    BY <2>1, <2>3
<1>7. ASSUME NEW d \in Callers, NEW n \in 1..MaxAttempts
      PROVE  JobInv(d, n)'
  <2>1. <<d, n>> \in Jobs
    BY NumbersOfJobs
  <2>2. CASE <<d, n>> = j
    <3>1. job'[<<d, n>>] = state /\ d = c
      BY <1>1, <1>2, <1>3, <2>2 DEF LayersTyped
    <3> QED
      BY <1>1, <1>2, <1>4, <3>1, ErrorAssumption DEF JobInv, InMain, Endings
  <2>3. CASE <<d, n>> # j
    <3>1. job'[<<d, n>>] = job[<<d, n>>]
      BY <1>1, <1>2, <2>1, <2>3 DEF LayersTyped
    <3> QED
      BY <1>1, <2>3, <3>1 DEF Inv, JobInv, InPool, InMain, retryVars
  <2> QED
    BY <2>2, <2>3
<1> QED
  BY <1>5, <1>6, <1>7 DEF Inv

ExecutionStep(c) ==
    TimeOut(c) \/ Return(c) \/ Cancel(c) \/ \E ending \in Endings : FinishInMain(c, ending)

\* What a step of one execution can do to the place, the outcome and the
\* operation of its caller.
LEMMA ExecutionEffect ==
    ASSUME Inv, NEW c \in Callers, ExecutionStep(c)
    PROVE  /\ where[c] # "out"
           /\ Current(c) \in Jobs /\ attempt[c] \in 1..MaxAttempts
           /\ UNCHANGED <<mode, attempt, workQueue, shut, background>>
           /\ \E w \in {"out", "waiting", "cancelled", "after"},
                 h \in Outcomes, state \in JobStates :
                /\ where' = [where EXCEPT ![c] = w]
                /\ heard' = [heard EXCEPT ![c] = h]
                /\ job' = [job EXCEPT ![Current(c)] = state]
                /\ h = "cancelled" => InTask(c)
                /\ w = "after" => InMain(c)
                /\ w = "cancelled" => mode[c] = "async"
                /\ \/ state = "over"
                   \/ /\ state = "cancelling" /\ mode[c] = "async"
                      /\ w \in {"waiting", "cancelled"}
                   \/ /\ state = job[Current(c)] /\ state # "queued"
                      /\ InPool(c) \/ mode[c] = "shield"
                   \/ state = job[Current(c)] /\ where[c] = "after"
<1>1. /\ LayersTyped
      /\ CallInv(c)
  BY DEF Inv
<1>2. /\ where[c] # "out"
      /\ UNCHANGED <<mode, attempt, workQueue, shut, background>>
  BY DEF ExecutionStep, TimeOut, TimeOutThread, TimeOutTask, TimeOutShield, Alarm,
         Return, Fetch, Finally, AlarmInFinally, Cancel, FinishInMain
<1>3. attempt[c] \in 1..MaxAttempts /\ Current(c) \in Jobs /\ JobInv(c, attempt[c])
  BY <1>1, <1>2, NumbersOfJobs DEF LayersTyped, CallInv, Current, Inv
<1>4. /\ job = [job EXCEPT ![Current(c)] = job[Current(c)]]
      /\ where = [where EXCEPT ![c] = where[c]]
      /\ heard = [heard EXCEPT ![c] = heard[c]]
      /\ job[Current(c)] \in JobStates
      /\ where[c] \in {"out", "waiting", "cancelled", "after"}
      /\ heard[c] \in Outcomes
      /\ heard[c] = "cancelled" => InTask(c)
  BY <1>1, <1>3 DEF LayersTyped, Inv, VerdictInv
<1>5. /\ {"over", "cancelling"} \subseteq JobStates
      /\ Endings \cup {"timeout", "cancelled"} \subseteq Outcomes
      /\ {"queued", "running", "cancelling", "cancelled", "over"} \cap Endings = {}
  BY ErrorAssumption DEF JobStates, Outcomes, Endings, Exceptions
<1> HIDE DEF JobStates, Outcomes
<1>6. CASE Fetch(c)
  BY <1>1, <1>3, <1>4, <1>5, <1>6 DEF Fetch, Leave, JobInv, Current, InTask
<1>7. CASE TimeOutThread(c)
  BY <1>1, <1>3, <1>4, <1>5, <1>7 DEF TimeOutThread, Leave, Abandoned
<1>8. CASE TimeOutTask(c) \/ TimeOutShield(c)
  BY <1>1, <1>3, <1>4, <1>5, <1>8 DEF TimeOutTask, TimeOutShield, Leave
<1>9. CASE Cancel(c)
  BY <1>1, <1>3, <1>4, <1>5, <1>9 DEF Cancel, Leave, Live, JobInv, Current, InTask, InPool
<1>10. CASE Alarm(c)
  BY <1>1, <1>3, <1>4, <1>5, <1>10 DEF Alarm
<1>11. CASE Finally(c) \/ AlarmInFinally(c)
  BY <1>1, <1>3, <1>4, <1>5, <1>11 DEF Finally, AlarmInFinally, Leave
<1>12. CASE \E ending \in Endings : FinishInMain(c, ending)
  BY <1>1, <1>3, <1>4, <1>5, <1>12 DEF FinishInMain
<1> QED
  BY <1>6, <1>7, <1>8, <1>9, <1>10, <1>11, <1>12 DEF ExecutionStep, TimeOut, Return

LEMMA ExecutionKeeps ==
    ASSUME Inv, NEW c \in Callers, ExecutionStep(c), UNCHANGED <<retryVars, answer>>
    PROVE  Inv'
<1>1. /\ LayersTyped
      /\ CallInv(c) /\ VerdictInv(c)
  BY DEF Inv
<1>2. /\ where[c] # "out"
      /\ Current(c) \in Jobs /\ attempt[c] \in 1..MaxAttempts
      /\ UNCHANGED <<mode, attempt, workQueue, shut, background, stage, verdict, answer>>
  BY ExecutionEffect DEF retryVars
<1>3. PICK w \in {"out", "waiting", "cancelled", "after"},
           h \in Outcomes, state \in JobStates :
        /\ where' = [where EXCEPT ![c] = w]
        /\ heard' = [heard EXCEPT ![c] = h]
        /\ job' = [job EXCEPT ![Current(c)] = state]
        /\ h = "cancelled" => InTask(c)
        /\ w = "after" => InMain(c)
        /\ w = "cancelled" => mode[c] = "async"
        /\ \/ state = "over"
           \/ /\ state = "cancelling" /\ mode[c] = "async"
              /\ w \in {"waiting", "cancelled"}
           \/ /\ state = job[Current(c)] /\ state # "queued"
              /\ InPool(c) \/ mode[c] = "shield"
           \/ state = job[Current(c)] /\ where[c] = "after"
  BY ExecutionEffect
<1>4. alarm' \in [armed : BOOLEAN, handler : Handlers, saved : [Frames -> Handlers]]
  BY <1>1 DEF ExecutionStep, TimeOut, TimeOutThread, TimeOutTask, TimeOutShield,
              Alarm, Return, Fetch, Finally, AlarmInFinally, Cancel, FinishInMain,
              Disarmed, LayersTyped, Frames, Handlers
<1>5. LayersTyped'
  BY <1>1, <1>2, <1>3, <1>4 DEF LayersTyped
<1>6. stage[c] = "trying"
  BY <1>1, <1>2 DEF CallInv
<1>7. ASSUME NEW d \in Callers
      PROVE  CallInv(d)'
  BY <1>1, <1>2, <1>3, <1>6 DEF Inv, LayersTyped, CallInv, InMain
<1>8. ASSUME NEW d \in Callers
      PROVE  LoopInv(d)'
  <2>1. job'[Loop(d)] = job[Loop(d)]
    BY <1>1, <1>2, <1>3, NumbersOfJobs DEF LayersTyped, Current
  <2> QED
    BY <1>2, <2>1 DEF Inv, LoopInv, Loop
<1>9. ASSUME NEW d \in Callers
      PROVE  VerdictInv(d)'
  BY <1>1, <1>2, <1>3, <1>6 DEF Inv, LayersTyped, VerdictInv, Justified, InTask, PrimaryEnded
<1>10. ASSUME NEW d \in Callers, NEW n \in 1..MaxAttempts
       PROVE  JobInv(d, n)'
  <2>1. <<d, n>> \in Jobs /\ JobInv(d, n)
    BY NumbersOfJobs DEF Inv
  <2>2. CASE d = c /\ n = attempt[c]
    <3>1. /\ job'[<<d, n>>] = state
          /\ where'[c] = w
      BY <1>1, <1>2, <1>3, <2>1, <2>2 DEF LayersTyped, Current
    <3> QED
      BY <1>2, <1>3, <2>1, <2>2, <3>1 DEF JobInv, Current, InPool, InMain
  <2>3. CASE ~(d = c /\ n = attempt[c])
    <3>1. job'[<<d, n>>] = job[<<d, n>>]
      BY <1>1, <1>2, <1>3, <2>1, <2>3 DEF LayersTyped, Current
    <3>2. d # c => where'[d] = where[d]
      BY <1>1, <1>3 DEF LayersTyped
    <3> QED
      BY <1>2, <2>1, <2>3, <3>1, <3>2 DEF JobInv, InPool, InMain
  <2> QED
    BY <2>2, <2>3
<1> QED
  BY <1>5, <1>7, <1>8, <1>9, <1>10 DEF Inv

-----------------------------------------------------------------------------
(* The invariant holds, and with it what the runs check.                   *)

LEMMA InvInit == Init => Inv
<1> SUFFICES ASSUME Init PROVE Inv
  OBVIOUS
<1>1. LayersTyped
  <2>1. alarm \in [armed : BOOLEAN, handler : Handlers, saved : [Frames -> Handlers]]
    BY DEF Init, TimeoutInit, Frames, Handlers
  <2>2. workQueue \in Seq(Jobs) /\ background \subseteq Jobs /\ shut \in BOOLEAN
    <3>1. << >> \in Seq(Jobs)
      OBVIOUS
    <3> QED
      BY <3>1 DEF Init, TimeoutInit
  <2> QED
    BY <2>1, <2>2, TimeoutAssumption
       DEF Init, TimeoutInit, RetryInit, FallbackInit, LayersTyped, JobStates, Outcomes,
           Stages, Answers
<1>2. ASSUME NEW c \in Callers
      PROVE  CallInv(c) /\ LoopInv(c) /\ VerdictInv(c)
  BY NumbersOfJobs, TimeoutAssumption
     DEF Init, TimeoutInit, RetryInit, FallbackInit, CallInv, LoopInv, VerdictInv
<1>3. ASSUME NEW c \in Callers, NEW n \in 1..MaxAttempts
      PROVE  JobInv(c, n)
  BY NumbersOfJobs DEF Init, TimeoutInit, JobInv
<1> QED
  BY <1>1, <1>2, <1>3 DEF Inv

LEMMA InvStep == Inv /\ [Next]_pipelineVars => Inv'
<1> SUFFICES ASSUME Inv, [Next]_pipelineVars PROVE Inv'
  OBVIOUS
<1>1. CASE \E c \in Callers : Call(c) \/ CallNested(c)
  BY <1>1, CallKeeps
<1>2. CASE \E c \in Callers : LoopStep(c)
  BY <1>2, TryKeeps, LoopKeeps DEF LoopStep
<1>3. CASE \E c \in Callers : CancelBackOff(c) /\ UNCHANGED answer
  BY <1>3, LoopKeeps
<1>4. CASE \E c \in Callers : CallerStep(c)
  BY <1>4, FallbackKeeps, DoneKeeps DEF CallerStep
<1>5. CASE \E c \in Callers :
             AlarmTotal(c) \/ LeaveTotal(c) \/ TimeOutNested(c) \/ LeaveNested(c)
  BY <1>5, OuterLimitKeeps
<1>6. CASE TimeoutNext /\ UNCHANGED <<retryVars, answer>>
  BY <1>6, PoolKeeps, FinishKeeps, ExecutionKeeps DEF TimeoutNext, ExecutionStep
<1>7. CASE UNCHANGED pipelineVars
  BY <1>7 DEF pipelineVars, timeoutVars, retryVars, Inv, LayersTyped, CallInv, LoopInv,
              VerdictInv, JobInv, Justified, PrimaryEnded, InPool, InTask, InMain
<1> QED
  BY <1>1, <1>2, <1>3, <1>4, <1>5, <1>6, <1>7 DEF Next

LEMMA RecordedStep == [Next /\ Record]_recordedVars => [Next]_pipelineVars
BY DEF recordedVars

\* A call that was cancelled waits for its operation to end as it is told, or
\* its loop has heard of the cancellation, or is over by it.
CancelInv(c) ==
    /\ cancelled[c] <=> "cancelled" \in {where[c], heard[c], verdict[c]}
    /\ where[c] \in {"waiting", "cancelled"} => heard[c] = "none"

Cancellations ==
    /\ cancelled \in [Callers -> BOOLEAN]
    /\ \A c \in Callers : CancelInv(c)

\* Nothing outlives its execution but what a pool thread already runs, or a
\* shielded task that the instance holds.
THEOREM NothingLeftBehind == Spec => []NoLeftovers
<1>1. Inv => NoLeftovers
  <2> SUFFICES ASSUME Inv, NEW j \in Jobs, Live(j), ~Wanted(j)
               PROVE  /\ job[j] = "running"
                      /\ \/ InPool(j[1])
                         \/ mode[j[1]] = "shield" /\ j \in background
    BY DEF NoLeftovers
  <2>1. PICK c \in Callers, n \in 0..MaxAttempts : j = <<c, n>>
    BY DEF Jobs
  <2>2. CASE n = 0
    BY <2>1, <2>2 DEF Inv, LoopInv, Live, Wanted, Loop, InPool
  <2>3. CASE n \in 1..MaxAttempts
    BY <2>1, <2>3 DEF Inv, JobInv, Live, Wanted, Awaited
  <2> QED
    BY <2>1, <2>2, <2>3, TimeoutAssumption
<1> QED
  BY <1>1, InvInit, InvStep, RecordedStep, PTL DEF Spec

LEMMA ModesStay == [Next]_pipelineVars => UNCHANGED mode
BY DEF Next, pipelineVars, timeoutVars, Call, LoopStep, TryOnce, Execute, Enter,
       SubmitToPool, SubmitRefused, StartTask, CallInMain, AfterAttempt, Succeed,
       Propagate, RaiseUnretried, RaiseExhausted, BackOff, WakeUp, End, CallerStep,
       FallbackStep, PrimarySucceeded, Reraise, InvokeFallback, Answer, Done,
       AlarmTotal, LeaveTotal, CallNested, TimeOutNested, LeaveNested, CancelBackOff,
       TimeoutNext, PoolStep, Shutdown, Finish, FinishInMain, TimeOut, Return, Cancel,
       TimeOutThread, TimeOutTask, TimeOutShield, Alarm, Fetch, Finally, AlarmInFinally

\* What a step does that is not one of the executions: only a new execution
\* moves its caller within execute().
LEMMA OutOfExecution ==
    ASSUME LayersTyped, [Next]_pipelineVars, ~TimeoutNext, NEW c \in Callers,
           where[c] # "out"
    PROVE  where'[c] = where[c]
<1>1. CASE \E d \in Callers : TryOnce(d)
  BY <1>1 DEF LayersTyped, TryOnce, Execute, Enter, SubmitToPool, SubmitRefused,
              StartTask, CallInMain
<1>2. CASE ~\E d \in Callers : TryOnce(d)
  BY <1>2
     DEF Next, pipelineVars, timeoutVars, Call, LoopStep, AfterAttempt, Succeed,
         Propagate, RaiseUnretried, RaiseExhausted, BackOff, WakeUp, End, CallerStep,
         FallbackStep, PrimarySucceeded, Reraise, InvokeFallback, Answer, Done,
         AlarmTotal, LeaveTotal, CallNested, TimeOutNested, LeaveNested, CancelBackOff
<1> QED
  BY <1>1, <1>2

\* A step sets the timer for a total limit or for an execution, or turns it off.
LEMMA AlarmMoves ==
    ASSUME LayersTyped, [Next]_pipelineVars, ~UNCHANGED alarm
    PROVE  \/ \E c \in Callers : Call(c) /\ mode[c] = "total"
           \/ \E c \in Callers : CallInMain(c)
           \/ ~alarm'.armed
BY DEF Next, pipelineVars, timeoutVars, Call, LoopStep, TryOnce, Execute, Enter,
       SubmitToPool, SubmitRefused, StartTask, AfterAttempt, Succeed,
       Propagate, RaiseUnretried, RaiseExhausted, BackOff, WakeUp, End, CallerStep,
       FallbackStep, PrimarySucceeded, Reraise, InvokeFallback, Answer, Done,
       AlarmTotal, LeaveTotal, CallNested, TimeOutNested, LeaveNested, CancelBackOff,
       TimeoutNext, PoolStep, Shutdown, Finish, FinishInMain, TimeOut, Return, Cancel,
       TimeOutThread, TimeOutTask, TimeOutShield, Alarm, Fetch, Finally,
       AlarmInFinally, Disarmed, LayersTyped

\* A call whose total limit runs, before its first attempt, leaves that place
\* only by setting or turning off the timer.
LEMMA ReadyStays ==
    ASSUME LayersTyped, [Next]_pipelineVars, UNCHANGED alarm, alarm.armed,
           alarm.handler = "total", NEW c \in Callers, mode[c] = "total",
           stage[c] = "ready", attempt[c] = 0
    PROVE  mode'[c] = "total" /\ stage'[c] = "ready" /\ attempt'[c] = 0
<1>1. mode[c] = "total" /\ stage[c] = "ready" /\ attempt[c] = 0
  OBVIOUS
<1>2. mode'[c] = "total"
  BY ModesStay
<1>3. CASE TryOnce(c) \/ AlarmTotal(c)
  BY <1>1, <1>3 DEF LayersTyped, TryOnce, Execute, SubmitToPool, SubmitRefused, StartTask,
                    CallInMain, InPool, InTask, Armed, AlarmTotal
<1>4. CASE \E d \in Callers : d # c /\ TryOnce(d)
  BY <1>1, <1>2, <1>4
     DEF LayersTyped, TryOnce, Execute, Enter, SubmitToPool, SubmitRefused, StartTask,
         CallInMain, Go
<1>5. CASE TimeoutNext /\ UNCHANGED <<retryVars, answer>>
  BY <1>1, <1>2, <1>5
     DEF retryVars, TimeoutNext, PoolStep, Shutdown, Finish, FinishInMain, TimeOut,
         Return, Cancel, TimeOutThread, TimeOutTask, TimeOutShield, Alarm, Fetch,
         Finally, AlarmInFinally
<1>6. CASE \E d \in Callers : \/ Call(d) \/ CallNested(d) \/ TimeOutNested(d)
                              \/ LeaveNested(d) \/ LeaveTotal(d) \/ Done(d)
                              \/ d # c /\ AlarmTotal(d)
  BY <1>1, <1>2, <1>6
     DEF LayersTyped, Call, CallNested, TimeOutNested, LeaveNested, LeaveTotal, Done,
         AlarmTotal, Begin, Go
<1>7. CASE \E d \in Callers : AfterAttempt(d) \/ CancelBackOff(d) \/ FallbackStep(d)
  BY <1>1, <1>2, <1>7
     DEF LayersTyped, AfterAttempt, Succeed, Propagate, RaiseUnretried, RaiseExhausted,
         BackOff, WakeUp, Heard, End, Go, CancelBackOff, FallbackStep,
         PrimarySucceeded, Reraise, InvokeFallback, Answer, timeoutVars, retryVars
<1>8. CASE UNCHANGED pipelineVars
  BY <1>1, <1>8 DEF pipelineVars, timeoutVars, retryVars
<1> QED
  BY <1>3, <1>4, <1>5, <1>6, <1>7, <1>8 DEF Next, LoopStep, CallerStep

\* A step keeps an alarm that is pending within the frame that has set it, or
\* disarms it: the other callers' steps touch neither, and its own caller is in
\* the main thread, where every way out of an execution goes through `finally`.
LEMMA AlarmStep == Inv /\ NoStrayAlarm /\ [Next]_pipelineVars => NoStrayAlarm'
<1> SUFFICES ASSUME Inv, NoStrayAlarm, [Next]_pipelineVars, alarm'.armed
             PROVE  \E c \in Callers : Limits(alarm.handler, c)'
  BY DEF NoStrayAlarm
<1>1. LayersTyped
  BY DEF Inv
<1>2. ASSUME NEW c \in Callers, InMain(c), where[c] = "waiting"
      PROVE  job[Current(c)] \in {"running", "over"}
  <2>1. CallInv(c) /\ attempt[c] \in 1..MaxAttempts
    BY <1>1, <1>2, TimeoutAssumption DEF Inv, LayersTyped, CallInv
  <2> QED
    BY <1>2, <2>1 DEF Inv, JobInv, Current
<1>3. CASE \E c \in Callers : Call(c) /\ mode[c] = "total"
  <2>1. PICK c \in Callers : Call(c) /\ mode[c] = "total"
    BY <1>3
  <2>2. Limits("total", c)'
    BY <1>1, <2>1 DEF Inv, CallInv, Call, Begin, Go, Limits, LayersTyped
  <2> QED
    BY <1>1, <2>1, <2>2 DEF Call, Armed
<1>4. CASE \E c \in Callers : CallInMain(c)
  <2>1. PICK c \in Callers : CallInMain(c)
    BY <1>4
  <2>2. Limits("attempt", c)'
    BY <1>1, <2>1 DEF CallInMain, Enter, InMain, Limits, LayersTyped
  <2> QED
    BY <1>1, <2>1, <2>2 DEF CallInMain, Armed
<1>5. CASE UNCHANGED alarm /\ alarm.armed
  <2>1. UNCHANGED mode
    BY ModesStay
  <2>2. ASSUME NEW c \in Callers, InMain(c), where[c] \in {"waiting", "after"}
        PROVE  where'[c] \in {"waiting", "after"}
    <3>1. CASE TimeoutNext
      <4>1. CASE PoolStep \/ Shutdown \/ \E j \in Jobs, e \in Endings \cup {"cancelled"} :
                                             Finish(j, e)
        BY <2>2, <4>1 DEF PoolStep, Shutdown, Finish
      <4>2. ASSUME NEW d \in Callers, ExecutionStep(d)
            PROVE  where'[c] \in {"waiting", "after"}
        <5>1. CASE d # c
          <6>1. \E w \in {"out", "waiting", "cancelled", "after"} :
                   where' = [where EXCEPT ![d] = w]
            BY <4>2, ExecutionEffect
          <6> QED
            BY <1>1, <2>2, <5>1, <6>1 DEF LayersTyped
        <5>2. CASE d = c
          <6>1. ~Fetch(c)
            BY <1>2, <2>2, ErrorAssumption DEF Fetch, Endings
          <6>2. ~Alarm(c) /\ ~Finally(c) /\ ~AlarmInFinally(c)
            BY <1>1, <1>5 DEF Alarm, Finally, AlarmInFinally, Disarmed, LayersTyped
          <6>3. \E e \in Endings : FinishInMain(c, e)
            BY <2>2, <4>2, <5>2, <6>1, <6>2
               DEF ExecutionStep, TimeOut, Return, TimeOutThread, TimeOutTask,
                   TimeOutShield, Cancel, InMain, InPool
          <6> QED
            BY <1>1, <6>3 DEF FinishInMain, LayersTyped
        <5> QED
          BY <5>1, <5>2
      <4> QED
        BY <3>1, <4>1, <4>2 DEF TimeoutNext, ExecutionStep
    <3>2. CASE ~TimeoutNext
      BY <1>1, <2>2, <3>2, OutOfExecution
    <3> QED
      BY <3>1, <3>2
  <2>3. ASSUME NEW c \in Callers, Limits("total", c), alarm.handler = "total"
        PROVE  Limits("total", c)'
    BY <1>1, <1>5, <2>3, ReadyStays DEF Limits
  <2> QED
    BY <1>5, <2>1, <2>2, <2>3 DEF NoStrayAlarm, Limits, InMain
<1>6. CASE ~UNCHANGED alarm
  BY <1>1, <1>3, <1>4, <1>6, AlarmMoves
<1> QED
  BY <1>3, <1>4, <1>5, <1>6

\* A pending alarm always finds the frame that has set it, and so it cannot
\* interrupt anything that this frame does not limit.
THEOREM AlarmsNeverStray == Spec => []NoStrayAlarm
<1>1. Init => NoStrayAlarm
  BY DEF Init, TimeoutInit, NoStrayAlarm
<1> QED
  BY <1>1, InvInit, InvStep, AlarmStep, RecordedStep, PTL DEF Spec

\* A call gives up only when it must, whatever its limits and operations do.
THEOREM NeverGivesUpEarly == Spec => []GivesUpOnlyWhenItMust
<1>1. Inv => GivesUpOnlyWhenItMust
  BY DEF Inv, VerdictInv, Justified, PrimaryEnded, GivesUpOnlyWhenItMust
<1> QED
  BY <1>1, InvInit, InvStep, RecordedStep, PTL DEF Spec

\* A caller whose places stay the same is not cancelled, and swallows nothing.
LEMMA Untouched ==
    ASSUME LayersTyped, NEW c \in Callers, where'[c] = where[c], stage'[c] = stage[c]
    PROVE  ~Cancel(c) /\ ~CancelBackOff(c) /\ ~Swallows(c) /\ ~Done(c)
BY DEF LayersTyped, Cancel, CancelBackOff, Swallows, Fetch, Leave, Done, End, Go

\* A step keeps the record in line with what the layers know of the
\* cancellation: it is known in one place until the call is done.
LEMMA CancelStep ==
    Inv /\ Cancellations /\ [Next /\ Record]_recordedVars => Cancellations'
<1> SUFFICES ASSUME Inv, Cancellations, [Next /\ Record]_recordedVars
             PROVE  Cancellations'
  OBVIOUS
<1>1. /\ LayersTyped
      /\ \A c \in Callers : CallInv(c) /\ VerdictInv(c) /\ CancelInv(c)
  BY DEF Inv, Cancellations
<1>2. CASE UNCHANGED recordedVars
  BY <1>2 DEF Cancellations, CancelInv, recordedVars, pipelineVars, timeoutVars, retryVars
<1>3. CASE Next /\ Record
  <2>1. /\ cancelled' \in [Callers -> BOOLEAN]
        /\ \A c \in Callers :
             cancelled'[c] <=> \/ Cancel(c) \/ CancelBackOff(c)
                               \/ cancelled[c] /\ ~Swallows(c) /\ ~Done(c)
    BY <1>3 DEF Record
  <2> SUFFICES ASSUME NEW c \in Callers
               PROVE  CancelInv(c)'
    BY <2>1 DEF Cancellations
  <2>2. ASSUME where'[c] = where[c], heard'[c] = heard[c], verdict'[c] = verdict[c],
               stage'[c] = stage[c]
        PROVE  CancelInv(c)'
    BY <1>1, <2>1, <2>2, Untouched DEF CancelInv
  <2>3. CASE \E d \in Callers : LoopStep(d)
    <3>1. PICK d \in Callers : LoopStep(d)
      BY <2>3
    <3>2. CASE d # c
      BY <1>1, <2>2, <3>1, <3>2
         DEF LayersTyped, LoopStep, TryOnce, Execute, Enter, SubmitToPool, SubmitRefused,
             StartTask, CallInMain, AfterAttempt, Succeed, Propagate, RaiseUnretried,
             RaiseExhausted, BackOff, WakeUp, End, Go, timeoutVars
    <3>3. CASE d = c /\ TryOnce(c)
      <4>1. /\ stage[c] = "ready" /\ where[c] = "out"
            /\ where'[c] \in {"out", "waiting"} /\ heard'[c] \in {"none", "refused"}
            /\ where'[c] = "waiting" => heard'[c] = "none"
            /\ verdict'[c] = verdict[c]
        BY <1>1, <3>3 DEF LayersTyped, TryOnce, Execute, Enter, SubmitToPool, SubmitRefused,
                          StartTask, CallInMain
      <4>2. ~Cancel(c) /\ ~CancelBackOff(c) /\ ~Swallows(c) /\ ~Done(c)
        BY <4>1 DEF Cancel, CancelBackOff, Swallows, Done
      <4> QED
        BY <1>1, <2>1, <4>1, <4>2 DEF CancelInv, CallInv
    <3>4. CASE d = c /\ AfterAttempt(c)
      <4>1. /\ where[c] = "out" /\ where'[c] = "out" /\ heard'[c] = heard[c]
            /\ \/ stage[c] = "trying"
               \/ stage[c] = "backoff" /\ stage'[c] = "ready"
        BY <1>1, <3>4
           DEF LayersTyped, CallInv, AfterAttempt, Succeed, Propagate, RaiseUnretried,
               RaiseExhausted, BackOff, WakeUp, Heard, End, Go, timeoutVars
      <4>2. \/ verdict'[c] = verdict[c]
            \/ verdict[c] = "none" /\ verdict'[c] = heard[c]
            \/ verdict[c] = "none" /\ verdict'[c] = "exhausted" /\ heard[c] # "cancelled"
        BY <1>1, <3>4, ErrorAssumption
           DEF LayersTyped, AfterAttempt, Succeed, Propagate, RaiseUnretried,
               RaiseExhausted, BackOff, WakeUp, Heard, End, Exceptions
      <4>3. ~Cancel(c) /\ ~CancelBackOff(c) /\ ~Swallows(c) /\ ~Done(c)
        BY <1>1, <4>1 DEF LayersTyped, Cancel, CancelBackOff, Swallows, Done, End, Go
      <4> QED
        BY <1>1, <2>1, <4>1, <4>2, <4>3 DEF CancelInv
    <3> QED
      BY <3>1, <3>2, <3>3, <3>4 DEF LoopStep
  <2>4. CASE \E d \in Callers : CancelBackOff(d)
    <3>1. PICK d \in Callers : CancelBackOff(d)
      BY <2>4
    <3>2. CASE d # c
      BY <1>1, <2>2, <3>1, <3>2 DEF LayersTyped, CancelBackOff, End, Go, timeoutVars
    <3>3. CASE d = c
      <4>1. verdict[c] = "none" /\ where[c] = "out" /\ heard[c] # "cancelled"
        BY <1>1, <3>1, <3>3 DEF CancelBackOff, CallInv, VerdictInv, InTask
      <4> QED
        BY <1>1, <2>1, <3>1, <3>3, <4>1
           DEF LayersTyped, CancelInv, CancelBackOff, End, timeoutVars
    <3> QED
      BY <3>2, <3>3
  <2>5. CASE \E d \in Callers : CallerStep(d)
    <3>1. PICK d \in Callers : CallerStep(d)
      BY <2>5
    <3>2. CASE FallbackStep(d)
      BY <1>1, <2>2, <3>2 DEF FallbackStep, PrimarySucceeded, Reraise, InvokeFallback,
                              Answer, timeoutVars, retryVars
    <3>3. CASE Done(d) /\ d # c
      BY <1>1, <2>2, <3>3 DEF LayersTyped, Done, Go
    <3>4. CASE Done(c)
      BY <1>1, <2>1, <3>4
         DEF LayersTyped, CancelInv, CallInv, Done, Cancel, CancelBackOff
    <3> QED
      BY <3>1, <3>2, <3>3, <3>4 DEF CallerStep
  <2>6. CASE \E d \in Callers : \/ Call(d) \/ CallNested(d) \/ AlarmTotal(d)
                                \/ LeaveTotal(d) \/ TimeOutNested(d) \/ LeaveNested(d)
    <3>1. PICK d \in Callers : \/ Call(d) \/ CallNested(d) \/ AlarmTotal(d)
                               \/ LeaveTotal(d) \/ TimeOutNested(d) \/ LeaveNested(d)
      BY <2>6
    <3>2. UNCHANGED <<where, heard>>
      BY <3>1 DEF Call, CallNested, AlarmTotal, LeaveTotal, TimeOutNested, LeaveNested
    <3>3. CASE d # c
      BY <1>1, <2>2, <3>1, <3>2, <3>3
         DEF LayersTyped, Call, CallNested, AlarmTotal, LeaveTotal, TimeOutNested,
             LeaveNested, Go
    <3>4. CASE d = c
      <4>1. \/ verdict'[c] = verdict[c]
            \/ verdict[c] = "none" /\ verdict'[c] # "cancelled"
        BY <1>1, <3>1, <3>4
           DEF LayersTyped, Call, CallNested, AlarmTotal, LeaveTotal, TimeOutNested,
               LeaveNested, VerdictInv, CallInv, Begin
      <4>2. stage[c] = "idle" \/ mode[c] \in {"total", "nested"}
        BY <3>1, <3>4 DEF Call, AlarmTotal, LeaveTotal, CallNested, TimeOutNested,
                          LeaveNested, Begin
      <4>3. ~Cancel(c) /\ ~CancelBackOff(c) /\ ~Swallows(c)
        BY <1>1, <3>2, <4>2
           DEF LayersTyped, CallInv, Cancel, CancelBackOff, Swallows, Fetch, Leave, InTask
      <4>4. ~Done(c)
        BY <1>1, <3>1, <3>4 DEF LayersTyped, Call, CallNested, AlarmTotal, LeaveTotal,
                                TimeOutNested, LeaveNested, Begin, Done, Go
      <4> QED
        BY <1>1, <2>1, <3>2, <4>1, <4>3, <4>4 DEF CancelInv
    <3> QED
      BY <3>3, <3>4
  <2>7. CASE TimeoutNext /\ UNCHANGED <<retryVars, answer>>
    <3>1. CASE PoolStep \/ Shutdown
               \/ \E j \in Jobs, e \in Endings \cup {"cancelled"} : Finish(j, e)
      BY <1>1, <2>2, <2>7, <3>1 DEF PoolStep, Shutdown, Finish, retryVars
    <3>2. ASSUME NEW d \in Callers, ExecutionStep(d), d # c
          PROVE  CancelInv(c)'
      <4>1. where'[c] = where[c] /\ heard'[c] = heard[c]
        BY <1>1, <3>2, ExecutionEffect DEF LayersTyped
      <4> QED
        BY <2>2, <2>7, <4>1 DEF retryVars
    <3>3. CASE ExecutionStep(c)
      <4>1. /\ verdict'[c] = verdict[c] /\ verdict[c] # "cancelled"
            /\ stage'[c] = "trying" /\ stage[c] = "trying"
        BY <1>1, <2>7, <3>3, ExecutionEffect DEF CallInv, VerdictInv, InTask, retryVars
      <4>2. ~CancelBackOff(c) /\ ~Done(c)
        BY <4>1 DEF CancelBackOff, Done
      <4>3. CASE Cancel(c)
        BY <1>1, <2>1, <4>1, <4>3 DEF LayersTyped, CancelInv, Cancel, Leave
      <4>4. CASE Fetch(c)
        <5>1. /\ where[c] \in {"waiting", "cancelled"} /\ where'[c] = "out"
              /\ heard'[c] = "cancelled" <=>
                   where[c] = "cancelled" /\ job[Current(c)] = "cancelled"
          BY <1>1, <4>4, ErrorAssumption DEF LayersTyped, Fetch, Leave, Endings
        <5>2. Swallows(c) <=> where[c] = "cancelled" /\ job[Current(c)] # "cancelled"
          BY <4>4 DEF Swallows
        <5>3. Cancel(c) => heard'[c] = "cancelled"
          BY <1>1, <5>1 DEF LayersTyped, Cancel, Leave
        <5> QED
          BY <1>1, <2>1, <4>1, <4>2, <5>1, <5>2, <5>3 DEF CancelInv
      <4>5. CASE TimeOutThread(c) \/ TimeOutTask(c) \/ TimeOutShield(c)
        <5>1. /\ where[c] = "waiting"
              /\ \/ where'[c] = "waiting" /\ heard'[c] = heard[c]
                 \/ where'[c] = "out" /\ heard'[c] = "timeout"
          BY <1>1, <4>5 DEF LayersTyped, TimeOutThread, TimeOutTask, TimeOutShield, Leave
        <5>2. ~Cancel(c) /\ ~Swallows(c)
          BY <1>1, <5>1 DEF LayersTyped, Cancel, Leave, Swallows
        <5> QED
          BY <1>1, <2>1, <4>1, <4>2, <5>1, <5>2 DEF CancelInv
      <4>6. CASE InMain(c)
        <5>1. heard[c] # "cancelled" /\ where[c] # "cancelled" /\ ~Cancel(c)
          BY <1>1, <4>6 DEF VerdictInv, CallInv, InMain, InTask, Cancel
        <5>2. heard'[c] # "cancelled" /\ where'[c] \in {"out", "after"}
          BY <1>1, <3>3, <4>6, <5>1, ErrorAssumption
             DEF ExecutionStep, TimeOut, TimeOutThread, TimeOutTask, TimeOutShield,
                 Alarm, Return, Fetch, Finally, AlarmInFinally, Cancel, FinishInMain,
                 Leave, InMain, InPool, LayersTyped, Endings
        <5>3. ~Swallows(c)
          BY <5>1 DEF Swallows
        <5> QED
          BY <1>1, <2>1, <4>1, <4>2, <5>1, <5>2, <5>3 DEF CancelInv
      <4> QED
        BY <3>3, <4>3, <4>4, <4>5, <4>6
           DEF ExecutionStep, TimeOut, Return, Alarm, Finally, AlarmInFinally, FinishInMain
    <3> QED
      BY <2>7, <3>1, <3>2, <3>3 DEF TimeoutNext, ExecutionStep
  <2> QED
    BY <1>3, <2>3, <2>4, <2>5, <2>6, <2>7 DEF Next
<1> QED
  BY <1>2, <1>3

\* Every variable keeps its type: no caller's attempts exceed the limit, and the
\* timer's handlers are those of the frames.
THEOREM TypeCorrect == Spec => []TypeOK
<1>1. Init => Cancellations
  BY DEF Init, TimeoutInit, RetryInit, Cancellations, CancelInv
<1>2. Inv /\ Cancellations => TypeOK
  BY DEF Inv, Cancellations, TypeOK
<1> QED
  BY <1>1, <1>2, InvInit, InvStep, CancelStep, RecordedStep, PTL DEF Spec

\* A cancellation goes through the retry and the fallback, provided that the
\* fallback is not told to answer it: CancelledError is no Exception, so that
\* the default of fallback_on does not.
THEOREM CancellationsPropagate ==
    ASSUME ~ShouldFallback("cancelled")
    PROVE  Spec => []CancellationPropagates
<1>1. Init => Cancellations
  BY DEF Init, TimeoutInit, RetryInit, Cancellations, CancelInv
<1>2. Inv /\ Cancellations => CancellationPropagates
  BY DEF Inv, CallInv, VerdictInv, PrimaryEnded, InTask, Cancellations, CancelInv,
         CancellationPropagates
<1> QED
  BY <1>1, <1>2, InvInit, InvStep, CancelStep, RecordedStep, PTL DEF Spec
=============================================================================
