----------------------------- MODULE RateLimiter -----------------------------
(***************************************************************************)
(* One RateLimiter instance (src/pysilience/ratelimiter.py) shared by       *)
(* callers of acquire() and acquire_async(), which differ only in how they  *)
(* sleep.  The sections under _lock are atomic but for one place: the       *)
(* sliding window reads the clock twice, and the thread may lose the CPU in *)
(* between while it holds the lock.                                         *)
(*                                                                         *)
(* The meter (phase, inWindow, since, granted) is not in the code: it       *)
(* counts the permits granted in the current period of the wall clock, and  *)
(* since an arbitrary moment.                                               *)
(***************************************************************************)
EXTENDS RateLimitStrategies, FiniteSets

CONSTANTS
    Callers,
    InUse,      \* the algorithms to consider
    Timeout,    \* timeout_duration, in ticks
    Horizon     \* bound on the length of a measurement, in ticks

ASSUME LimiterAssumption ==
    /\ IsFiniteSet(Callers)
    /\ InUse \subseteq Algorithms
    /\ Timeout \in Nat /\ Horizon \in Nat

VARIABLES
    strategy,   \* _strategy
    pc,         \* where each caller is
    patience,   \* ticks until each caller's deadline
    nap,        \* ticks each sleeping caller has yet to sleep
    phase,      \* ticks into the current period since the start
    inWindow,   \* permits granted in this period
    since,      \* ticks since the measurement began
    granted     \* permits granted since

meter == <<phase, inWindow, since, granted>>
vars == <<strategy, pc, patience, nap, meter>>

Init ==
    /\ strategy \in {Fresh(algorithm) : algorithm \in InUse}
    /\ pc = [c \in Callers |-> "idle"]
    /\ patience = [c \in Callers |-> 0]
    /\ nap = [c \in Callers |-> 0]
    /\ phase = 0 /\ inWindow = 0 /\ since = 0 /\ granted = 0

Goto(c, label) == pc' = [pc EXCEPT ![c] = label]

LockFree == \A c \in Callers : pc[c] # "weighing"

Start(c) ==
    /\ pc[c] = "idle"
    /\ Goto(c, "asking")
    /\ patience' = [patience EXCEPT ![c] = Timeout]
    /\ UNCHANGED <<strategy, nap, meter>>

\* A caller takes the lock for one round of the loop.
Ready(c) == pc[c] = "asking" /\ nap[c] = 0 /\ LockFree

-----------------------------------------------------------------------------
(* The three ways a round ends, the strategy s having been brought up to    *)
(* date.                                                                    *)

Grant(c, s) ==
    /\ Allows(s)
    /\ strategy' = Taken(s)
    /\ Goto(c, "running")
    /\ patience' = [patience EXCEPT ![c] = 0]
    /\ inWindow' = inWindow + 1
    /\ granted' = granted + 1
    /\ UNCHANGED <<nap, phase, since>>

\* seconds_until_available brings the strategy up to date once more.
Reject(c, s) ==
    /\ ~Allows(s)
    /\ patience[c] = 0
    /\ strategy' = Refreshed(s)
    /\ Goto(c, "idle")
    /\ UNCHANGED <<patience, nap, meter>>

\* Mutation: the deadline is taken anew in every round.
DeadlineAfterRoundRenewed(c) == [patience EXCEPT ![c] = Timeout]

DeadlineAfterRound(c) == patience

Sleep(c, s) ==
    /\ ~Allows(s)
    /\ patience[c] > 0
    /\ strategy' = Refreshed(s)
    /\ nap' = [nap EXCEPT ![c] =
                 Least(SecondsUntilAvailable(Refreshed(s)), patience[c])]
    /\ Goto(c, "asking")
    /\ patience' = DeadlineAfterRound(c)
    /\ UNCHANGED meter

Decide(c, s) == Grant(c, s) \/ Reject(c, s) \/ Sleep(c, s)

Round(c) == Ready(c) /\ Decide(c, Refreshed(strategy))

\* The sliding window between its two clock readings, and after the second.
Advance(c) ==
    /\ Ready(c)
    /\ strategy.algorithm = "sliding"
    /\ strategy' = Refreshed(strategy)
    /\ Goto(c, "weighing")
    /\ UNCHANGED <<patience, nap, meter>>

Weigh(c) == pc[c] = "weighing" /\ Decide(c, strategy)

-----------------------------------------------------------------------------
\* The operation ends; its event reads available_permits, which brings the
\* strategy up to date, unless a BaseException left no event.
Finish(c) ==
    /\ pc[c] = "running"
    /\ LockFree
    /\ strategy' \in {Refreshed(strategy), strategy}
    /\ Goto(c, "idle")
    /\ UNCHANGED <<patience, nap, meter>>

\* An asyncio.sleep is cancelled.
CancelSleep(c) ==
    /\ pc[c] = "asking"
    /\ nap[c] > 0
    /\ Goto(c, "idle")
    /\ nap' = [nap EXCEPT ![c] = 0]
    /\ patience' = [patience EXCEPT ![c] = 0]
    /\ UNCHANGED <<strategy, meter>>

CountDown(clock) == [c \in Callers |-> Most(clock[c] - 1, 0)]

Tick ==
    /\ strategy' = AgedBy(strategy, 1)
    /\ patience' = CountDown(patience)
    /\ nap' = CountDown(nap)
    /\ phase' = (phase + 1) % Period
    /\ inWindow' = IF phase + 1 = Period THEN 0 ELSE inWindow
    /\ since' = IF since < Horizon THEN since + 1 ELSE 0
    /\ granted' = IF since < Horizon THEN granted ELSE 0
    /\ UNCHANGED pc

\* A measurement may begin at any moment.
Measure ==
    /\ since' = 0 /\ granted' = 0
    /\ UNCHANGED <<strategy, pc, patience, nap, phase, inWindow>>

Next ==
    \/ \E c \in Callers : \/ Start(c) \/ Round(c) \/ Advance(c) \/ Weigh(c)
                          \/ Finish(c) \/ CancelSleep(c)
    \/ Tick
    \/ Measure

Spec == Init /\ [][Next]_vars

\* Time passes, whoever has the lock goes on, and a caller that keeps trying
\* for the lock gets it some time.
FairSpec ==
    /\ Spec
    /\ WF_vars(Tick)
    /\ \A c \in Callers : WF_vars(Weigh(c)) /\ SF_vars(Round(c))

-----------------------------------------------------------------------------
States ==
    [algorithm : {"token"}, tokens : 0..Capacity, age : 0..Period]
      \cup [algorithm : {"leaky"}, wait : 0..Period]
      \cup [algorithm : {"fixed"}, count : 0..Limit, age : 0..(3 * Period - 1)]
      \cup [algorithm : {"sliding"}, prev : 0..Limit, curr : 0..Limit,
            age : 0..(3 * Period - 1)]

\* Every variable has its type; at most one caller holds the lock.
TypeOK ==
    /\ strategy \in States
    /\ pc \in [Callers -> {"idle", "asking", "weighing", "running"}]
    /\ patience \in [Callers -> 0..Timeout]
    /\ nap \in [Callers -> 0..Timeout]
    /\ phase \in 0..(Period - 1) /\ since \in 0..Horizon
    /\ inWindow \in Nat /\ granted \in Nat
    /\ \A c, d \in Callers : pc[c] = "weighing" /\ pc[d] = "weighing" => c = d

\* "Number of permits available in each period" (147): the window algorithms
\* grant at most the limit in any period counted from the start, whenever calls
\* arrive and the windows are brought up to date.  The sliding window may grant
\* one more: a thread that loses the CPU between its readings uses the present
\* time on the counts of a window long past.
PeriodLimit ==
    /\ strategy.algorithm = "fixed" => inWindow <= Limit
    /\ strategy.algorithm = "sliding" => inWindow <= Limit + 1

\* What is granted in any stretch of time, begun at any moment (118-129).
\* Token bucket: one burst and the rate.  Leaky bucket: one permit and the
\* rate, as nothing is saved up.  Fixed window: the limit for each period
\* touched, twice the limit at a boundary.  Sliding window: as the token
\* bucket, and one permit more for a thread preempted between its readings.
GrantsWithinCurve ==
    CASE strategy.algorithm = "token" ->
           granted * Period <= Capacity + since * Limit
      [] strategy.algorithm = "leaky" ->
           granted * Period <= Period + since * Limit
      [] strategy.algorithm = "fixed" ->
           granted <= Limit * (since \div Period + 2)
      [] strategy.algorithm = "sliding" ->
           granted * Period <= Capacity + Period + since * Limit

PermitAfter(ticks) == Allows(Refreshed(AgedBy(strategy, ticks)))
Estimate == SecondsUntilAvailable(Refreshed(strategy))

\* The estimate the loop sleeps by is never too long: no permit is free before
\* it, left alone.  But for the sliding window it is never too short either,
\* so that an undisturbed sleeper is granted its permit when it wakes: that
\* one stops at the end of the window (396), where the weight of a full window
\* leaves no room yet, and the sleeper must ask again.
WaitTimeExact ==
    \A ticks \in 0..(3 * Period) :
        /\ PermitAfter(ticks) => ticks >= Estimate
        /\ strategy.algorithm # "sliding" /\ ticks >= Estimate
             => PermitAfter(ticks)

\* Bringing a strategy up to date early, as every look at it does, changes no
\* later decision: watching the limiter does not disturb it.
ReadingIsHarmless ==
    \A ticks \in 0..(3 * Period) :
        PermitAfter(ticks)
          <=> Allows(Refreshed(AgedBy(Refreshed(strategy), ticks)))

\* Every caller is granted a permit or turned away: however often others take
\* the permit it slept for, its deadline comes.
EveryAcquireAnswered ==
    \A c \in Callers : pc[c] \in {"asking", "weighing"}
                         ~> pc[c] \in {"idle", "running"}
=============================================================================
