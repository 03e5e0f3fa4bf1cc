------------------------ MODULE RateLimitStrategies ------------------------
(***************************************************************************)
(* The four strategies of src/pysilience/ratelimiter.py as functions on a   *)
(* strategy's state, a record whose field `algorithm` names its class.      *)
(*                                                                         *)
(* Time.  A strategy only ever looks at the time passed since an event of   *)
(* its own (last refill, window start, next allowed request), so its state  *)
(* holds that span, in ticks, saturated where no operation can tell longer  *)
(* spans apart.  Fractions are exact: tokens are counted in units of        *)
(* 1/Period of a token, the leaky bucket's wait in 1/Limit of a tick.       *)
(***************************************************************************)
EXTENDS Integers

CONSTANTS
    Limit,      \* limit_for_period
    Period      \* limit_refresh_period, in ticks

\* What RateLimiterConfig.__post_init__ enforces of them.
LegalRate == Limit \in Nat \ {0} /\ Period \in Nat \ {0}

ASSUME RateAssumption == LegalRate

Algorithms == {"token", "leaky", "fixed", "sliding"}

Least(a, b) == IF a <= b THEN a ELSE b
Most(a, b) == IF a >= b THEN a ELSE b
\* The first tick at or after num/den ticks.
Ceil(num, den) == (num + den - 1) \div den

Capacity == Limit * Period

Fresh(algorithm) ==
    CASE algorithm = "token" ->
           [algorithm |-> "token", tokens |-> Capacity, age |-> 0]
      [] algorithm = "leaky" -> [algorithm |-> "leaky", wait |-> 0]
      [] algorithm = "fixed" -> [algorithm |-> "fixed", count |-> 0, age |-> 0]
      [] algorithm = "sliding" ->
           [algorithm |-> "sliding", prev |-> 0, curr |-> 0, age |-> 0]

\* Time passes.  A token bucket is full after one period; a window that is
\* two periods old is distinguished from one that is one period old.
WindowAge(age) == IF age < 3 * Period THEN age ELSE 2 * Period + (age % Period)

AgedBy(s, ticks) ==
    CASE s.algorithm = "token" ->
           [s EXCEPT !.age = Least(s.age + ticks, Period)]
      [] s.algorithm = "leaky" ->
           [s EXCEPT !.wait = Most(s.wait - ticks * Limit, 0)]
      [] s.algorithm \in {"fixed", "sliding"} ->
           [s EXCEPT !.age = WindowAge(s.age + ticks)]

-----------------------------------------------------------------------------
(* The lazy update at the head of every operation: _refill, _maybe_advance. *)

\* Mutation: _last_refill is not moved, and the same span refills again.
RefilledKeepingAge(s) ==
    [s EXCEPT !.tokens = Least(Capacity, s.tokens + s.age * Limit)]

Refilled(s) ==
    [s EXCEPT !.tokens = Least(Capacity, s.tokens + s.age * Limit), !.age = 0]

\* Mutation: the window restarts at the call and not at the period boundary.
WindowsPassedToNow(s) == [s EXCEPT !.age = 0]

\* _window_start moves by whole periods.
WindowsPassed(s) == [s EXCEPT !.age = s.age % Period]

\* Mutation: the last window counts as the previous one however long ago.
PreviousCountAlways(s) == s.curr

PreviousCount(s) == IF s.age \div Period = 1 THEN s.curr ELSE 0

Refreshed(s) ==
    CASE s.algorithm = "token" -> Refilled(s)
      [] s.algorithm = "leaky" -> s
      [] s.algorithm \in {"fixed", "sliding"} /\ s.age < Period -> s
      [] s.algorithm = "fixed" /\ s.age >= Period ->
           [WindowsPassed(s) EXCEPT !.count = 0]
      [] s.algorithm = "sliding" /\ s.age >= Period ->
           [WindowsPassed(s) EXCEPT !.prev = PreviousCount(s), !.curr = 0]

-----------------------------------------------------------------------------
(* try_acquire and seconds_until_available, after the update.              *)

\* _weighted_count, in units of 1/Period of a permit.  It reads the clock
\* anew, and a window older than a period gives a negative weight.
Weighted(s) == s.prev * (Period - s.age) + s.curr * Period

Allows(s) ==
    CASE s.algorithm = "token"   -> s.tokens >= Period
      [] s.algorithm = "leaky"   -> s.wait = 0
      [] s.algorithm = "fixed"   -> s.count < Limit
      [] s.algorithm = "sliding" -> Weighted(s) + Period <= Capacity

Taken(s) ==
    CASE s.algorithm = "token"   -> [s EXCEPT !.tokens = s.tokens - Period]
      [] s.algorithm = "leaky"   -> [s EXCEPT !.wait = Period]
      [] s.algorithm = "fixed"   -> [s EXCEPT !.count = s.count + 1]
      [] s.algorithm = "sliding" -> [s EXCEPT !.curr = s.curr + 1]

\* Mutation: the whole period, wherever in the window the call is.
UntilNextWindowFromNow(s) == Period

UntilNextWindow(s) == Most(0, Period - s.age)

\* Until the previous window's weight has fallen by what is in excess.
UntilWeightFalls(s) == Ceil(Weighted(s) + Period - Capacity, s.prev)

\* The estimate, rounded up to whole ticks.
SecondsUntilAvailable(s) ==
    CASE Allows(s) -> 0
      [] ~Allows(s) /\ s.algorithm = "token" -> Ceil(Period - s.tokens, Limit)
      [] ~Allows(s) /\ s.algorithm = "leaky" -> Ceil(s.wait, Limit)
      [] ~Allows(s) /\ s.algorithm = "fixed" -> UntilNextWindow(s)
      [] ~Allows(s) /\ s.algorithm = "sliding" ->
           IF s.prev > 0
             THEN Least(Most(0, UntilWeightFalls(s)), UntilNextWindow(s))
             ELSE UntilNextWindow(s)
=============================================================================
