------------------------- MODULE RateLimiterProofs -------------------------
(***************************************************************************)
(* Proofs about RateLimiter and its four strategies, for any limit, period, *)
(* timeout, number of callers and length of a measurement.                 *)
(***************************************************************************)
EXTENDS RateLimiter, TLAPS

-----------------------------------------------------------------------------
(* Division.                                                               *)

LEMMA Division ==
    ASSUME NEW x \in Int, NEW d \in Nat \ {0}
    PROVE  /\ x \div d \in Int /\ x % d \in 0..(d - 1)
           /\ x = d * (x \div d) + (x % d)
OBVIOUS

\* Quotient and remainder are the only ones there are.
LEMMA DivisionUnique ==
    ASSUME NEW x \in Int, NEW d \in Nat \ {0}, NEW q \in Int, NEW r \in 0..(d - 1),
           x = d * q + r
    PROVE  x \div d = q /\ x % d = r
<1> DEFINE p == x \div d
<1>1. x = d * p + (x % d) /\ p \in Int /\ x % d \in 0..(d - 1)
  BY Division
<1> HIDE DEF p
<1>2. CASE p >= q + 1
  <2>1. d * p >= d * q + d
    BY <1>1, <1>2
  <2> QED
    BY <1>1, <2>1
<1>3. CASE q >= p + 1
  <2>1. d * q >= d * p + d
    BY <1>1, <1>3
  <2> QED
    BY <1>1, <2>1
<1> QED
  BY <1>1, <1>2, <1>3 DEF p

\* A time is not before the rounded-up quotient exactly if it is long enough.
LEMMA CeilIsLeast ==
    ASSUME NEW num \in Int, NEW den \in Nat \ {0}, NEW t \in Int
    PROVE  Ceil(num, den) \in Int /\ (t >= Ceil(num, den) <=> t * den >= num)
<1> DEFINE q == Ceil(num, den)
<1>1. q \in Int /\ den * q <= num + den - 1 /\ num + den - 1 < den * q + den
  BY Division DEF Ceil
<1> HIDE DEF q
<1>2. t >= q => t * den >= den * q
  BY <1>1
<1>3. t <= q - 1 => t * den <= den * q - den
  BY <1>1
<1> QED
  BY <1>1, <1>2, <1>3 DEF q

-----------------------------------------------------------------------------
(* The strategies, by their fields.                                        *)

TokenStates == [algorithm : {"token"}, tokens : 0..Capacity, age : 0..Period]
LeakyStates == [algorithm : {"leaky"}, wait : 0..Period]
FixedStates == [algorithm : {"fixed"}, count : 0..Limit, age : 0..(3 * Period - 1)]
SlidingStates == [algorithm : {"sliding"}, prev : 0..Limit, curr : 0..Limit,
                  age : 0..(3 * Period - 1)]

LEMMA Kinds ==
    /\ States = TokenStates \cup LeakyStates \cup FixedStates \cup SlidingStates
    /\ Limit \in Nat \ {0} /\ Period \in Nat \ {0}
    /\ Capacity \in Nat /\ Capacity >= Period /\ Capacity >= Limit
BY RateAssumption
   DEF LegalRate, States, TokenStates, LeakyStates, FixedStates, SlidingStates, Capacity

\* A token bucket: what it holds once the time since its last refill counts.
Effective(s) == Least(Capacity, s.tokens + s.age * Limit)

LEMMA TokenOperations ==
    ASSUME NEW s \in TokenStates
    PROVE  /\ Effective(s) \in 0..Capacity
           /\ Refreshed(s) = [algorithm |-> "token", tokens |-> Effective(s), age |-> 0]
           /\ Refreshed(s) \in TokenStates
           /\ Effective(Refreshed(s)) = Effective(s)
           /\ Allows(s) <=> s.tokens >= Period
           /\ Allows(s) => /\ Taken(s) = [s EXCEPT !.tokens = s.tokens - Period]
                           /\ Taken(s) \in TokenStates
           /\ AgedBy(s, 1) \in TokenStates
           /\ Effective(AgedBy(s, 1)) <= Effective(s) + Limit
<1>1. s.algorithm = "token" /\ s.tokens \in 0..Capacity /\ s.age \in 0..Period
  BY DEF TokenStates
<1>2. s.age * Limit \in Nat
  BY <1>1, Kinds
<1>3. Effective(s) \in 0..Capacity
  BY <1>1, <1>2, Kinds DEF Effective, Least
<1>4. Refreshed(s) = [algorithm |-> "token", tokens |-> Effective(s), age |-> 0]
  BY <1>1 DEF Refreshed, Refilled, Effective, TokenStates
<1>5. Refreshed(s) \in TokenStates /\ Effective(Refreshed(s)) = Effective(s)
  BY <1>3, <1>4, Kinds DEF TokenStates, Effective, Least
<1>6. Allows(s) <=> s.tokens >= Period
  BY <1>1 DEF Allows
<1>7. Allows(s) => /\ Taken(s) = [s EXCEPT !.tokens = s.tokens - Period]
                   /\ Taken(s) \in TokenStates
  BY <1>1, <1>6, Kinds DEF Taken, TokenStates
<1>8. AgedBy(s, 1) = [s EXCEPT !.age = Least(s.age + 1, Period)]
  BY <1>1 DEF AgedBy
<1>9. AgedBy(s, 1) \in TokenStates
  BY <1>1, <1>8, Kinds DEF TokenStates, Least
<1>10. Effective(AgedBy(s, 1)) <= Effective(s) + Limit
  <2>1. AgedBy(s, 1).age <= s.age + 1 /\ AgedBy(s, 1).tokens = s.tokens
        /\ AgedBy(s, 1).age \in Nat
    BY <1>1, <1>8, Kinds DEF TokenStates, Least
  <2>2. AgedBy(s, 1).age * Limit <= s.age * Limit + Limit
    BY <1>1, <2>1, Kinds
  <2>3. AgedBy(s, 1).age * Limit \in Nat
    BY <2>1, Kinds
  <2> QED
    BY <1>1, <1>2, <2>1, <2>2, <2>3, Kinds DEF Effective, Least
<1> QED
  BY <1>3, <1>4, <1>5, <1>6, <1>7, <1>9, <1>10

\* A leaky bucket.
LEMMA LeakyOperations ==
    ASSUME NEW s \in LeakyStates
    PROVE  /\ Refreshed(s) = s
           /\ Allows(s) <=> s.wait = 0
           /\ Taken(s) = [s EXCEPT !.wait = Period]
           /\ Taken(s) \in LeakyStates
           /\ AgedBy(s, 1) = [s EXCEPT !.wait = Most(s.wait - Limit, 0)]
           /\ AgedBy(s, 1) \in LeakyStates
<1>1. s.algorithm = "leaky" /\ s.wait \in 0..Period
  BY DEF LeakyStates
<1>2. Refreshed(s) = s /\ (Allows(s) <=> s.wait = 0)
  BY <1>1 DEF Refreshed, Allows
<1>3. Taken(s) = [s EXCEPT !.wait = Period] /\ Taken(s) \in LeakyStates
  BY <1>1, Kinds DEF Taken, LeakyStates
<1>4. AgedBy(s, 1) = [s EXCEPT !.wait = Most(s.wait - Limit, 0)]
  BY <1>1, Kinds DEF AgedBy
<1>5. AgedBy(s, 1) \in LeakyStates
  BY <1>1, <1>4, Kinds DEF LeakyStates, Most
<1> QED
  BY <1>2, <1>3, <1>4, <1>5

\* How many periods an age has, and what is left of the last one.
LEMMA AgeInPeriods ==
    ASSUME NEW age \in Nat
    PROVE  /\ age % Period \in 0..(Period - 1)
           /\ age < Period => age % Period = age /\ age \div Period = 0
           /\ age >= Period /\ age < 2 * Period =>
                age % Period = age - Period /\ age \div Period = 1
           /\ age >= 2 * Period /\ age < 3 * Period =>
                age % Period = age - 2 * Period /\ age \div Period = 2
           /\ age >= 2 * Period => age \div Period # 1
<1>1. age % Period \in 0..(Period - 1) /\ age \div Period \in Int
      /\ age = Period * (age \div Period) + (age % Period)
  BY Division, Kinds
<1>2. age < Period => age % Period = age /\ age \div Period = 0
  BY DivisionUnique, Kinds
<1>3. age >= Period /\ age < 2 * Period =>
        age % Period = age - Period /\ age \div Period = 1
  BY DivisionUnique, Kinds
<1>4. age >= 2 * Period /\ age < 3 * Period =>
        age % Period = age - 2 * Period /\ age \div Period = 2
  BY DivisionUnique, Kinds
<1>5. age >= 2 * Period => age \div Period # 1
  BY <1>1, Kinds
<1> QED
  BY <1>1, <1>2, <1>3, <1>4, <1>5

\* One tick more, of an age that is kept within three periods.
LEMMA NextAge ==
    ASSUME NEW age \in 0..(3 * Period - 1)
    PROVE  /\ WindowAge(age + 1) = IF age + 1 < 3 * Period THEN age + 1 ELSE 2 * Period
           /\ WindowAge(age + 1) \in 0..(3 * Period - 1)
           /\ WindowAge(age + 1) % Period
                = IF (age % Period) + 1 = Period THEN 0 ELSE (age % Period) + 1
<1>1. (3 * Period) % Period = 0
  BY DivisionUnique, Kinds
<1>2. WindowAge(age + 1) = IF age + 1 < 3 * Period THEN age + 1 ELSE 2 * Period
  <2>1. CASE age + 1 < 3 * Period
    BY <2>1 DEF WindowAge
  <2>2. CASE age + 1 = 3 * Period
    <3>1. WindowAge(3 * Period) = 2 * Period + ((3 * Period) % Period)
      BY Kinds DEF WindowAge
    <3> QED
      BY <1>1, <2>2, <3>1, Kinds
  <2> QED
    BY <2>1, <2>2, Kinds
<1>3. WindowAge(age + 1) \in 0..(3 * Period - 1)
  BY <1>2, Kinds
<1>4. (2 * Period) % Period = 0
  BY DivisionUnique, Kinds
<1>5. age \in Nat /\ age + 1 \in Nat
  BY Kinds
<1>6. CASE age + 1 < Period
  BY <1>2, <1>5, <1>6, AgeInPeriods, Kinds
<1>7. CASE age + 1 = Period
  <2>1. age % Period = age /\ (age + 1) % Period = (age + 1) - Period
    BY <1>5, <1>7, AgeInPeriods, Kinds
  <2> QED
    BY <1>2, <1>5, <1>7, <2>1, Kinds
<1>8. CASE age + 1 > Period /\ age + 1 < 2 * Period
  <2>1. age % Period = age - Period /\ (age + 1) % Period = (age + 1) - Period
    BY <1>5, <1>8, AgeInPeriods, Kinds
  <2> QED
    BY <1>2, <1>5, <1>8, <2>1, Kinds
<1>9. CASE age + 1 = 2 * Period
  <2>1. age % Period = age - Period /\ (age + 1) % Period = (age + 1) - 2 * Period
    BY <1>5, <1>9, AgeInPeriods, Kinds
  <2> QED
    BY <1>2, <1>5, <1>9, <2>1, Kinds
<1>10. CASE age + 1 > 2 * Period
  <2>1. age >= 2 * Period /\ age < 3 * Period
    BY <1>5, <1>10, Kinds
  <2>2. age % Period = age - 2 * Period
    BY <1>5, <2>1, AgeInPeriods
  <2>3. age + 1 < 3 * Period => (age + 1) % Period = (age + 1) - 2 * Period
    BY <1>5, <1>10, AgeInPeriods, Kinds
  <2> QED
    BY <1>2, <1>4, <1>5, <1>10, <2>1, <2>2, <2>3, Kinds
<1> QED
  BY <1>2, <1>3, <1>5, <1>6, <1>7, <1>8, <1>9, <1>10, Kinds

\* A fixed window.
LEMMA FixedOperations ==
    ASSUME NEW s \in FixedStates
    PROVE  /\ s.age < Period => Refreshed(s) = s
           /\ s.age >= Period =>
                Refreshed(s) = [algorithm |-> "fixed", count |-> 0, age |-> s.age % Period]
           /\ Refreshed(s) \in FixedStates
           /\ Refreshed(s).age < Period
           /\ Allows(s) <=> s.count < Limit
           /\ Taken(s) = [s EXCEPT !.count = s.count + 1]
           /\ Allows(s) => Taken(s) \in FixedStates
           /\ AgedBy(s, 1) = [s EXCEPT !.age = WindowAge(s.age + 1)]
           /\ AgedBy(s, 1) \in FixedStates
<1>1. s.algorithm = "fixed" /\ s.count \in 0..Limit /\ s.age \in 0..(3 * Period - 1)
  BY DEF FixedStates
<1>2. s.age % Period \in 0..(Period - 1) /\ Period <= 3 * Period - 1
  BY <1>1, AgeInPeriods, Kinds
<1>3. s.age < Period => Refreshed(s) = s
  <2>1. s.age < Period => ~(s.age >= Period)
    BY <1>1, Kinds
  <2> QED
    BY <1>1, <2>1 DEF Refreshed
<1>4. s.age >= Period =>
        Refreshed(s) = [algorithm |-> "fixed", count |-> 0, age |-> s.age % Period]
  <2> SUFFICES ASSUME s.age >= Period
               PROVE  Refreshed(s)
                        = [algorithm |-> "fixed", count |-> 0, age |-> s.age % Period]
    OBVIOUS
  <2>1. ~(s.age < Period)
    BY <1>1, Kinds
  <2>2. Refreshed(s) = [WindowsPassed(s) EXCEPT !.count = 0]
    BY <1>1, <2>1 DEF Refreshed
  <2> QED
    BY <2>2 DEF WindowsPassed, FixedStates
<1>5. Refreshed(s) \in FixedStates /\ Refreshed(s).age < Period
  BY <1>1, <1>2, <1>3, <1>4, Kinds DEF FixedStates
<1>6. (Allows(s) <=> s.count < Limit) /\ Taken(s) = [s EXCEPT !.count = s.count + 1]
  BY <1>1 DEF Allows, Taken
<1>7. Allows(s) => Taken(s) \in FixedStates
  BY <1>1, <1>6, Kinds DEF FixedStates
<1>8. AgedBy(s, 1) = [s EXCEPT !.age = WindowAge(s.age + 1)]
  BY <1>1 DEF AgedBy
<1>9. AgedBy(s, 1) \in FixedStates
  BY <1>1, <1>8, NextAge DEF FixedStates
<1> QED
  BY <1>3, <1>4, <1>5, <1>6, <1>7, <1>8, <1>9

\* The sliding window's weighted count, as the next reading will find it.
Level(s) ==
    IF s.age < Period THEN Weighted(s)
    ELSE IF s.age < 2 * Period THEN s.curr * (2 * Period - s.age)
    ELSE 0

\* A sliding window.
LEMMA SlidingOperations ==
    ASSUME NEW s \in SlidingStates
    PROVE  /\ s.age < Period => Refreshed(s) = s
           /\ s.age >= Period =>
                Refreshed(s) = [algorithm |-> "sliding",
                                prev |-> IF s.age < 2 * Period THEN s.curr ELSE 0,
                                curr |-> 0, age |-> s.age % Period]
           /\ Refreshed(s) \in SlidingStates
           /\ Refreshed(s).age < Period
           /\ Level(Refreshed(s)) = Level(s)
           /\ Allows(s) <=> Weighted(s) + Period <= Capacity
           /\ Taken(s) = [s EXCEPT !.curr = s.curr + 1]
           /\ AgedBy(s, 1) = [s EXCEPT !.age = WindowAge(s.age + 1)]
           /\ AgedBy(s, 1) \in SlidingStates
<1>1. /\ s.algorithm = "sliding" /\ s.age \in 0..(3 * Period - 1)
      /\ s.prev \in 0..Limit /\ s.curr \in 0..Limit
  BY DEF SlidingStates
<1>2. s.age % Period \in 0..(Period - 1) /\ Period <= 3 * Period - 1
  BY <1>1, AgeInPeriods, Kinds
<1>3. s.age < Period => Refreshed(s) = s
  <2>1. s.age < Period => ~(s.age >= Period)
    BY <1>1, Kinds
  <2> QED
    BY <1>1, <2>1 DEF Refreshed
<1>4. PreviousCount(s) = IF s.age >= Period /\ s.age < 2 * Period THEN s.curr ELSE 0
  BY <1>1, AgeInPeriods, Kinds DEF PreviousCount
<1>5. s.age >= Period =>
        Refreshed(s) = [algorithm |-> "sliding",
                        prev |-> IF s.age < 2 * Period THEN s.curr ELSE 0,
                        curr |-> 0, age |-> s.age % Period]
  <2> SUFFICES ASSUME s.age >= Period
               PROVE  Refreshed(s) = [algorithm |-> "sliding", prev |-> PreviousCount(s),
                                      curr |-> 0, age |-> s.age % Period]
    BY <1>1, <1>4, Kinds
  <2>1. ~(s.age < Period)
    BY <1>1, Kinds
  <2>2. Refreshed(s)
          = [WindowsPassed(s) EXCEPT !.prev = PreviousCount(s), !.curr = 0]
    BY <1>1, <2>1 DEF Refreshed
  <2> QED
    BY <2>2 DEF WindowsPassed, SlidingStates
<1>6. Refreshed(s) \in SlidingStates /\ Refreshed(s).age < Period
  BY <1>1, <1>2, <1>3, <1>5, Kinds DEF SlidingStates
<1>7. Level(Refreshed(s)) = Level(s)
  <2>1. CASE s.age < Period
    BY <2>1, <1>3
  <2>2. CASE s.age >= Period /\ s.age < 2 * Period
    <3>1. /\ Refreshed(s).prev = s.curr /\ Refreshed(s).curr = 0
          /\ Refreshed(s).age = s.age - Period
      <4>1. s.age % Period = s.age - Period
        BY <1>1, <2>2, AgeInPeriods
      <4> QED
        BY <1>5, <2>2, <4>1
    <3> QED
      BY <1>1, <2>2, <3>1, Kinds DEF Level, Weighted
  <2>3. CASE s.age >= 2 * Period
    <3>1. /\ Refreshed(s).prev = 0 /\ Refreshed(s).curr = 0
          /\ Refreshed(s).age \in 0..(Period - 1)
      BY <1>1, <1>2, <1>5, <2>3, Kinds
    <3> QED
      BY <1>1, <2>3, <3>1, Kinds DEF Level, Weighted
  <2> QED
    BY <1>1, <2>1, <2>2, <2>3, Kinds
<1>8. /\ Allows(s) <=> Weighted(s) + Period <= Capacity
      /\ Taken(s) = [s EXCEPT !.curr = s.curr + 1]
  BY <1>1 DEF Allows, Taken
<1>9. AgedBy(s, 1) = [s EXCEPT !.age = WindowAge(s.age + 1)]
  BY <1>1 DEF AgedBy
<1>10. AgedBy(s, 1) \in SlidingStates
  BY <1>1, <1>9, NextAge DEF SlidingStates
<1> QED
  BY <1>3, <1>5, <1>6, <1>7, <1>8, <1>9, <1>10

-----------------------------------------------------------------------------
(* The inductive invariant.                                                *)

Weighing == \E c \in Callers : pc[c] = "weighing"

Stale == Weighing /\ strategy.age >= Period

\* What the level has fallen short of, at the rate of the limit, since the
\* window of a stale reading ended: room for the permit it may yet grant.
Slack(s) ==
    IF s.age < 2 * Period THEN (s.age - Period) * (Limit - s.curr)
                          ELSE Period * (Limit - s.curr)

\* Only the sliding window is caught between two readings; then it has room
\* for one more in its counts, however old they get.
SlidingInv ==
    /\ Weighing => strategy.algorithm = "sliding"
    /\ strategy.algorithm = "sliding" =>
         /\ strategy.age < Period => Weighted(strategy) <= Capacity
         /\ Stale => strategy.prev = 0 \/ strategy.curr < Limit

\* The windows are those of the wall clock.
WindowsInv ==
    /\ strategy.algorithm \in {"fixed", "sliding"} => strategy.age % Period = phase
    /\ strategy.algorithm = "fixed" =>
         inWindow = IF strategy.age < Period THEN strategy.count ELSE 0
    /\ strategy.algorithm = "sliding" =>
         inWindow <= IF strategy.age < Period THEN strategy.curr + 1
                     ELSE IF Weighing THEN 0 ELSE 1

\* What has been granted, against the tokens, the wait, the windows touched or
\* the level that are left.
CurveInv ==
    CASE strategy.algorithm = "token" ->
           granted * Period + Effective(strategy) <= Capacity + since * Limit
      [] strategy.algorithm = "leaky" ->
           granted * Period <= strategy.wait + since * Limit
      [] strategy.algorithm = "fixed" ->
           \E k \in Nat : /\ k * Period <= since - phase + Period - 1
                          /\ granted <= Limit * k + inWindow
      [] strategy.algorithm = "sliding" ->
           IF Stale
             THEN \/ granted = 0
                  \/ granted * Period + Slack(strategy)
                       <= Level(strategy) + since * Limit + Period
             ELSE granted * Period <= Level(strategy) + since * Limit + Period

Inv == TypeOK /\ SlidingInv /\ WindowsInv /\ CurveInv

-----------------------------------------------------------------------------
(* What any step does to the strategy, to the meter and to who holds the     *)
(* lock between two readings.                                               *)

Glance ==
    strategy' = strategy /\ (Weighing' <=> Weighing) /\ UNCHANGED meter

Look ==
    strategy' = Refreshed(strategy) /\ ~Weighing' /\ UNCHANGED meter

FirstReading ==
    /\ strategy.algorithm = "sliding" /\ ~Weighing
    /\ strategy' = Refreshed(strategy) /\ Weighing' /\ UNCHANGED meter

Granting(s) ==
    /\ Allows(s) /\ strategy' = Taken(s) /\ ~Weighing'
    /\ inWindow' = inWindow + 1 /\ granted' = granted + 1
    /\ UNCHANGED <<phase, since>>

Passing ==
    /\ strategy' = AgedBy(strategy, 1) /\ (Weighing' <=> Weighing)
    /\ phase' = (phase + 1) % Period
    /\ inWindow' = IF phase + 1 = Period THEN 0 ELSE inWindow
    /\ \/ since' = since + 1 /\ granted' = granted
       \/ since' = 0 /\ granted' = 0

Measuring ==
    /\ strategy' = strategy /\ (Weighing' <=> Weighing)
    /\ since' = 0 /\ granted' = 0 /\ UNCHANGED <<phase, inWindow>>

\* A strategy brought up to date is up to date.
LEMMA RefreshedOnce ==
    ASSUME NEW s \in States
    PROVE  /\ Refreshed(s) \in States /\ Refreshed(s).algorithm = s.algorithm
           /\ Refreshed(Refreshed(s)) = Refreshed(s)
<1>1. CASE s \in TokenStates
  <2> DEFINE r == Refreshed(s)
  <2>1. /\ r = [algorithm |-> "token", tokens |-> Effective(s), age |-> 0]
        /\ r \in TokenStates /\ Effective(r) = Effective(s)
    BY <1>1, TokenOperations
  <2>2. Refreshed(r) = [algorithm |-> "token", tokens |-> Effective(r), age |-> 0]
    BY <2>1, TokenOperations
  <2> QED
    BY <1>1, <2>1, <2>2, Kinds DEF TokenStates
<1>2. CASE s \in LeakyStates
  BY <1>2, LeakyOperations, Kinds
<1>3. CASE s \in FixedStates
  <2>1. Refreshed(s) \in FixedStates /\ Refreshed(s).age < Period
    BY <1>3, FixedOperations
  <2>2. Refreshed(Refreshed(s)) = Refreshed(s)
    BY <2>1, FixedOperations
  <2> QED
    BY <1>3, <2>1, <2>2, Kinds DEF FixedStates
<1>4. CASE s \in SlidingStates
  <2>1. Refreshed(s) \in SlidingStates /\ Refreshed(s).age < Period
    BY <1>4, SlidingOperations
  <2>2. Refreshed(Refreshed(s)) = Refreshed(s)
    BY <2>1, SlidingOperations
  <2> QED
    BY <1>4, <2>1, <2>2, Kinds DEF SlidingStates
<1> QED
  BY <1>1, <1>2, <1>3, <1>4, Kinds

\* Who decides while nobody else holds the lock leaves it free.
LEMMA LockReleased ==
    ASSUME TypeOK, NEW c \in Callers, NEW label \in {"idle", "asking", "running"},
           Goto(c, label), pc[c] = "weighing" \/ LockFree
    PROVE  ~Weighing'
<1> SUFFICES ASSUME NEW d \in Callers, pc'[d] = "weighing"
             PROVE  FALSE
  BY DEF Weighing
<1>1. d # c /\ pc[d] = "weighing"
  BY DEF Goto, TypeOK
<1> QED
  BY <1>1 DEF LockFree, TypeOK

LEMMA StepEffect ==
    ASSUME TypeOK, [Next]_vars
    PROVE  \/ Glance \/ Look \/ FirstReading
           \/ ~Weighing /\ Granting(Refreshed(strategy))
           \/ Weighing /\ Granting(strategy)
           \/ Passing \/ Measuring
<1>1. strategy \in States
  BY DEF TypeOK
<1>2. ASSUME NEW c \in Callers, Start(c) PROVE Glance
  <2>1. pc[c] # "weighing" /\ pc' = [pc EXCEPT ![c] = "asking"]
    BY <1>2 DEF Start, Goto
  <2>2. Weighing' <=> Weighing
    BY <2>1 DEF Weighing, TypeOK
  <2> QED
    BY <1>2, <2>2 DEF Start, Glance
<1>3. ASSUME NEW c \in Callers, CancelSleep(c) PROVE Glance
  <2>1. pc[c] # "weighing" /\ pc' = [pc EXCEPT ![c] = "idle"]
    BY <1>3 DEF CancelSleep, Goto
  <2>2. Weighing' <=> Weighing
    BY <2>1 DEF Weighing, TypeOK
  <2> QED
    BY <1>3, <2>2 DEF CancelSleep, Glance
<1>4. ASSUME NEW c \in Callers, Finish(c) PROVE Glance \/ Look
  <2>1. ~Weighing'
    BY <1>4, LockReleased DEF Finish
  <2>2. ~Weighing
    BY <1>4 DEF Finish, LockFree, Weighing
  <2> QED
    BY <1>4, <2>1, <2>2 DEF Finish, Glance, Look
<1>5. ASSUME NEW c \in Callers, Advance(c) PROVE FirstReading
  <2>1. ~Weighing
    BY <1>5 DEF Advance, Ready, LockFree, Weighing
  <2>2. Weighing'
    BY <1>5 DEF Advance, Goto, Weighing, TypeOK
  <2> QED
    BY <1>5, <2>1, <2>2 DEF Advance, FirstReading
<1>6. ASSUME NEW c \in Callers, NEW s \in {strategy, Refreshed(strategy)}, Decide(c, s),
             pc[c] = "weighing" \/ LockFree
      PROVE  Look \/ Granting(s)
  <2>1. Refreshed(s) = Refreshed(strategy)
    BY <1>1, RefreshedOnce
  <2>2. CASE Grant(c, s)
    BY <1>6, <2>2, LockReleased DEF Grant, Granting
  <2>3. CASE Reject(c, s)
    BY <1>6, <2>1, <2>3, LockReleased DEF Reject, Look
  <2>4. CASE Sleep(c, s)
    BY <1>6, <2>1, <2>4, LockReleased DEF Sleep, Look
  <2> QED
    BY <1>6, <2>2, <2>3, <2>4 DEF Decide
<1>7. ASSUME NEW c \in Callers, Round(c)
      PROVE  Look \/ (~Weighing /\ Granting(Refreshed(strategy)))
  <2>1. LockFree /\ ~Weighing
    BY <1>7 DEF Round, Ready, LockFree, Weighing
  <2> QED
    BY <1>6, <1>7, <2>1 DEF Round
<1>8. ASSUME NEW c \in Callers, Weigh(c)
      PROVE  Look \/ (Weighing /\ Granting(strategy))
  <2>1. pc[c] = "weighing" /\ Decide(c, strategy)
    BY <1>8 DEF Weigh
  <2>2. Look \/ Granting(strategy)
    BY <1>6, <2>1
  <2> QED
    BY <2>1, <2>2 DEF Weighing
<1>9. CASE Tick
  BY <1>9 DEF Tick, Passing, Weighing
<1>10. CASE Measure
  BY <1>10 DEF Measure, Measuring, Weighing
<1>11. CASE UNCHANGED vars
  BY <1>11 DEF vars, Glance, Weighing
<1> QED
  BY <1>2, <1>3, <1>4, <1>5, <1>7, <1>8, <1>9, <1>10, <1>11 DEF Next

\* Nobody is caught between two readings of the other three strategies.
LEMMA OnlySlidingWeighs ==
    ASSUME TypeOK, SlidingInv, [Next]_vars, strategy.algorithm # "sliding"
    PROVE  /\ ~Weighing /\ ~Weighing'
           /\ \/ Glance \/ Look \/ Granting(Refreshed(strategy))
              \/ Passing \/ Measuring
<1>1. ~Weighing
  BY DEF SlidingInv
<1> QED
  BY <1>1, StepEffect DEF Glance, Look, FirstReading, Granting, Passing, Measuring

LEMMA MeterTypes ==
    ASSUME TypeOK
    PROVE  /\ since \in Nat /\ granted \in Nat /\ inWindow \in Nat
           /\ phase \in 0..(Period - 1) /\ Limit \in Nat \ {0} /\ Period \in Nat \ {0}
           /\ granted * Period \in Nat /\ since * Limit \in Nat
BY LimiterAssumption, Kinds DEF TypeOK

\* The token bucket: what it holds and has granted is within one burst and the
\* rate.
LEMMA TokenStep ==
    ASSUME TypeOK, SlidingInv, CurveInv, strategy \in TokenStates, [Next]_vars
    PROVE  strategy' \in TokenStates /\ ~Weighing' /\ CurveInv'
<1> DEFINE s == strategy
           r == Refreshed(strategy)
<1>1. s.algorithm = "token"
  BY DEF TokenStates
<1>2. granted * Period + Effective(s) <= Capacity + since * Limit
  BY <1>1 DEF CurveInv
<1>3. ~Weighing'
  BY <1>1, OnlySlidingWeighs
<1>4. /\ r \in TokenStates /\ Effective(s) \in 0..Capacity
      /\ Effective(r) = Effective(s) /\ r.tokens = Effective(s) /\ r.age = 0
  BY TokenOperations
<1>5. ASSUME Glance \/ Look
      PROVE  /\ strategy' \in TokenStates /\ UNCHANGED meter
             /\ Effective(strategy') = Effective(s)
  BY <1>4, <1>5 DEF Glance, Look
<1>6. CASE Glance \/ Look
  <2>1. strategy'.algorithm = "token"
    BY <1>5, <1>6 DEF TokenStates
  <2> QED
    BY <1>2, <1>3, <1>5, <1>6, <2>1 DEF CurveInv, meter
<1>7. CASE Granting(r)
  <2>1. /\ strategy' = [r EXCEPT !.tokens = r.tokens - Period]
        /\ strategy' \in TokenStates /\ r.tokens >= Period
    BY <1>4, <1>7, TokenOperations DEF Granting
  <2>2. strategy'.tokens = r.tokens - Period /\ strategy'.age = 0
        /\ strategy'.algorithm = "token"
    BY <1>4, <2>1 DEF TokenStates
  <2>3. Effective(strategy') = Effective(s) - Period
    BY <1>4, <2>1, <2>2, Kinds DEF Effective, Least
  <2>4. granted' * Period = granted * Period + Period /\ since' * Limit = since * Limit
    BY <1>7, MeterTypes DEF Granting
  <2>5. granted' * Period + Effective(strategy') <= Capacity + since' * Limit
    BY <1>2, <1>4, <2>3, <2>4, MeterTypes, Kinds
  <2> QED
    BY <1>3, <2>1, <2>2, <2>5 DEF CurveInv
<1>8. CASE Passing
  <2>1. strategy' \in TokenStates /\ Effective(strategy') <= Effective(s) + Limit
    BY <1>8, TokenOperations DEF Passing
  <2>2. strategy'.algorithm = "token" /\ Effective(strategy') \in 0..Capacity
    BY <2>1, TokenOperations DEF TokenStates
  <2>3. CASE since' = since + 1 /\ granted' = granted
    <3>1. since' * Limit = since * Limit + Limit /\ granted' * Period = granted * Period
      BY <2>3, MeterTypes
    <3>2. granted' * Period + Effective(strategy') <= Capacity + since' * Limit
      BY <1>2, <1>4, <2>1, <2>2, <3>1, MeterTypes, Kinds
    <3> QED
      BY <1>3, <2>1, <2>2, <3>2 DEF CurveInv
  <2>4. CASE since' = 0 /\ granted' = 0
    <3>1. granted' * Period + Effective(strategy') <= Capacity + since' * Limit
      BY <2>2, <2>4, Kinds
    <3> QED
      BY <1>3, <2>1, <2>2, <3>1 DEF CurveInv
  <2> QED
    BY <1>8, <2>3, <2>4 DEF Passing
<1>9. CASE Measuring
  <2>1. strategy' = strategy /\ since' = 0 /\ granted' = 0
    BY <1>9 DEF Measuring
  <2>2. granted' * Period + Effective(strategy') <= Capacity + since' * Limit
    BY <1>4, <2>1, Kinds
  <2> QED
    BY <1>1, <1>3, <2>1, <2>2 DEF CurveInv
<1> QED
  BY <1>1, <1>6, <1>7, <1>8, <1>9, OnlySlidingWeighs

\* The leaky bucket: nothing is saved up but the wait for the next request.
LEMMA LeakyStep ==
    ASSUME TypeOK, SlidingInv, CurveInv, strategy \in LeakyStates, [Next]_vars
    PROVE  strategy' \in LeakyStates /\ ~Weighing' /\ CurveInv'
<1>1. strategy.algorithm = "leaky" /\ strategy.wait \in 0..Period
  BY DEF LeakyStates
<1>2. granted * Period <= strategy.wait + since * Limit
  BY <1>1 DEF CurveInv
<1>3. ~Weighing'
  BY <1>1, OnlySlidingWeighs
<1>4. Refreshed(strategy) = strategy
  BY LeakyOperations
<1>5. CASE Glance \/ Look
  <2>1. strategy' = strategy /\ UNCHANGED meter
    BY <1>4, <1>5 DEF Glance, Look
  <2> QED
    BY <1>1, <1>2, <1>3, <2>1 DEF CurveInv, meter
<1>6. CASE Granting(Refreshed(strategy))
  <2>1. /\ strategy' = [strategy EXCEPT !.wait = Period] /\ strategy' \in LeakyStates
        /\ strategy.wait = 0
    BY <1>4, <1>6, LeakyOperations DEF Granting
  <2>2. strategy'.wait = Period /\ strategy'.algorithm = "leaky"
    BY <2>1 DEF LeakyStates
  <2>3. granted' * Period = granted * Period + Period /\ since' * Limit = since * Limit
    BY <1>6, MeterTypes DEF Granting
  <2>4. granted' * Period <= strategy'.wait + since' * Limit
    BY <1>2, <2>1, <2>2, <2>3, MeterTypes
  <2> QED
    BY <1>3, <2>1, <2>2, <2>4 DEF CurveInv
<1>7. CASE Passing
  <2>1. /\ strategy' = [strategy EXCEPT !.wait = Most(strategy.wait - Limit, 0)]
        /\ strategy' \in LeakyStates
    BY <1>7, LeakyOperations DEF Passing
  <2>2. /\ strategy'.wait >= strategy.wait - Limit /\ strategy'.wait \in Nat
        /\ strategy'.algorithm = "leaky"
    BY <1>1, <2>1, Kinds DEF LeakyStates, Most
  <2>3. CASE since' = since + 1 /\ granted' = granted
    <3>1. since' * Limit = since * Limit + Limit /\ granted' * Period = granted * Period
      BY <2>3, MeterTypes
    <3>2. granted' * Period <= strategy'.wait + since' * Limit
      BY <1>1, <1>2, <2>2, <3>1, MeterTypes
    <3> QED
      BY <1>3, <2>1, <2>2, <3>2 DEF CurveInv
  <2>4. CASE since' = 0 /\ granted' = 0
    <3>1. granted' * Period <= strategy'.wait + since' * Limit
      BY <2>2, <2>4, Kinds
    <3> QED
      BY <1>3, <2>1, <2>2, <3>1 DEF CurveInv
  <2> QED
    BY <1>7, <2>3, <2>4 DEF Passing
<1>8. CASE Measuring
  <2>1. strategy' = strategy /\ since' = 0 /\ granted' = 0
    BY <1>8 DEF Measuring
  <2>2. granted' * Period <= strategy'.wait + since' * Limit
    BY <1>1, <2>1, Kinds
  <2> QED
    BY <1>1, <1>3, <2>1, <2>2 DEF CurveInv
<1> QED
  BY <1>1, <1>5, <1>6, <1>7, <1>8, OnlySlidingWeighs

-----------------------------------------------------------------------------
(* The fixed window.                                                       *)

LEMMA FixedWindows ==
    ASSUME TypeOK, SlidingInv, WindowsInv, strategy \in FixedStates, [Next]_vars
    PROVE  strategy' \in FixedStates /\ WindowsInv'
<1> DEFINE s == strategy
           r == Refreshed(strategy)
<1>1. s.algorithm = "fixed" /\ s.count \in 0..Limit /\ s.age \in 0..(3 * Period - 1)
  BY DEF FixedStates
<1>2. s.age % Period = phase /\ inWindow = IF s.age < Period THEN s.count ELSE 0
  BY <1>1 DEF WindowsInv
<1>3. /\ r \in FixedStates /\ r.age \in 0..(Period - 1)
      /\ r.age % Period = phase /\ r.count = inWindow
  <2>1. r \in FixedStates /\ r.age < Period /\ r.age \in Nat
    BY FixedOperations, Kinds DEF FixedStates
  <2>2. s.age < Period \/ s.age >= Period
    BY <1>1, Kinds
  <2>3. s.age < Period => r = s
    BY FixedOperations
  <2>4. s.age >= Period =>
          r = [algorithm |-> "fixed", count |-> 0, age |-> s.age % Period]
    BY FixedOperations
  <2>5. r.age % Period = r.age
    BY <2>1, AgeInPeriods
  <2>6. r.age = s.age % Period
    BY <2>2, <2>3, <2>4, <2>5
  <2>7. r.count = inWindow
    BY <1>1, <1>2, <2>2, <2>3, <2>4, Kinds
  <2> QED
    BY <1>2, <2>1, <2>5, <2>6, <2>7, Kinds
<1>4. CASE Glance \/ Look
  <2>1. UNCHANGED meter /\ strategy' \in {s, r}
    BY <1>4 DEF Glance, Look
  <2>2. strategy'.algorithm = "fixed"
    BY <1>1, <1>3, <2>1 DEF FixedStates
  <2> QED
    BY <1>2, <1>3, <2>1, <2>2, Kinds DEF WindowsInv, meter
<1>5. CASE Granting(r)
  <2>1. /\ strategy' = [r EXCEPT !.count = r.count + 1] /\ strategy' \in FixedStates
        /\ inWindow' = inWindow + 1 /\ phase' = phase
    BY <1>3, <1>5, FixedOperations DEF Granting
  <2>2. strategy'.count = r.count + 1 /\ strategy'.age = r.age
        /\ strategy'.algorithm = "fixed"
    BY <1>3, <2>1 DEF FixedStates
  <2> QED
    BY <1>3, <2>1, <2>2, Kinds DEF WindowsInv
<1>6. CASE Passing
  <2>1. /\ strategy' = [s EXCEPT !.age = WindowAge(s.age + 1)]
        /\ strategy' \in FixedStates
    BY <1>6, FixedOperations DEF Passing
  <2>2. /\ strategy'.age = WindowAge(s.age + 1) /\ strategy'.count = s.count
        /\ strategy'.algorithm = "fixed"
    BY <2>1 DEF FixedStates
  <2>3. /\ strategy'.age
             = IF s.age + 1 < 3 * Period THEN s.age + 1 ELSE 2 * Period
        /\ strategy'.age % Period = IF phase + 1 = Period THEN 0 ELSE phase + 1
    BY <1>1, <1>2, <2>2, NextAge
  <2>4. phase' = IF phase + 1 = Period THEN 0 ELSE phase + 1
    <3>1. (phase + 1) % Period = IF phase + 1 = Period THEN 0 ELSE phase + 1
      BY AgeInPeriods, MeterTypes
    <3> QED
      BY <1>6, <3>1 DEF Passing
  <2>5. inWindow' = IF phase + 1 = Period THEN 0 ELSE inWindow
    BY <1>6 DEF Passing
  <2>6. s.age < Period => phase = s.age
    BY <1>1, <1>2, AgeInPeriods, Kinds
  <2>7. inWindow' = IF strategy'.age < Period THEN strategy'.count ELSE 0
    BY <1>1, <1>2, <2>2, <2>3, <2>5, <2>6, MeterTypes
  <2> QED
    BY <2>1, <2>2, <2>3, <2>4, <2>7 DEF WindowsInv
<1>7. CASE Measuring
  <2>1. strategy' = s /\ phase' = phase /\ inWindow' = inWindow
    BY <1>7 DEF Measuring
  <2> QED
    BY <1>1, <1>2, <2>1 DEF WindowsInv
<1> QED
  BY <1>1, <1>4, <1>5, <1>6, <1>7, OnlySlidingWeighs

LEMMA FixedCurve ==
    ASSUME TypeOK, SlidingInv, WindowsInv, CurveInv, strategy \in FixedStates,
           strategy' \in FixedStates, [Next]_vars
    PROVE  ~Weighing' /\ CurveInv'
<1>1. strategy.algorithm = "fixed" /\ strategy'.algorithm = "fixed"
  BY DEF FixedStates
<1>2. ~Weighing' /\ inWindow \in 0..Limit
  BY <1>1, OnlySlidingWeighs, Kinds DEF WindowsInv, FixedStates
<1>3. PICK k \in Nat : k * Period <= since - phase + Period - 1
                       /\ granted <= Limit * k + inWindow
  BY <1>1 DEF CurveInv
<1> DEFINE Bound(m) == m * Period <= since' - phase' + Period - 1
                       /\ granted' <= Limit * m + inWindow'
<1>4. SUFFICES \E m \in Nat : Bound(m)
  BY <1>1, <1>2 DEF CurveInv
<1>5. CASE Glance \/ Look
  <2>1. UNCHANGED meter
    BY <1>5 DEF Glance, Look
  <2> QED
    BY <1>3, <2>1 DEF meter
<1>6. CASE Granting(Refreshed(strategy))
  <2>1. /\ inWindow' = inWindow + 1 /\ granted' = granted + 1
        /\ phase' = phase /\ since' = since
    BY <1>6 DEF Granting
  <2>2. Limit * k \in Nat
    BY <1>3, Kinds
  <2>3. Bound(k)
    BY <1>3, <2>1, <2>2, MeterTypes
  <2> QED
    BY <1>3, <2>3
<1>7. CASE Passing
  <2>1. phase' = IF phase + 1 = Period THEN 0 ELSE phase + 1
    <3>1. (phase + 1) % Period = IF phase + 1 = Period THEN 0 ELSE phase + 1
      BY AgeInPeriods, MeterTypes
    <3> QED
      BY <1>7, <3>1 DEF Passing
  <2>2. inWindow' = IF phase + 1 = Period THEN 0 ELSE inWindow
    BY <1>7 DEF Passing
  <2>3. CASE since' = 0 /\ granted' = 0
    <3>1. Bound(0)
      BY <1>2, <2>1, <2>2, <2>3, MeterTypes
    <3> QED
      BY <3>1
  <2>4. CASE since' = since + 1 /\ granted' = granted /\ phase + 1 # Period
    <3>1. Bound(k)
      BY <1>3, <2>1, <2>2, <2>4, MeterTypes
    <3> QED
      BY <1>3, <3>1
  <2>5. CASE since' = since + 1 /\ granted' = granted /\ phase + 1 = Period
    <3>1. (k + 1) * Period = k * Period + Period /\ Limit * (k + 1) = Limit * k + Limit
      BY <1>3, Kinds
    <3>2. Bound(k + 1)
      BY <1>2, <1>3, <2>1, <2>2, <2>5, <3>1, MeterTypes
    <3> QED
      BY <1>3, <3>2
  <2> QED
    BY <1>7, <2>3, <2>4, <2>5 DEF Passing
<1>8. CASE Measuring
  <2>1. since' = 0 /\ granted' = 0 /\ phase' = phase /\ inWindow' = inWindow
    BY <1>8 DEF Measuring
  <2>2. Bound(0)
    BY <1>2, <2>1, MeterTypes
  <2> QED
    BY <2>2
<1> QED
  BY <1>1, <1>5, <1>6, <1>7, <1>8, OnlySlidingWeighs

-----------------------------------------------------------------------------
(* The sliding window.                                                     *)

LEMMA SlidingFields ==
    ASSUME NEW s \in SlidingStates
    PROVE  /\ s.algorithm = "sliding" /\ s.prev \in 0..Limit /\ s.curr \in 0..Limit
           /\ s.age \in 0..(3 * Period - 1)
           /\ s.age < Period \/ s.age >= Period
           /\ Limit \in Nat \ {0} /\ Period \in Nat \ {0}
BY Kinds DEF SlidingStates

LEMMA LevelNatural ==
    ASSUME NEW s \in SlidingStates
    PROVE  Level(s) \in Nat
<1>1. CASE s.age < Period
  <2>1. s.prev * (Period - s.age) \in Nat /\ s.curr * Period \in Nat
    BY <1>1, SlidingFields
  <2> QED
    BY <1>1, <2>1 DEF Level, Weighted
<1>2. CASE s.age >= Period /\ s.age < 2 * Period
  <2>1. s.curr * (2 * Period - s.age) \in Nat
    BY <1>2, SlidingFields
  <2> QED
    BY <1>2, <2>1, SlidingFields DEF Level
<1>3. CASE s.age >= 2 * Period
  BY <1>3, SlidingFields DEF Level
<1> QED
  BY <1>1, <1>2, <1>3, SlidingFields

\* Brought up to date, the counts weigh no more than the limit, if they did
\* before.
LEMMA UpToDate ==
    ASSUME TypeOK, SlidingInv, WindowsInv, strategy \in SlidingStates
    PROVE  /\ Refreshed(strategy) \in SlidingStates
           /\ Refreshed(strategy).age \in 0..(Period - 1)
           /\ Refreshed(strategy).age % Period = phase
           /\ Weighted(Refreshed(strategy)) <= Capacity
           /\ Level(Refreshed(strategy)) = Level(strategy)
           /\ inWindow <= Refreshed(strategy).curr + 1
<1> DEFINE s == strategy
           r == Refreshed(strategy)
<1>1. r \in SlidingStates /\ r.age \in 0..(Period - 1) /\ Level(r) = Level(s)
  <2>1. r \in SlidingStates /\ r.age < Period /\ Level(r) = Level(s)
    BY SlidingOperations
  <2> QED
    BY <2>1, SlidingFields
<1>2. s.age % Period = phase
  BY SlidingFields DEF WindowsInv
<1>3. CASE s.age < Period
  <2>1. r = s
    BY <1>3, SlidingOperations
  <2>2. inWindow <= s.curr + 1 /\ Weighted(s) <= Capacity
    BY <1>3, SlidingFields DEF WindowsInv, SlidingInv
  <2> QED
    BY <1>1, <1>2, <2>1, <2>2
<1>4. CASE s.age >= Period
  <2>1. r = [algorithm |-> "sliding",
             prev |-> IF s.age < 2 * Period THEN s.curr ELSE 0,
             curr |-> 0, age |-> s.age % Period]
    BY <1>4, SlidingOperations
  <2>2. r.age = phase /\ r.age % Period = r.age /\ r.curr = 0 /\ r.prev \in 0..Limit
    BY <1>1, <1>2, <2>1, AgeInPeriods, SlidingFields
  <2>3. r.prev * (Period - r.age) <= Limit * Period
    BY <1>1, <2>2, SlidingFields
  <2>4. Weighted(r) <= Capacity
    BY <1>1, <2>2, <2>3, SlidingFields DEF Weighted, Capacity
  <2>5. inWindow <= 1
    BY <1>4, SlidingFields, MeterTypes DEF WindowsInv
  <2> QED
    BY <1>1, <2>2, <2>4, <2>5, SlidingFields
<1> QED
  BY <1>3, <1>4, SlidingFields

\* A permit that the readings allow leaves counts within the limit.
LEMMA RoomForOne ==
    ASSUME NEW s \in SlidingStates, Allows(s),
           s.age < Period \/ s.prev = 0 \/ s.curr < Limit
    PROVE  /\ s.curr < Limit /\ Taken(s) \in SlidingStates
           /\ Taken(s) = [s EXCEPT !.curr = s.curr + 1]
           /\ Taken(s).age = s.age /\ Taken(s).prev = s.prev
           /\ Taken(s).curr = s.curr + 1
           /\ s.age < Period => Weighted(Taken(s)) <= Capacity
                                /\ Level(Taken(s)) = Level(s) + Period
<1>1. Weighted(s) + Period <= Limit * Period
  BY SlidingOperations DEF Capacity
<1>2. s.curr < Limit
  <2>1. CASE s.age < Period \/ s.prev = 0
    <3>1. s.prev * (Period - s.age) >= 0
      BY <2>1, SlidingFields
    <3>2. s.curr * Period + Period <= Limit * Period
      BY <1>1, <3>1, SlidingFields DEF Weighted
    <3> QED
      BY <3>2, SlidingFields
  <2> QED
    BY <2>1
<1>3. Taken(s) = [s EXCEPT !.curr = s.curr + 1]
  BY SlidingOperations
<1>4. Taken(s) \in SlidingStates
  BY <1>2, <1>3, SlidingFields DEF SlidingStates
<1>5. /\ Taken(s).age = s.age /\ Taken(s).prev = s.prev
      /\ Taken(s).curr = s.curr + 1
  BY <1>3 DEF SlidingStates
<1>6. Weighted(Taken(s)) = Weighted(s) + Period
  <2>1. (s.curr + 1) * Period = s.curr * Period + Period
    BY SlidingFields
  <2>2. s.prev * (Period - s.age) \in Int /\ s.curr * Period \in Int
    BY SlidingFields
  <2> QED
    BY <1>5, <2>1, <2>2, SlidingFields DEF Weighted
<1> QED
  BY <1>1, <1>2, <1>3, <1>4, <1>5, <1>6 DEF Level, Capacity

\* A tick more: the level falls by no more than the limit.
LEMMA SlidingAges ==
    ASSUME NEW s \in SlidingStates, NEW t, t = AgedBy(s, 1)
    PROVE  /\ t \in SlidingStates /\ t.prev = s.prev /\ t.curr = s.curr
           /\ t.age = IF s.age + 1 < 3 * Period THEN s.age + 1 ELSE 2 * Period
           /\ t.age % Period = IF (s.age % Period) + 1 = Period THEN 0
                               ELSE (s.age % Period) + 1
           /\ Level(t) >= Level(s) - Limit
           /\ s.age >= Period => Level(t) - Slack(t) >= Level(s) - Slack(s) - Limit
           /\ s.age + 1 < Period => Weighted(t) <= Weighted(s)
<1>1. t = [s EXCEPT !.age = WindowAge(s.age + 1)] /\ t \in SlidingStates
  BY SlidingOperations
<1>2. t.prev = s.prev /\ t.curr = s.curr /\ t.age = WindowAge(s.age + 1)
  BY <1>1 DEF SlidingStates
<1>3. /\ t.age = IF s.age + 1 < 3 * Period THEN s.age + 1 ELSE 2 * Period
      /\ t.age % Period = IF (s.age % Period) + 1 = Period THEN 0
                          ELSE (s.age % Period) + 1
  BY <1>2, NextAge, SlidingFields
<1> DEFINE Claim == /\ Level(t) >= Level(s) - Limit
                    /\ s.age >= Period =>
                         Level(t) - Slack(t) >= Level(s) - Slack(s) - Limit
                    /\ s.age + 1 < Period => Weighted(t) <= Weighted(s)
<1>4. CASE s.age + 1 < Period
  <2>1. t.age = s.age + 1 /\ s.age < Period /\ ~(s.age >= Period) /\ t.age < Period
    BY <1>3, <1>4, SlidingFields
  <2>2. s.prev * (Period - s.age) = s.prev * (Period - (s.age + 1)) + s.prev
    BY SlidingFields
  <2>3. /\ s.prev * (Period - (s.age + 1)) \in Int /\ s.curr * Period \in Int
    BY SlidingFields
  <2>4. Weighted(s) = Weighted(t) + s.prev /\ Weighted(t) \in Int
    BY <1>2, <2>1, <2>2, <2>3, SlidingFields DEF Weighted
  <2>5. Claim
    BY <1>4, <2>1, <2>4, SlidingFields DEF Level
  <2> QED
    BY <1>1, <1>2, <1>3, <2>5
<1>5. CASE s.age + 1 = Period
  <2>1. /\ t.age = Period /\ s.age < Period /\ ~(s.age >= Period) /\ ~(t.age < Period)
        /\ t.age < 2 * Period /\ ~(s.age + 1 < Period)
    BY <1>3, <1>5, SlidingFields
  <2>2. Level(t) = s.curr * Period
    BY <1>2, <2>1, SlidingFields DEF Level
  <2>3. Level(s) = s.prev + s.curr * Period
    BY <1>5, <2>1, SlidingFields DEF Level, Weighted
  <2>4. s.curr * Period \in Int
    BY SlidingFields
  <2>5. Claim
    BY <2>1, <2>2, <2>3, <2>4, SlidingFields
  <2> QED
    BY <1>1, <1>2, <1>3, <2>5
<1>6. CASE s.age + 1 > Period /\ s.age + 1 < 2 * Period
  <2>1. /\ t.age = s.age + 1 /\ ~(s.age < Period) /\ ~(t.age < Period)
        /\ s.age < 2 * Period /\ t.age < 2 * Period /\ ~(s.age + 1 < Period)
    BY <1>3, <1>6, SlidingFields
  <2>2. t.curr = s.curr /\ t.age = s.age + 1
    BY <1>2, <2>1
  <2> DEFINE late == s.age - Period
             left == 2 * Period - s.age
             room == Limit - s.curr
  <2>3. /\ late \in Int /\ left \in Int /\ room \in Int /\ s.curr \in Int
        /\ t.age - Period = late + 1 /\ 2 * Period - t.age = left - 1
    BY <2>2, SlidingFields
  <2>4. Level(s) = s.curr * left /\ Slack(s) = late * room
    BY <2>1 DEF Level, Slack
  <2>5. Level(t) = s.curr * (left - 1)
    <3>1. Level(t) = t.curr * (2 * Period - t.age)
      BY <2>1 DEF Level
    <3> QED
      BY <2>2, <2>3, <3>1
  <2>6. Slack(t) = (late + 1) * room
    <3>1. Slack(t) = (t.age - Period) * (Limit - t.curr)
      BY <2>1 DEF Slack
    <3> QED
      BY <2>2, <2>3, <3>1
  <2> HIDE DEF late, left, room
  <2>7. /\ Level(s) = Level(t) + s.curr /\ Level(t) \in Int
        /\ Slack(t) = Slack(s) + room /\ Slack(s) \in Int
    BY <2>3, <2>4, <2>5, <2>6
  <2>8. Claim
    BY <2>1, <2>7, SlidingFields DEF room
  <2> QED
    BY <1>1, <1>2, <1>3, <2>8
<1>7. CASE s.age + 1 = 2 * Period
  <2>1. /\ t.age = 2 * Period /\ ~(s.age < Period) /\ ~(t.age < Period)
        /\ s.age < 2 * Period /\ ~(t.age < 2 * Period) /\ ~(s.age + 1 < Period)
        /\ s.age = 2 * Period - 1
    BY <1>3, <1>7, SlidingFields
  <2>2. Level(t) = 0 /\ Slack(t) = Period * (Limit - s.curr)
    BY <1>2, <2>1 DEF Level, Slack
  <2>3. Level(s) = s.curr /\ Slack(s) = (Period - 1) * (Limit - s.curr)
    BY <2>1, SlidingFields DEF Level, Slack
  <2>4. Slack(t) = Slack(s) + Limit - s.curr /\ Slack(s) \in Int
    BY <2>2, <2>3, SlidingFields
  <2>5. Claim
    BY <2>1, <2>2, <2>3, <2>4, SlidingFields
  <2> QED
    BY <1>1, <1>2, <1>3, <2>5
<1>8. CASE s.age + 1 > 2 * Period
  <2>1. /\ ~(s.age < Period) /\ ~(t.age < Period) /\ ~(s.age + 1 < Period)
        /\ ~(s.age < 2 * Period) /\ ~(t.age < 2 * Period)
    <3>1. s.age >= 2 * Period /\ s.age \in Nat /\ Period \in Nat \ {0}
      BY <1>8, SlidingFields
    <3>2. t.age >= 2 * Period /\ t.age \in Nat
      BY <1>3, <3>1
    <3> QED
      BY <3>1, <3>2
  <2>2. /\ Level(t) = 0 /\ Level(s) = 0 /\ Slack(t) = Slack(s)
        /\ Slack(s) = Period * (Limit - s.curr)
    BY <1>2, <2>1 DEF Level, Slack
  <2>3. Slack(s) \in Int
    BY <2>2, SlidingFields
  <2>4. Claim
    BY <2>1, <2>2, <2>3, SlidingFields
  <2> QED
    BY <1>1, <1>2, <1>3, <2>4
<1> QED
  BY <1>4, <1>5, <1>6, <1>7, <1>8, SlidingFields

\* The bound on what is granted holds of a stale reading too, with slack.
LEMMA CurveOfSliding ==
    ASSUME TypeOK, CurveInv, strategy \in SlidingStates
    PROVE  granted * Period <= Level(strategy) + since * Limit + Period
<1>1. CASE ~Stale
  BY <1>1, SlidingFields DEF CurveInv
<1>2. CASE Stale /\ granted = 0
  BY <1>2, LevelNatural, MeterTypes
<1>3. CASE Stale /\ granted # 0
  <2>1. granted * Period + Slack(strategy) <= Level(strategy) + since * Limit + Period
    BY <1>3, SlidingFields DEF CurveInv
  <2>2. Limit - strategy.curr \in Nat /\ strategy.age >= Period
    BY <1>3, SlidingFields DEF Stale
  <2>3. (strategy.age - Period) * (Limit - strategy.curr) \in Nat
    BY <2>2, SlidingFields
  <2>4. Period * (Limit - strategy.curr) \in Nat
    BY <2>2, SlidingFields
  <2>5. Slack(strategy) \in Nat
    BY <2>3, <2>4 DEF Slack
  <2> QED
    BY <2>1, <2>5, LevelNatural, MeterTypes
<1> QED
  BY <1>1, <1>2, <1>3

\* What to show of a strategy that is up to date.
LEMMA FreshSliding ==
    ASSUME NEW s \in SlidingStates, s = strategy', s.age \in 0..(Period - 1),
           Weighted(s) <= Capacity, s.age % Period = phase', inWindow' <= s.curr + 1,
           granted' * Period <= Level(s) + since' * Limit + Period
    PROVE  SlidingInv' /\ WindowsInv' /\ CurveInv'
<1>1. s.algorithm = "sliding" /\ s.age < Period /\ ~(s.age >= Period)
  BY SlidingFields
<1>2. ~Stale'
  BY <1>1 DEF Stale
<1>3. SlidingInv'
  BY <1>1, <1>2 DEF SlidingInv
<1>4. WindowsInv'
  BY <1>1 DEF WindowsInv
<1>5. CurveInv'
  BY <1>1, <1>2 DEF CurveInv
<1> QED
  BY <1>3, <1>4, <1>5

LEMMA StaleGrant ==
    ASSUME TypeOK, SlidingInv, WindowsInv, CurveInv, strategy \in SlidingStates,
           Weighing, strategy.age >= Period, Granting(strategy)
    PROVE  strategy' \in SlidingStates /\ SlidingInv' /\ WindowsInv' /\ CurveInv'
<1> DEFINE s == strategy
           t == strategy'
<1>1. Stale /\ ~Stale' /\ ~Weighing' /\ s.algorithm = "sliding"
  BY SlidingFields DEF Stale, Granting
<1>2. Allows(s) /\ t = Taken(s) /\ (s.prev = 0 \/ s.curr < Limit)
  BY <1>1 DEF SlidingInv, Granting
<1>3. /\ s.curr < Limit /\ t \in SlidingStates /\ t.age = s.age
      /\ t.prev = s.prev /\ t.curr = s.curr + 1
  BY <1>2, RoomForOne
<1>4. /\ inWindow' = inWindow + 1 /\ granted' = granted + 1
      /\ phase' = phase /\ since' = since
  BY DEF Granting
<1>5. t.algorithm = "sliding" /\ ~(t.age < Period) /\ ~(s.age < Period)
  BY <1>3, SlidingFields
<1>6. SlidingInv'
  BY <1>1, <1>5 DEF SlidingInv
<1>7. WindowsInv'
  <2>1. s.age % Period = phase /\ inWindow <= 0
    BY <1>1, <1>5 DEF WindowsInv
  <2>2. inWindow' <= 1
    BY <1>4, <2>1, MeterTypes
  <2> QED
    BY <1>1, <1>3, <1>4, <1>5, <2>1, <2>2 DEF WindowsInv
<1>8. /\ Level(s) \in Nat /\ Level(t) \in Nat
      /\ granted' * Period = granted * Period + Period
  BY <1>3, <1>4, LevelNatural, MeterTypes
<1>9. granted' * Period <= Level(t) + since * Limit + Period
  <2>1. CASE granted = 0
    BY <1>8, <2>1, MeterTypes
  <2>2. CASE granted # 0
    <3>1. granted * Period + Slack(s) <= Level(s) + since * Limit + Period
      BY <1>1, <2>2 DEF CurveInv
    <3>2. Level(t) - Level(s) >= Period - Slack(s) /\ Slack(s) \in Int
      <4> DEFINE late == s.age - Period
                 left == 2 * Period - s.age
                 room == Limit - s.curr
      <4>1. late \in Nat /\ left \in Int /\ room \in Nat /\ room >= 1
            /\ late + left = Period
        BY <1>3, SlidingFields
      <4>2. CASE s.age < 2 * Period
        <5>1. Slack(s) = late * room /\ Level(s) = s.curr * left
              /\ Level(t) = (s.curr + 1) * left
          BY <1>3, <1>5, <4>2 DEF Slack, Level
        <5> HIDE DEF late, left, room
        <5>2. late * room >= late /\ late * room \in Int
          BY <4>1
        <5>3. (s.curr + 1) * left = s.curr * left + left /\ s.curr * left \in Int
          BY <4>1, SlidingFields
        <5>4. Level(t) - Level(s) = left /\ Slack(s) \in Int /\ Slack(s) >= late
          BY <4>1, <5>1, <5>2, <5>3
        <5> QED
          BY <4>1, <5>4, SlidingFields
      <4>3. CASE s.age >= 2 * Period
        <5>1. ~(s.age < 2 * Period)
          BY <4>3, SlidingFields
        <5>2. Slack(s) = Period * room /\ Level(s) = 0 /\ Level(t) = 0
          BY <1>3, <1>5, <5>1 DEF Slack, Level
        <5> HIDE DEF late, left, room
        <5>3. Period * room >= Period /\ Period * room \in Int
          BY <4>1, SlidingFields
        <5> QED
          BY <5>2, <5>3, SlidingFields
      <4> QED
        BY <4>2, <4>3, SlidingFields
    <3> QED
      BY <1>8, <3>1, <3>2, MeterTypes
  <2> QED
    BY <2>1, <2>2
<1> QED
  BY <1>1, <1>3, <1>4, <1>5, <1>6, <1>7, <1>9 DEF CurveInv

LEMMA SlidingPasses ==
    ASSUME TypeOK, SlidingInv, WindowsInv, CurveInv, strategy \in SlidingStates, Passing
    PROVE  strategy' \in SlidingStates /\ SlidingInv' /\ WindowsInv' /\ CurveInv'
<1> DEFINE s == strategy
           t == strategy'
<1>1. /\ t = AgedBy(s, 1) /\ (Weighing' <=> Weighing)
      /\ inWindow' = IF phase + 1 = Period THEN 0 ELSE inWindow
  BY DEF Passing
<1>2. s.algorithm = "sliding" /\ s.age % Period = phase
  BY SlidingFields DEF WindowsInv
<1>3. /\ t \in SlidingStates /\ t.prev = s.prev /\ t.curr = s.curr
      /\ t.age = IF s.age + 1 < 3 * Period THEN s.age + 1 ELSE 2 * Period
      /\ t.age % Period = IF phase + 1 = Period THEN 0 ELSE phase + 1
      /\ Level(t) >= Level(s) - Limit
      /\ s.age >= Period => Level(t) - Slack(t) >= Level(s) - Slack(s) - Limit
      /\ s.age + 1 < Period => Weighted(t) <= Weighted(s)
  BY <1>1, <1>2, SlidingAges
<1>4. t.algorithm = "sliding" /\ Level(s) \in Nat /\ Level(t) \in Nat
  BY <1>3, SlidingFields, LevelNatural
<1>5. t.age % Period = phase'
  <2>1. (phase + 1) % Period = IF phase + 1 = Period THEN 0 ELSE phase + 1
    BY AgeInPeriods, MeterTypes
  <2> QED
    BY <1>3, <2>1 DEF Passing
<1>6. SlidingInv'
  <2>1. t.age < Period => Weighted(t) <= Capacity
    <3> SUFFICES ASSUME t.age < Period PROVE Weighted(t) <= Capacity
      OBVIOUS
    <3>1. s.age + 1 < Period /\ s.age < Period
      BY <1>3, SlidingFields
    <3>2. Weighted(s) <= Capacity /\ Weighted(t) <= Weighted(s)
      BY <1>2, <1>3, <3>1 DEF SlidingInv
    <3>3. s.prev * (Period - s.age) \in Int /\ s.curr * Period \in Int
          /\ t.prev * (Period - t.age) \in Int /\ t.curr * Period \in Int
      BY <1>3, SlidingFields
    <3> QED
      BY <3>2, <3>3, Kinds DEF Weighted
  <2>2. Stale' => t.prev = 0 \/ t.curr < Limit
    <3>1. CASE s.age >= Period
      BY <1>1, <1>2, <1>3, <3>1 DEF SlidingInv, Stale
    <3>2. CASE s.age + 1 = Period
      <4>1. s.prev * 1 + s.curr * Period <= Limit * Period
        <5>1. s.age < Period /\ Period - s.age = 1
          BY <3>2, SlidingFields
        <5> QED
          BY <1>2, <5>1 DEF SlidingInv, Weighted, Capacity
      <4>2. s.prev # 0 => s.curr * Period < Limit * Period
        BY <4>1, SlidingFields
      <4>3. s.prev # 0 => s.curr < Limit
        BY <4>2, SlidingFields
      <4> QED
        BY <1>3, <4>3
    <3>3. CASE s.age + 1 < Period
      <4>1. ~(t.age >= Period)
        BY <1>3, <3>3, SlidingFields
      <4> QED
        BY <4>1 DEF Stale
    <3> QED
      BY <3>1, <3>2, <3>3, SlidingFields
  <2> QED
    BY <1>4, <2>1, <2>2 DEF SlidingInv
<1>7. WindowsInv'
  <2>1. inWindow <= IF s.age < Period THEN s.curr + 1 ELSE IF Weighing THEN 0 ELSE 1
    BY <1>2 DEF WindowsInv
  <2>2. inWindow' <= IF t.age < Period THEN t.curr + 1
                     ELSE IF Weighing THEN 0 ELSE 1
    <3>1. CASE phase + 1 = Period
      <4>1. inWindow' = 0
        BY <1>1, <3>1
      <4>2. t.curr + 1 >= 0
        BY <1>3, SlidingFields
      <4> QED
        BY <4>1, <4>2
    <3>2. CASE phase + 1 # Period
      <4>1. s.age < Period => phase = s.age
        BY <1>2, AgeInPeriods, SlidingFields
      <4>2. s.age < Period <=> t.age < Period
        BY <1>3, <3>2, <4>1, SlidingFields
      <4> QED
        BY <1>1, <1>3, <2>1, <3>2, <4>2
    <3> QED
      BY <3>1, <3>2
  <2> QED
    BY <1>1, <1>4, <1>5, <2>2 DEF WindowsInv
<1>8. CASE since' = 0 /\ granted' = 0
  <2>1. granted' * Period <= Level(t) + since' * Limit + Period
    BY <1>4, <1>8, SlidingFields
  <2> QED
    BY <1>3, <1>4, <1>6, <1>7, <1>8, <2>1 DEF CurveInv
<1>9. CASE since' = since + 1 /\ granted' = granted
  <2>1. /\ granted' * Period = granted * Period
        /\ since' * Limit = since * Limit + Limit
    BY <1>9, MeterTypes
  <2>2. granted' * Period <= Level(t) + since' * Limit + Period
    <3>1. granted * Period <= Level(s) + since * Limit + Period
      BY CurveOfSliding
    <3> QED
      BY <1>3, <1>4, <2>1, <3>1, MeterTypes
  <2>3. CASE ~Stale' \/ granted = 0
    BY <1>3, <1>4, <1>6, <1>7, <1>9, <2>2, <2>3 DEF CurveInv
  <2>4. CASE Stale' /\ granted # 0
    <3>1. Slack(s) \in Int /\ Slack(t) \in Int
      <4>1. (s.age - Period) * (Limit - s.curr) \in Int /\ Period * (Limit - s.curr) \in Int
        BY SlidingFields
      <4>2. (t.age - Period) * (Limit - t.curr) \in Int /\ Period * (Limit - t.curr) \in Int
        BY <1>3, SlidingFields
      <4> QED
        BY <4>1, <4>2 DEF Slack
    <3>2. granted' * Period + Slack(t) <= Level(t) + since' * Limit + Period
      <4>1. CASE s.age >= Period
        <5>1. Stale
          BY <1>1, <2>4, <4>1 DEF Stale
        <5>2. granted * Period + Slack(s) <= Level(s) + since * Limit + Period
          BY <1>2, <2>4, <5>1 DEF CurveInv
        <5> QED
          BY <1>3, <1>4, <2>1, <3>1, <4>1, <5>2, MeterTypes
      <4>2. CASE s.age < Period
        <5>1. t.age = Period /\ t.age < 2 * Period
          BY <1>3, <2>4, <4>2, SlidingFields DEF Stale
        <5>2. Slack(t) = 0
          <6>1. (Period - Period) * (Limit - t.curr) = 0
            BY <1>3, SlidingFields
          <6> QED
            BY <5>1, <6>1 DEF Slack
        <5> QED
          BY <1>4, <2>1, <2>2, <5>2, MeterTypes
      <4> QED
        BY <4>1, <4>2, SlidingFields
    <3> QED
      BY <1>3, <1>4, <1>6, <1>7, <2>4, <3>2 DEF CurveInv
  <2> QED
    BY <2>3, <2>4
<1> QED
  BY <1>8, <1>9 DEF Passing

LEMMA SlidingStep ==
    ASSUME TypeOK, SlidingInv, WindowsInv, CurveInv, strategy \in SlidingStates,
           [Next]_vars
    PROVE  strategy' \in SlidingStates /\ SlidingInv' /\ WindowsInv' /\ CurveInv'
<1> DEFINE s == strategy
           r == Refreshed(strategy)
<1>1. /\ r \in SlidingStates /\ r.age \in 0..(Period - 1) /\ r.age % Period = phase
      /\ Weighted(r) <= Capacity /\ Level(r) = Level(s) /\ inWindow <= r.curr + 1
  BY UpToDate
<1>2. granted * Period <= Level(s) + since * Limit + Period
  BY CurveOfSliding
<1>3. CASE Glance
  BY <1>3 DEF Glance, meter, SlidingInv, WindowsInv, CurveInv, Stale
<1>4. CASE Look \/ FirstReading
  <2>1. strategy' = r /\ UNCHANGED meter
    BY <1>4 DEF Look, FirstReading
  <2> QED
    BY <1>1, <1>2, <2>1, FreshSliding DEF meter
<1>5. CASE Granting(r)
  <2>1. /\ Allows(r) /\ strategy' = Taken(r) /\ inWindow' = inWindow + 1
        /\ granted' = granted + 1 /\ phase' = phase /\ since' = since
    BY <1>5 DEF Granting
  <2>2. r.age < Period
    BY <1>1, SlidingFields
  <2>3. /\ strategy' \in SlidingStates /\ strategy'.age = r.age
        /\ strategy'.curr = r.curr + 1 /\ Weighted(strategy') <= Capacity
        /\ Level(strategy') = Level(s) + Period
    BY <1>1, <2>1, <2>2, RoomForOne
  <2>4. granted' * Period <= Level(strategy') + since' * Limit + Period
    <3>1. granted' * Period = granted * Period + Period
      BY <2>1, MeterTypes
    <3> QED
      BY <1>2, <2>1, <2>3, <3>1, LevelNatural, MeterTypes
  <2>5. inWindow' <= strategy'.curr + 1
    <3>1. r.curr \in Nat
      BY <1>1, SlidingFields
    <3> QED
      BY <1>1, <2>1, <2>3, <3>1, MeterTypes
  <2> QED
    BY <1>1, <2>1, <2>3, <2>4, <2>5, FreshSliding
<1>6. CASE Weighing /\ Granting(s)
  <2>1. CASE s.age < Period
    BY <1>5, <1>6, <2>1, SlidingOperations
  <2>2. CASE s.age >= Period
    BY <1>6, <2>2, StaleGrant
  <2> QED
    BY <2>1, <2>2, SlidingFields
<1>7. CASE Passing
  BY <1>7, SlidingPasses
<1>8. CASE Measuring
  <2>1. /\ strategy' = s /\ (Weighing' <=> Weighing) /\ granted' = 0 /\ since' = 0
        /\ phase' = phase /\ inWindow' = inWindow /\ (Stale' <=> Stale)
    BY <1>8 DEF Measuring, Stale
  <2>2. granted' * Period <= Level(s) + since' * Limit + Period
    BY <2>1, LevelNatural, SlidingFields
  <2> QED
    BY <2>1, <2>2, SlidingFields DEF SlidingInv, WindowsInv, CurveInv
<1> QED
  BY <1>3, <1>4, <1>5, <1>6, <1>7, <1>8, StepEffect

-----------------------------------------------------------------------------
(* How long until a permit, strategy by strategy, for any state and any     *)
(* time left alone.                                                        *)

Later(s, t) == Allows(Refreshed(AgedBy(s, t)))

LEMMA TokenLater ==
    ASSUME NEW s \in TokenStates, NEW t \in Nat
    PROVE  Later(s, t) <=> Effective(s) + t * Limit >= Period
<1> DEFINE a == AgedBy(s, t)
<1>1. s.algorithm = "token" /\ s.tokens \in 0..Capacity /\ s.age \in 0..Period
  BY DEF TokenStates
<1>2. a = [s EXCEPT !.age = Least(s.age + t, Period)]
  BY <1>1 DEF AgedBy
<1>3. /\ a \in TokenStates /\ a.tokens = s.tokens /\ a.age = Least(s.age + t, Period)
      /\ a.age \in 0..Period
  BY <1>1, <1>2, Kinds DEF TokenStates, Least
<1>4. Later(s, t) <=> Effective(a) >= Period
  <2>1. Refreshed(a) \in TokenStates /\ Refreshed(a).tokens = Effective(a)
    BY <1>3, TokenOperations
  <2> QED
    BY <2>1, TokenOperations DEF Later
<1>5. Effective(a) >= Period <=> a.tokens + a.age * Limit >= Period
  <2>1. a.age * Limit \in Nat
    BY <1>3, Kinds
  <2> QED
    BY <1>1, <1>3, <2>1, Kinds DEF Effective, Least
<1>6. Effective(s) + t * Limit >= Period
        <=> s.tokens + s.age * Limit + t * Limit >= Period
  <2>1. s.age * Limit \in Nat /\ t * Limit \in Nat
    BY <1>1, Kinds
  <2> QED
    BY <1>1, <2>1, Kinds DEF Effective, Least
<1>7. (s.age + t) * Limit = s.age * Limit + t * Limit
  BY <1>1, Kinds
<1>8. CASE s.age + t <= Period
  <2>1. a.age = s.age + t
    BY <1>3, <1>8 DEF Least
  <2>2. a.age * Limit = s.age * Limit + t * Limit
    BY <1>7, <2>1
  <2>3. s.age * Limit \in Nat /\ t * Limit \in Nat
    BY <1>1, Kinds
  <2> QED
    BY <1>1, <1>3, <1>4, <1>5, <1>6, <2>2, <2>3
<1>9. CASE s.age + t > Period
  <2>1. a.age = Period
    BY <1>1, <1>3, <1>9, Kinds DEF Least
  <2>2. Period * Limit >= Period /\ (s.age + t) * Limit >= Period
    BY <1>1, <1>9, Kinds
  <2>3. s.tokens + a.age * Limit >= Period
    BY <1>1, <2>1, <2>2, Kinds
  <2>4. s.tokens + s.age * Limit + t * Limit >= Period
    <3>1. s.age * Limit \in Nat /\ t * Limit \in Nat
      BY <1>1, Kinds
    <3> QED
      BY <1>1, <1>7, <2>2, <3>1, Kinds
  <2> QED
    BY <1>3, <1>4, <1>5, <1>6, <2>3, <2>4
<1> QED
  BY <1>1, <1>8, <1>9, Kinds

LEMMA LeakyLater ==
    ASSUME NEW s \in LeakyStates, NEW t \in Nat
    PROVE  Later(s, t) <=> t * Limit >= s.wait
<1>1. s.algorithm = "leaky" /\ s.wait \in 0..Period
  BY DEF LeakyStates
<1>2. AgedBy(s, t) = [s EXCEPT !.wait = Most(s.wait - t * Limit, 0)]
  BY <1>1 DEF AgedBy
<1>3. t * Limit \in Nat
  BY Kinds
<1>4. /\ AgedBy(s, t) \in LeakyStates
      /\ AgedBy(s, t).wait = 0 <=> t * Limit >= s.wait
  BY <1>1, <1>2, <1>3, Kinds DEF LeakyStates, Most
<1> QED
  BY <1>4, LeakyOperations DEF Later

\* A window of whatever age, some ticks later.
LEMMA WindowAges ==
    ASSUME NEW age \in Nat
    PROVE  /\ WindowAge(age) \in 0..(3 * Period - 1)
           /\ age < 2 * Period => WindowAge(age) = age
           /\ age >= 2 * Period => WindowAge(age) >= 2 * Period
<1>1. age % Period \in 0..(Period - 1)
  BY AgeInPeriods
<1> QED
  BY <1>1, Kinds DEF WindowAge

LEMMA FixedLater ==
    ASSUME NEW s \in FixedStates, NEW t \in Nat
    PROVE  Later(s, t) <=> s.age + t >= Period \/ s.count < Limit
<1> DEFINE a == AgedBy(s, t)
<1>1. s.algorithm = "fixed" /\ s.count \in 0..Limit /\ s.age \in Nat /\ s.age + t \in Nat
  BY Kinds DEF FixedStates
<1>2. a = [s EXCEPT !.age = WindowAge(s.age + t)]
  BY <1>1 DEF AgedBy
<1>3. WindowAge(s.age + t) \in 0..(3 * Period - 1)
  BY <1>1, WindowAges
<1>4. a \in FixedStates /\ a.count = s.count /\ a.age = WindowAge(s.age + t)
  BY <1>2, <1>3 DEF FixedStates
<1>5. Refreshed(a) \in FixedStates /\ (Later(s, t) <=> Refreshed(a).count < Limit)
  BY <1>4, FixedOperations DEF Later
<1>6. CASE s.age + t < Period
  <2>1. a.age < Period
    BY <1>1, <1>4, <1>6, WindowAges, Kinds
  <2>2. Refreshed(a) = a
    BY <1>4, <2>1, FixedOperations
  <2> QED
    BY <1>1, <1>4, <1>5, <1>6, <2>2, Kinds
<1>7. CASE s.age + t >= Period
  <2>1. a.age >= Period
    BY <1>1, <1>3, <1>4, <1>7, WindowAges, Kinds
  <2>2. Refreshed(a).count = 0
    <3>1. Refreshed(a) = [algorithm |-> "fixed", count |-> 0, age |-> a.age % Period]
      BY <1>4, <2>1, FixedOperations
    <3> QED
      BY <3>1
  <2> QED
    BY <1>5, <1>7, <2>2, Kinds
<1> QED
  BY <1>1, <1>6, <1>7, Kinds

\* The sliding window's level at an age.
LevelAt(s, age) ==
    IF age < Period THEN s.prev * (Period - age) + s.curr * Period
    ELSE IF age < 2 * Period THEN s.curr * (2 * Period - age)
    ELSE 0

LEMMA SlidingLater ==
    ASSUME NEW s \in SlidingStates, NEW t \in Nat
    PROVE  Later(s, t) <=> LevelAt(s, s.age + t) + Period <= Capacity
<1> DEFINE a == AgedBy(s, t)
<1>1. s.algorithm = "sliding" /\ s.age \in Nat /\ s.age + t \in Nat
  BY SlidingFields
<1>2. a = [s EXCEPT !.age = WindowAge(s.age + t)]
  BY <1>1 DEF AgedBy
<1>3. WindowAge(s.age + t) \in 0..(3 * Period - 1)
  BY <1>1, WindowAges
<1>4. /\ a \in SlidingStates /\ a.prev = s.prev /\ a.curr = s.curr
      /\ a.age = WindowAge(s.age + t)
  BY <1>2, <1>3 DEF SlidingStates
<1>5. /\ Refreshed(a) \in SlidingStates /\ Refreshed(a).age < Period
      /\ Level(Refreshed(a)) = Level(a)
  BY <1>4, SlidingOperations
<1>6. Later(s, t) <=> Level(a) + Period <= Capacity
  <2>1. Level(Refreshed(a)) = Weighted(Refreshed(a))
    BY <1>5 DEF Level
  <2> QED
    BY <1>5, <2>1, SlidingOperations DEF Later
<1>7. Level(a) = LevelAt(s, s.age + t)
  <2>1. CASE s.age + t < 2 * Period
    <3>1. a.age = s.age + t
      BY <1>1, <1>4, <2>1, WindowAges
    <3> QED
      BY <1>4, <3>1 DEF Level, LevelAt, Weighted
  <2>2. CASE s.age + t >= 2 * Period
    <3>1. a.age >= 2 * Period /\ a.age \in Nat
      BY <1>1, <1>3, <1>4, <2>2, WindowAges, Kinds
    <3> QED
      BY <1>1, <2>2, <3>1, Kinds DEF Level, LevelAt
  <2> QED
    BY <1>1, <2>1, <2>2, Kinds
<1> QED
  BY <1>6, <1>7

\* Bringing the counts up to date does not change the level at any later time.
LEMMA LevelKept ==
    ASSUME NEW s \in SlidingStates, NEW t \in Nat
    PROVE  LevelAt(Refreshed(s), Refreshed(s).age + t) = LevelAt(s, s.age + t)
<1> DEFINE r == Refreshed(s)
<1>1. /\ s.age < Period => r = s
      /\ s.age >= Period =>
           r = [algorithm |-> "sliding", prev |-> IF s.age < 2 * Period THEN s.curr ELSE 0,
                curr |-> 0, age |-> s.age % Period]
  BY SlidingOperations
<1>2. CASE s.age < Period
  BY <1>1, <1>2
<1>3. CASE s.age >= Period /\ s.age < 2 * Period
  <2>1. s.age \in Nat
    BY SlidingFields
  <2>2. s.age % Period = s.age - Period
    BY <1>3, <2>1, AgeInPeriods
  <2>3. r.prev = s.curr /\ r.curr = 0 /\ r.age = s.age - Period
    BY <1>1, <1>3, <2>2
  <2>4. CASE s.age + t < 2 * Period
    <3>1. /\ r.age + t < Period /\ ~(s.age + t < Period)
          /\ Period - (r.age + t) = 2 * Period - (s.age + t)
      BY <1>3, <2>3, <2>4, SlidingFields
    <3>2. LevelAt(r, r.age + t) = s.curr * (2 * Period - (s.age + t)) + 0 * Period
      BY <2>3, <3>1 DEF LevelAt
    <3>3. LevelAt(s, s.age + t) = s.curr * (2 * Period - (s.age + t))
      BY <2>4, <3>1 DEF LevelAt
    <3>4. s.curr * (2 * Period - (s.age + t)) \in Int
      BY SlidingFields
    <3> QED
      BY <3>2, <3>3, <3>4, SlidingFields
  <2>5. CASE s.age + t >= 2 * Period
    <3>1. /\ ~(r.age + t < Period) /\ ~(s.age + t < Period) /\ ~(s.age + t < 2 * Period)
          /\ r.age + t \in Nat
      BY <1>3, <2>3, <2>5, SlidingFields
    <3>2. LevelAt(r, r.age + t) = 0
      BY <2>3, <3>1, SlidingFields DEF LevelAt
    <3>3. LevelAt(s, s.age + t) = 0
      BY <3>1 DEF LevelAt
    <3> QED
      BY <3>2, <3>3
  <2> QED
    BY <2>1, <2>4, <2>5, SlidingFields
<1>4. CASE s.age >= 2 * Period
  <2>1. /\ ~(s.age < 2 * Period) /\ s.age >= Period
        /\ ~(s.age + t < Period) /\ ~(s.age + t < 2 * Period)
    BY <1>4, SlidingFields
  <2>2. r.prev = 0 /\ r.curr = 0
    BY <1>1, <2>1
  <2>3. r \in SlidingStates /\ r.age \in Nat
    BY SlidingOperations, SlidingFields
  <2>4. LevelAt(r, r.age + t) = 0
    BY <2>2, <2>3, SlidingFields DEF LevelAt
  <2> QED
    BY <2>1, <2>4 DEF LevelAt
<1> QED
  BY <1>2, <1>3, <1>4, SlidingFields

\* Looking early changes no later decision.
LEMMA LookingEarly ==
    ASSUME NEW s \in States, NEW t \in Nat
    PROVE  Later(Refreshed(s), t) <=> Later(s, t)
<1>1. CASE s \in TokenStates
  <2>1. Refreshed(s) \in TokenStates /\ Effective(Refreshed(s)) = Effective(s)
    BY <1>1, TokenOperations
  <2> QED
    BY <1>1, <2>1, TokenLater
<1>2. CASE s \in LeakyStates
  BY <1>2, LeakyOperations
<1>3. CASE s \in FixedStates
  <2> DEFINE r == Refreshed(s)
  <2>1. r \in FixedStates /\ s.age \in Nat
    BY <1>3, FixedOperations DEF FixedStates
  <2>2. CASE s.age < Period
    BY <1>3, <2>2, FixedOperations
  <2>3. CASE s.age >= Period
    <3>1. r.count = 0
      <4>1. r = [algorithm |-> "fixed", count |-> 0, age |-> s.age % Period]
        BY <1>3, <2>3, FixedOperations
      <4> QED
        BY <4>1
    <3>2. Later(r, t)
      BY <2>1, <3>1, FixedLater, Kinds
    <3>3. s.age + t >= Period
      BY <2>1, <2>3, Kinds
    <3>4. Later(s, t)
      BY <1>3, <3>3, FixedLater
    <3> QED
      BY <3>2, <3>4
  <2> QED
    BY <2>1, <2>2, <2>3, Kinds
<1>4. CASE s \in SlidingStates
  <2>1. Refreshed(s) \in SlidingStates
    BY <1>4, SlidingOperations
  <2>2. Later(s, t) <=> LevelAt(s, s.age + t) + Period <= Capacity
    BY <1>4, SlidingLater
  <2>3. Later(Refreshed(s), t)
          <=> LevelAt(Refreshed(s), Refreshed(s).age + t) + Period <= Capacity
    BY <2>1, SlidingLater
  <2> QED
    BY <1>4, <2>2, <2>3, LevelKept
<1> QED
  BY <1>1, <1>2, <1>3, <1>4, Kinds

-----------------------------------------------------------------------------
(* The estimate of the wait.                                               *)

\* How the estimate is worked out when no permit is free.
LEMMA EstimateByKind ==
    ASSUME NEW s
    PROVE  /\ Allows(s) => SecondsUntilAvailable(s) = 0
           /\ ~Allows(s) /\ s.algorithm = "token" =>
                SecondsUntilAvailable(s) = Ceil(Period - s.tokens, Limit)
           /\ ~Allows(s) /\ s.algorithm = "leaky" =>
                SecondsUntilAvailable(s) = Ceil(s.wait, Limit)
           /\ ~Allows(s) /\ s.algorithm = "fixed" =>
                SecondsUntilAvailable(s) = UntilNextWindow(s)
           /\ ~Allows(s) /\ s.algorithm = "sliding" =>
                SecondsUntilAvailable(s)
                  = IF s.prev > 0
                      THEN Least(Most(0, UntilWeightFalls(s)), UntilNextWindow(s))
                      ELSE UntilNextWindow(s)
BY DEF SecondsUntilAvailable

\* The estimate of a strategy that is up to date: a natural number of ticks, no
\* permit before it, and but for the sliding window one from then on.
EstimateExact(s) ==
    /\ SecondsUntilAvailable(s) \in Nat
    /\ \A t \in Nat : Later(s, t) => t >= SecondsUntilAvailable(s)
    /\ s.algorithm # "sliding" =>
         \A t \in Nat : t >= SecondsUntilAvailable(s) => Later(s, t)

LEMMA TokenEstimate ==
    ASSUME NEW s \in TokenStates, s.age = 0
    PROVE  EstimateExact(s)
<1>1. s.algorithm = "token" /\ s.tokens \in 0..Capacity /\ Effective(s) = s.tokens
  BY Kinds DEF TokenStates, Effective, Least
<1>2. Allows(s) <=> s.tokens >= Period
  BY TokenOperations
<1>3. \A t \in Nat : t * Limit \in Nat /\ (Later(s, t) <=> s.tokens + t * Limit >= Period)
  BY <1>1, TokenLater, Kinds
<1>4. CASE s.tokens >= Period
  <2>1. SecondsUntilAvailable(s) = 0
    BY <1>2, <1>4, EstimateByKind
  <2> QED
    BY <1>1, <1>3, <1>4, <2>1, Kinds DEF EstimateExact
<1>5. CASE s.tokens < Period
  <2> DEFINE e == Ceil(Period - s.tokens, Limit)
  <2>1. SecondsUntilAvailable(s) = e
    BY <1>1, <1>2, <1>5, EstimateByKind, Kinds
  <2>2. e \in Int /\ \A t \in Int : t >= e <=> t * Limit >= Period - s.tokens
    <3>1. Period - s.tokens \in Int /\ Limit \in Nat \ {0}
      BY <1>1, Kinds
    <3> QED
      BY <3>1, CeilIsLeast
  <2>3. e \in Nat
    <3>1. ~(0 * Limit >= Period - s.tokens)
      BY <1>1, <1>5, Kinds
    <3>2. ~(0 >= e)
      BY <2>2, <3>1
    <3> QED
      BY <2>2, <3>2
  <2> HIDE DEF e
  <2>4. \A t \in Nat : Later(s, t) <=> t >= e
    <3> SUFFICES ASSUME NEW t \in Nat PROVE Later(s, t) <=> t >= e
      OBVIOUS
    <3>1. s.tokens + t * Limit >= Period <=> t * Limit >= Period - s.tokens
      BY <1>1, <1>3, Kinds
    <3> QED
      BY <1>3, <2>2, <3>1
  <2> QED
    BY <2>1, <2>3, <2>4 DEF EstimateExact
<1> QED
  BY <1>1, <1>4, <1>5, Kinds

LEMMA LeakyEstimate ==
    ASSUME NEW s \in LeakyStates
    PROVE  EstimateExact(s)
<1>1. s.algorithm = "leaky" /\ s.wait \in 0..Period
  BY DEF LeakyStates
<1>2. Allows(s) <=> s.wait = 0
  BY LeakyOperations
<1>3. \A t \in Nat : t * Limit \in Nat /\ (Later(s, t) <=> t * Limit >= s.wait)
  BY LeakyLater, Kinds
<1>4. CASE s.wait = 0
  <2>1. SecondsUntilAvailable(s) = 0
    BY <1>2, <1>4, EstimateByKind
  <2> QED
    BY <1>1, <1>3, <1>4, <2>1 DEF EstimateExact
<1>5. CASE s.wait # 0
  <2> DEFINE e == Ceil(s.wait, Limit)
  <2>1. SecondsUntilAvailable(s) = e
    BY <1>1, <1>2, <1>5, EstimateByKind
  <2>2. e \in Int /\ \A t \in Int : t >= e <=> t * Limit >= s.wait
    <3>1. s.wait \in Int /\ Limit \in Nat \ {0}
      BY <1>1, Kinds
    <3> QED
      BY <3>1, CeilIsLeast
  <2>3. e \in Nat
    <3>1. ~(0 * Limit >= s.wait)
      BY <1>1, <1>5, Kinds
    <3>2. ~(0 >= e)
      BY <2>2, <3>1
    <3> QED
      BY <2>2, <3>2
  <2> HIDE DEF e
  <2> QED
    BY <1>1, <1>3, <2>1, <2>2, <2>3 DEF EstimateExact
<1> QED
  BY <1>4, <1>5

LEMMA FixedEstimate ==
    ASSUME NEW s \in FixedStates, s.age < Period
    PROVE  EstimateExact(s)
<1>1. s.algorithm = "fixed" /\ s.count \in 0..Limit /\ s.age \in Nat
  BY Kinds DEF FixedStates
<1>2. Allows(s) <=> s.count < Limit
  BY FixedOperations
<1>3. \A t \in Nat : Later(s, t) <=> s.age + t >= Period \/ s.count < Limit
  BY FixedLater
<1>4. CASE s.count < Limit
  <2>1. SecondsUntilAvailable(s) = 0
    BY <1>2, <1>4, EstimateByKind
  <2> QED
    BY <1>1, <1>3, <1>4, <2>1 DEF EstimateExact
<1>5. CASE ~(s.count < Limit)
  <2>1. SecondsUntilAvailable(s) = Period - s.age
    BY <1>1, <1>2, <1>5, EstimateByKind, Kinds DEF UntilNextWindow, Most
  <2> QED
    BY <1>1, <1>3, <1>5, <2>1, Kinds DEF EstimateExact
<1> QED
  BY <1>4, <1>5

LEMMA SlidingEstimate ==
    ASSUME NEW s \in SlidingStates, s.age < Period
    PROVE  EstimateExact(s)
<1>1. /\ s.algorithm = "sliding" /\ s.prev \in 0..Limit /\ s.curr \in 0..Limit
      /\ s.age \in Nat /\ Capacity \in Nat
  BY SlidingFields, Kinds
<1>2. /\ Weighted(s) \in Int
      /\ Weighted(s) = s.prev * (Period - s.age) + s.curr * Period
      /\ s.prev * (Period - s.age) \in Int /\ s.curr * Period \in Int
  BY SlidingFields DEF Weighted
<1>3. Allows(s) <=> Weighted(s) + Period <= Capacity
  BY SlidingOperations
<1>4. CASE Allows(s)
  <2>1. SecondsUntilAvailable(s) = 0
    BY <1>4, EstimateByKind
  <2> QED
    BY <1>1, <2>1 DEF EstimateExact
<1>5. CASE ~Allows(s)
  <2> DEFINE w == UntilNextWindow(s)
             e == SecondsUntilAvailable(s)
             c == UntilWeightFalls(s)
  <2>1. w = Period - s.age /\ w \in Nat
    BY <1>1, SlidingFields DEF UntilNextWindow, Most
  <2>2. e = IF s.prev > 0 THEN Least(Most(0, c), w) ELSE w
    BY <1>1, <1>5, EstimateByKind
  <2>3. s.prev > 0 =>
          /\ c \in Int
          /\ \A t \in Int : t >= c <=> t * s.prev >= Weighted(s) + Period - Capacity
    <3> SUFFICES ASSUME s.prev > 0
                 PROVE  c \in Int /\ \A t \in Int :
                          t >= c <=> t * s.prev >= Weighted(s) + Period - Capacity
      OBVIOUS
    <3>1. s.prev \in Nat \ {0} /\ Weighted(s) + Period - Capacity \in Int
      BY <1>1, <1>2, SlidingFields
    <3> QED
      BY <3>1, CeilIsLeast DEF UntilWeightFalls
  <2> HIDE DEF w, c
  <2>4. e \in Nat /\ e <= w
    BY <1>1, <2>1, <2>2, <2>3 DEF Least, Most
  <2>5. ASSUME NEW t \in Nat, Later(s, t)
        PROVE  t >= e
    <3>1. LevelAt(s, s.age + t) + Period <= Capacity
      BY <2>5, SlidingLater
    <3>2. CASE s.age + t >= Period
      BY <1>1, <2>1, <2>4, <3>2, SlidingFields
    <3>3. CASE s.age + t < Period
      <4>1. s.prev * (Period - (s.age + t)) + s.curr * Period + Period <= Capacity
        BY <3>1, <3>3 DEF LevelAt
      <4>2. s.prev * (Period - (s.age + t)) = s.prev * (Period - s.age) - t * s.prev
            /\ t * s.prev \in Int
        BY <1>1, SlidingFields
      <4>3. t * s.prev >= Weighted(s) + Period - Capacity
        BY <1>1, <1>2, <4>1, <4>2, SlidingFields
      <4>4. CASE s.prev > 0
        <5>1. t >= c
          BY <2>3, <4>3, <4>4
        <5> QED
          BY <2>1, <2>2, <2>3, <4>4, <5>1 DEF Least, Most
      <4>5. CASE s.prev = 0
        <5>1. t * s.prev = 0
          BY <4>5
        <5>2. Weighted(s) + Period <= Capacity
          BY <1>1, <1>2, <4>3, <5>1, SlidingFields
        <5> QED
          BY <1>3, <1>5, <5>2
      <4> QED
        BY <1>1, <4>4, <4>5
    <3> QED
      BY <1>1, <3>2, <3>3, SlidingFields
  <2> QED
    BY <1>1, <2>4, <2>5 DEF EstimateExact
<1> QED
  BY <1>4, <1>5

LEMMA Estimates ==
    ASSUME NEW s \in States
    PROVE  EstimateExact(Refreshed(s))
<1>1. CASE s \in TokenStates
  <2>1. /\ Refreshed(s) \in TokenStates
        /\ Refreshed(s) = [algorithm |-> "token", tokens |-> Effective(s), age |-> 0]
    BY <1>1, TokenOperations
  <2>2. Refreshed(s).age = 0
    BY <2>1
  <2> QED
    BY <2>1, <2>2, TokenEstimate
<1>2. CASE s \in LeakyStates
  BY <1>2, LeakyOperations, LeakyEstimate
<1>3. CASE s \in FixedStates
  BY <1>3, FixedOperations, FixedEstimate
<1>4. CASE s \in SlidingStates
  BY <1>4, SlidingOperations, SlidingEstimate
<1> QED
  BY <1>1, <1>2, <1>3, <1>4, Kinds

-----------------------------------------------------------------------------
(* The invariant holds, and what follows from it.                          *)

LEMMA InitInv == Init => Inv
<1> SUFFICES ASSUME Init PROVE Inv
  OBVIOUS
<1>1. PICK algorithm \in Algorithms : strategy = Fresh(algorithm)
  BY LimiterAssumption DEF Init
<1>2. /\ since = 0 /\ granted = 0 /\ inWindow = 0 /\ phase = 0
      /\ ~Weighing /\ ~Stale
  BY DEF Init, Weighing, Stale
<1>3. 0 % Period = 0 /\ 0 * Period = 0 /\ 0 * Limit = 0
  BY AgeInPeriods, Kinds
<1>4. strategy \in States
  BY <1>1, Kinds
     DEF Algorithms, Fresh, TokenStates, LeakyStates, FixedStates, SlidingStates
<1>5. TypeOK
  BY <1>2, <1>4, LimiterAssumption, Kinds DEF Init, TypeOK
<1>6. CASE algorithm = "token"
  <2>1. strategy = [algorithm |-> "token", tokens |-> Capacity, age |-> 0]
    BY <1>1, <1>6 DEF Fresh
  <2>2. Effective(strategy) = Capacity
    BY <2>1, Kinds DEF Effective, Least
  <2> QED
    BY <1>2, <1>3, <1>5, <2>1, <2>2, Kinds DEF Inv, SlidingInv, WindowsInv, CurveInv
<1>7. CASE algorithm = "leaky"
  <2>1. strategy = [algorithm |-> "leaky", wait |-> 0]
    BY <1>1, <1>7 DEF Fresh
  <2> QED
    BY <1>2, <1>3, <1>5, <2>1 DEF Inv, SlidingInv, WindowsInv, CurveInv
<1>8. CASE algorithm = "fixed"
  <2>1. strategy = [algorithm |-> "fixed", count |-> 0, age |-> 0]
    BY <1>1, <1>8 DEF Fresh
  <2>2. WindowsInv /\ SlidingInv
    BY <1>2, <1>3, <2>1, Kinds DEF WindowsInv, SlidingInv
  <2>3. 0 * Period <= since - phase + Period - 1 /\ granted <= Limit * 0 + inWindow
    BY <1>2, <1>3, Kinds
  <2>4. CurveInv
    BY <2>1, <2>3 DEF CurveInv
  <2> QED
    BY <1>5, <2>2, <2>4 DEF Inv
<1>9. CASE algorithm = "sliding"
  <2>1. strategy = [algorithm |-> "sliding", prev |-> 0, curr |-> 0, age |-> 0]
    BY <1>1, <1>9 DEF Fresh
  <2>2. Level(strategy) = 0 /\ Weighted(strategy) = 0
    BY <2>1, Kinds DEF Level, Weighted
  <2>3. SlidingInv /\ WindowsInv
    BY <1>2, <1>3, <2>1, <2>2, Kinds DEF SlidingInv, WindowsInv
  <2>4. CurveInv
    BY <1>2, <1>3, <2>1, <2>2, Kinds DEF CurveInv
  <2> QED
    BY <1>5, <2>3, <2>4 DEF Inv
<1> QED
  BY <1>1, <1>6, <1>7, <1>8, <1>9 DEF Algorithms

LEMMA StrategyStep ==
    ASSUME Inv, [Next]_vars
    PROVE  strategy' \in States /\ SlidingInv' /\ WindowsInv' /\ CurveInv'
<1>1. TypeOK /\ SlidingInv /\ WindowsInv /\ CurveInv /\ strategy \in States
  BY DEF Inv, TypeOK
<1>2. CASE strategy \in TokenStates
  <2>1. strategy' \in TokenStates /\ ~Weighing' /\ CurveInv'
    BY <1>1, <1>2, TokenStep
  <2>2. strategy'.algorithm = "token"
    BY <2>1 DEF TokenStates
  <2> QED
    BY <2>1, <2>2, Kinds DEF SlidingInv, WindowsInv
<1>3. CASE strategy \in LeakyStates
  <2>1. strategy' \in LeakyStates /\ ~Weighing' /\ CurveInv'
    BY <1>1, <1>3, LeakyStep
  <2>2. strategy'.algorithm = "leaky"
    BY <2>1 DEF LeakyStates
  <2> QED
    BY <2>1, <2>2, Kinds DEF SlidingInv, WindowsInv
<1>4. CASE strategy \in FixedStates
  <2>1. strategy' \in FixedStates /\ WindowsInv'
    BY <1>1, <1>4, FixedWindows
  <2>2. ~Weighing' /\ CurveInv'
    BY <1>1, <1>4, <2>1, FixedCurve
  <2>3. strategy'.algorithm = "fixed"
    BY <2>1 DEF FixedStates
  <2> QED
    BY <2>1, <2>2, <2>3, Kinds DEF SlidingInv
<1>5. CASE strategy \in SlidingStates
  BY <1>1, <1>5, SlidingStep, Kinds
<1> QED
  BY <1>1, <1>2, <1>3, <1>4, <1>5, Kinds

\* A nap never outlasts the deadline; the lock has at most one holder.
LEMMA CallersStep ==
    ASSUME TypeOK, [Next]_vars
    PROVE  /\ pc' \in [Callers -> {"idle", "asking", "weighing", "running"}]
           /\ patience' \in [Callers -> 0..Timeout]
           /\ nap' \in [Callers -> 0..Timeout]
           /\ \A c, d \in Callers : pc'[c] = "weighing" /\ pc'[d] = "weighing" => c = d
<1> USE DEF TypeOK
<1> DEFINE Claim == /\ pc' \in [Callers -> {"idle", "asking", "weighing", "running"}]
                    /\ patience' \in [Callers -> 0..Timeout]
                    /\ nap' \in [Callers -> 0..Timeout]
                    /\ \A c, d \in Callers :
                         pc'[c] = "weighing" /\ pc'[d] = "weighing" => c = d
<1>1. ASSUME NEW c \in Callers, Start(c) PROVE Claim
  BY <1>1, LimiterAssumption DEF Start, Goto
<1>2. ASSUME NEW c \in Callers, CancelSleep(c) PROVE Claim
  BY <1>2, LimiterAssumption DEF CancelSleep, Goto
<1>3. ASSUME NEW c \in Callers, Finish(c) PROVE Claim
  BY <1>3 DEF Finish, Goto
<1>4. ASSUME NEW c \in Callers, Advance(c) PROVE Claim
  BY <1>4 DEF Advance, Ready, LockFree, Goto
<1>5. ASSUME NEW c \in Callers, NEW s \in {strategy, Refreshed(strategy)}, Decide(c, s)
      PROVE  Claim
  <2>1. CASE Grant(c, s)
    BY <2>1, LimiterAssumption DEF Grant, Goto
  <2>2. CASE Reject(c, s)
    BY <2>2 DEF Reject, Goto
  <2>3. CASE Sleep(c, s)
    <3> DEFINE e == SecondsUntilAvailable(Refreshed(s))
    <3>1. Refreshed(s) = Refreshed(strategy)
      BY RefreshedOnce
    <3>2. e \in Nat
      BY <3>1, Estimates DEF EstimateExact
    <3>3. Least(e, patience[c]) \in 0..Timeout
      BY <3>2, LimiterAssumption DEF Least
    <3>4. nap' \in [Callers -> 0..Timeout]
      BY <2>3, <3>3 DEF Sleep
    <3> QED
      BY <2>3, <3>4 DEF Sleep, Goto, DeadlineAfterRound
  <2> QED
    BY <1>5, <2>1, <2>2, <2>3 DEF Decide
<1>6. CASE Tick
  <2>1. \A x \in 0..Timeout : Most(x - 1, 0) \in 0..Timeout
    BY LimiterAssumption DEF Most
  <2> QED
    BY <1>6, <2>1 DEF Tick, CountDown
<1>7. CASE Measure \/ UNCHANGED vars
  BY <1>7 DEF Measure, vars
<1> QED
  BY <1>1, <1>2, <1>3, <1>4, <1>5, <1>6, <1>7 DEF Next, Round, Weigh

LEMMA MeterStep ==
    ASSUME TypeOK, [Next]_vars
    PROVE  /\ phase' \in 0..(Period - 1) /\ since' \in 0..Horizon
           /\ inWindow' \in Nat /\ granted' \in Nat
<1> USE DEF TypeOK
<1>1. CASE Tick
  <2>1. (phase + 1) % Period \in 0..(Period - 1)
    BY AgeInPeriods, Kinds
  <2> QED
    BY <1>1, <2>1, LimiterAssumption DEF Tick
<1>2. CASE Measure
  BY <1>2, LimiterAssumption DEF Measure
<1>3. ASSUME NEW c \in Callers, NEW s, Decide(c, s)
      PROVE  /\ phase' = phase /\ since' = since
             /\ inWindow' \in {inWindow, inWindow + 1}
             /\ granted' \in {granted, granted + 1}
  BY <1>3 DEF Decide, Grant, Reject, Sleep, meter
<1>4. ASSUME NEW c \in Callers,
             Start(c) \/ Advance(c) \/ Finish(c) \/ CancelSleep(c)
      PROVE  UNCHANGED meter
  BY <1>4 DEF Start, Advance, Finish, CancelSleep
<1>5. CASE UNCHANGED vars
  BY <1>5 DEF vars, meter
<1> QED
  BY <1>1, <1>2, <1>3, <1>4, <1>5 DEF Next, Round, Weigh, meter

LEMMA NextInv == Inv /\ [Next]_vars => Inv'
<1> SUFFICES ASSUME Inv, [Next]_vars PROVE Inv'
  OBVIOUS
<1>1. TypeOK
  BY DEF Inv
<1>2. strategy' \in States /\ SlidingInv' /\ WindowsInv' /\ CurveInv'
  BY StrategyStep
<1>3. States' = States
  BY DEF States, Capacity
<1>4. TypeOK'
  BY <1>1, <1>2, <1>3, CallersStep, MeterStep DEF TypeOK
<1> QED
  BY <1>2, <1>4 DEF Inv

LEMMA Invariance == Spec => []Inv
<1> QED
  BY InitInv, NextInv, PTL DEF Spec

\* Every variable keeps its type: in particular no sliding count passes the
\* limit, and no caller sleeps past its deadline.
THEOREM TypeCorrect == Spec => []TypeOK
<1>1. Inv => TypeOK
  BY DEF Inv
<1> QED
  BY <1>1, Invariance, PTL

\* The windows grant the limit in a period, and the sliding one at most one
\* permit more, however the callers interleave with the clock.
THEOREM LimitPerPeriod == Spec => []PeriodLimit
<1>1. Inv => PeriodLimit
  <2> SUFFICES ASSUME Inv PROVE PeriodLimit
    OBVIOUS
  <2>1. CASE strategy.algorithm = "fixed"
    <3>1. strategy \in FixedStates
      BY <2>1, Kinds
         DEF Inv, TypeOK, TokenStates, LeakyStates, FixedStates, SlidingStates
    <3>2. inWindow <= Limit
      BY <2>1, <3>1, Kinds DEF Inv, WindowsInv, FixedStates
    <3> QED
      BY <2>1, <3>2 DEF PeriodLimit
  <2>2. CASE strategy.algorithm = "sliding"
    <3>1. strategy \in SlidingStates
      BY <2>2, Kinds
         DEF Inv, TypeOK, TokenStates, LeakyStates, FixedStates, SlidingStates
    <3>2. inWindow <= Limit + 1
      BY <2>2, <3>1, SlidingFields, MeterTypes DEF Inv, WindowsInv
    <3> QED
      BY <2>2, <3>2 DEF PeriodLimit
  <2> QED
    BY <2>1, <2>2 DEF PeriodLimit
<1> QED
  BY <1>1, Invariance, PTL

\* In any stretch of time, begun at any moment, each strategy grants no more
\* than its curve.
THEOREM WithinCurve == Spec => []GrantsWithinCurve
<1>1. Inv => GrantsWithinCurve
  <2> SUFFICES ASSUME Inv PROVE GrantsWithinCurve
    OBVIOUS
  <2>1. strategy \in States /\ TypeOK /\ CurveInv /\ WindowsInv
    BY DEF Inv, TypeOK
  <2>2. CASE strategy \in TokenStates
    <3>1. strategy.algorithm = "token"
      BY <2>2 DEF TokenStates
    <3>2. Effective(strategy) \in 0..Capacity
      BY <2>2, TokenOperations
    <3>3. granted * Period <= Capacity + since * Limit
      BY <2>1, <3>1, <3>2, MeterTypes, Kinds DEF CurveInv
    <3> QED
      BY <3>1, <3>3 DEF GrantsWithinCurve
  <2>3. CASE strategy \in LeakyStates
    <3>1. strategy.algorithm = "leaky" /\ strategy.wait \in 0..Period
      BY <2>3 DEF LeakyStates
    <3>2. granted * Period <= Period + since * Limit
      BY <2>1, <3>1, MeterTypes DEF CurveInv
    <3> QED
      BY <3>1, <3>2 DEF GrantsWithinCurve
  <2>4. CASE strategy \in FixedStates
    <3>1. strategy.algorithm = "fixed" /\ strategy.count \in 0..Limit
      BY <2>4 DEF FixedStates
    <3>2. PICK k \in Nat : k * Period <= since - phase + Period - 1
                           /\ granted <= Limit * k + inWindow
      BY <2>1, <3>1 DEF CurveInv
    <3> DEFINE q == since \div Period
    <3>3. q \in Int /\ since < Period * q + Period
      <4>1. since \in Int /\ Period \in Nat \ {0}
        BY <2>1, MeterTypes
      <4>2. q \in Int /\ since % Period \in 0..(Period - 1)
            /\ since = Period * q + (since % Period)
        BY <4>1, Division
      <4> HIDE DEF q
      <4>3. Period * q \in Int
        BY <4>1, <4>2
      <4> QED
        BY <4>1, <4>2, <4>3
    <3> HIDE DEF q
    <3>4. k * Period < Period * q + 2 * Period
      <4>1. k * Period \in Int /\ Period * q \in Int
        BY <2>1, <3>2, <3>3, MeterTypes
      <4> QED
        BY <2>1, <3>2, <3>3, <4>1, MeterTypes
    <3>5. k <= q + 1
      BY <2>1, <3>2, <3>3, <3>4, MeterTypes
    <3>6. Limit * k <= Limit * (q + 1) /\ Limit * (q + 2) = Limit * (q + 1) + Limit
      BY <3>2, <3>3, <3>5, Kinds
    <3>7. inWindow <= Limit
      BY <2>1, <3>1, Kinds DEF WindowsInv
    <3>8. Limit * k \in Int /\ Limit * (q + 1) \in Int
      BY <3>2, <3>3, Kinds
    <3>9. granted <= Limit * (q + 2)
      BY <2>1, <3>2, <3>6, <3>7, <3>8, MeterTypes
    <3> QED
      BY <3>1, <3>9 DEF GrantsWithinCurve, q
  <2>5. CASE strategy \in SlidingStates
    <3>1. strategy.algorithm = "sliding"
      BY <2>5, SlidingFields
    <3>2. granted * Period <= Level(strategy) + since * Limit + Period
      BY <2>1, <2>5, CurveOfSliding
    <3>3. Level(strategy) <= Capacity
      <4>1. /\ Refreshed(strategy) \in SlidingStates
            /\ Refreshed(strategy).age \in 0..(Period - 1)
            /\ Weighted(Refreshed(strategy)) <= Capacity
            /\ Level(Refreshed(strategy)) = Level(strategy)
        BY <2>5, UpToDate DEF Inv
      <4>2. Refreshed(strategy).age < Period
        BY <4>1, SlidingFields
      <4> QED
        BY <4>1, <4>2 DEF Level
    <3>4. granted * Period <= Capacity + Period + since * Limit
      BY <2>1, <2>5, <3>2, <3>3, LevelNatural, MeterTypes, Kinds
    <3> QED
      BY <3>1, <3>4 DEF GrantsWithinCurve
  <2> QED
    BY <2>1, <2>2, <2>3, <2>4, <2>5, Kinds
<1> QED
  BY <1>1, Invariance, PTL

\* The estimate a caller sleeps by is exact, but for the sliding window's,
\* which may be too short.
THEOREM WaitsAreExact == Spec => []WaitTimeExact
<1>1. TypeOK => WaitTimeExact
  <2> SUFFICES ASSUME TypeOK, NEW ticks \in 0..(3 * Period)
               PROVE  /\ PermitAfter(ticks) => ticks >= Estimate
                      /\ strategy.algorithm # "sliding" /\ ticks >= Estimate
                           => PermitAfter(ticks)
    BY DEF WaitTimeExact
  <2>1. strategy \in States /\ ticks \in Nat
    BY Kinds DEF TypeOK
  <2>2. /\ EstimateExact(Refreshed(strategy))
        /\ Refreshed(strategy).algorithm = strategy.algorithm
    BY <2>1, Estimates, RefreshedOnce
  <2>3. PermitAfter(ticks) <=> Later(Refreshed(strategy), ticks)
    BY <2>1, LookingEarly DEF PermitAfter, Later
  <2> QED
    BY <2>1, <2>2, <2>3 DEF EstimateExact, Estimate
<1> QED
  BY <1>1, TypeCorrect, PTL

\* Looking at the limiter, which brings its strategy up to date, changes no
\* later decision.
THEOREM ReadingHarmless == Spec => []ReadingIsHarmless
<1>1. TypeOK => ReadingIsHarmless
  <2> SUFFICES ASSUME TypeOK, NEW ticks \in 0..(3 * Period)
               PROVE  PermitAfter(ticks)
                        <=> Allows(Refreshed(AgedBy(Refreshed(strategy), ticks)))
    BY DEF ReadingIsHarmless
  <2>1. strategy \in States /\ ticks \in Nat
    BY Kinds DEF TypeOK
  <2> QED
    BY <2>1, LookingEarly DEF PermitAfter, Later
<1> QED
  BY <1>1, TypeCorrect, PTL
=============================================================================
