# pysilience in TLA+

Specifications of [pysilience](../src/README.md), a Python library of resilience
patterns, with the TLC configurations that check them on small instances and the
TLAPS proofs of their main results. Line numbers refer to
`src/src/pysilience/<file>.py`.

`tlc -config MCBulkhead.cfg MCBulkhead` checks an instance (the table of runs
below pairs modules and configurations), `tlapm BulkheadProofs.tla` checks the
proofs of a component.

## 1. The system

Each pattern is one object with a configuration that never changes, shared by
any number of threads and by the tasks of an event loop. The patterns know
nothing of each other; a program composes them as decorators
(`docs/examples/composition_examples.md`). `_emit_event` calls listeners in the
caller's thread and swallows what they raise.

| Component | State | Operations | What is hard | What makes it correct |
|---|---|---|---|---|
| circuit breaker (`circuitbreaker.py`) | state, window of outcomes and failure counter, half-open permits and verdicts, all under one lock | `_acquire_permission`, `_record_outcome`, `reset`, transition events after the lock is released | a call is admitted in one lock section and judged in another; episodes, resets and other callers come between | episodes use at most the permitted probes, can be resolved, and are judged by the last probe; the counter follows the window; the breaker recovers |
| bulkhead (`bulkhead.py`) | a semaphore for threads; a counter and an event for tasks | `execute`, `execute_async`: acquire with a deadline, release | a wake-up grants nothing; tasks are cancelled or time out as they are woken | no permit lost or invented, no lost wake-up, every caller answered |
| cache (`cache.py`, `Cache`) | table of keys in flight per path, a condition for threads, an event per key for tasks | `execute`, `execute_async`, `invalidate`, `invalidate_all` | owners fail or are cancelled; entries vanish between a wake-up and the re-check; invalidation races a computation | one computation per key and path, no waiter without an owner, nothing stale after a quiet invalidation |
| memory backend (`cache.py`, `MemoryBackend`) | ordered dictionary of values with time stamps | `get`, `put`, `delete`, `clear` | recency, expiry and eviction interact over long sequences of calls | exactly the most recently used keys are kept, expiry counts from the last put |
| rate limiter (`ratelimiter.py`) | one of four strategies under a lock | `acquire`, `acquire_async`, `available_permits` | sleeping reserves nothing; every reading changes the strategy; two clock readings in one section | bounds on what any stretch of time grants, exact estimates, every caller answered |
| timeout (`timeout.py`) | a shared pool, background tasks, the process's timer and SIGALRM handler | `execute` (pool or signal), `execute_async` (cancel or shield), `shutdown` | operations outlive their limit; the pool runs out; limits nest, on the one pool or the one timer; alarms arrive late | nothing is left behind but what is documented; every caller is answered |
| retry (`retry.py`) | a loop counter per call | `execute`, `execute_async` | attempts that timed out still run; cancellation in a back-off | gives up neither early nor late, lets cancellation through |
| fallback (`fallback.py`) | none | `execute`, `execute_async` | it catches `BaseException` | recovers only what it is told to |
| redis backend (`cache_redis.py`) | none; the keys under a prefix of a Redis database | `get`, `put`, `delete`, `clear` and their async forms | others write, entries expire, `clear` takes many commands; a task awaits them without the lock | `clear` forgets what was there; the cache's promises hold in spite of I/O |
| JSON serializer (`cache_serializer_json.py`) | a table of types | `dumps`, `loads`, `register`, `unregister` | what loads reads is told apart by its shape; entries outlive the table | what is stored comes back the same, or is refused |
| MessagePack serializer (`cache_serializer_msgpack.py`) | ids by type, and handlers by id | `register_type`, `register`, `unregister_type`, `dumps`, `loads` | types move between ids and processes restart while entries stay | the two tables are inverse; no entry meets another type's handler |
| HMAC pickle serializer (`cache_serializer_hmac.py`) | a secret | `dumps`, `loads` | others write under another secret | an entry it cannot verify is a miss |
| registry (`core/registry.py`) | a dictionary under a lock | `register`, `unregister`, `get`, `clear`, `iter_by_kind` | a tool walks it while instances are created, replaced and removed | the walk yields what was there at its beginning, once per name |
| listeners (`core/listeners.py`) | a list on each instance, no lock | `on_event`, `notify_listeners` | listeners raise, or are attached during a delivery | every later event reaches each listener once |

`PROJECT.json` lists the hazards of this code one by one, at the line where each
bites, with the properties that would catch it.

## 2. Modules

    BreakerProtocol <-refined by- CircuitBreaker        <- CircuitBreakerProofs
    PermitPool      <-refined by- Bulkhead              <- BulkheadProofs
    MemoryBackend   <- MemoryBackendLRU                 <- MemoryBackendProofs
    MemoryBackend   <- Cache        <- CacheAnswers     <- CacheProofs
                       Cache = INSTANCE RedisBackend
    MemoPromise                   <-refined by- CacheAnswers
    MsgpackSerializer                                   <- MsgpackProofs
    Registry                                            <- RegistryProofs
    RateLimitStrategies <- RateLimiter                  <- RateLimiterProofs
    Timeout <- Retry <- Fallback <- Pipeline            <- PipelineProofs
    MemoryBackendLRU, MsgpackSerializer, JsonSerializer, Registry <- MCParts

An arrow without a label is EXTENDS. `MC*` modules add only symmetry sets, a
constraint on the initial states (MCPipeline) and values of constants. MCParts runs
three parts that cannot disturb each other, chosen by `part` in the initial state: its
behaviours are those of the three, side by side and not interleaved.
Operators with a comment "Mutation" are faulty variants of the definition that
follows them; each property is known to fail when one of them takes its place.

**CircuitBreaker.** Each `with self._lock` section is an action: `AcquireClosed`,
`AcquireOpenElapsed`, `AcquireHalfOpen`, `Reject` are the branches of
`_acquire_permission`; `RecordClosed`, `RecordProbe`, `DropStale` and
`FinishUnrecorded` those of `_on_complete` and `_record_outcome`; `Reset` is
`reset`. A caller's `pc` says between which sections it is, `called_in` is the
local of that name, and `transitions` the events it has yet to emit. Time since
opening is counted in ticks up to the wait duration, the only value it is
compared with; the failure rate is an exact fraction.
**BreakerProtocol** is the promise of the module's docstring: HALF_OPEN admits
the permitted number of probes and is decided when they all have voted.

**Bulkhead.** The thread path is the standard library's semaphore. On the task
path no section of `_async_mu` suspends, so `AsyncTake`, `AsyncRefuse`,
`AsyncWait` and `AsyncRelease` are atomic; `woken` are the tasks whose
`Event.wait()` has been granted but which have not run. Deadlines are countdowns.
**PermitPool** is the promise: in only while there is room, turned away only
while there is none.

**MemoryBackend** is the store with its lazy expiry as a sequence in LRU order,
**MemoryBackendLRU** runs it alone beside `uses`, the list an ideal store would
have: the `MaxSize` keys last used, latest last, in which a key that has expired counts
until a look-up finds it. `sincePut` is the time since each key's last put. The dictionary's `del` and
`move_to_end` are the removal of the entry at the key's position. **Cache** calls
the store within its own sections. A value is the version of the data it was
computed from: enough to tell old from new.

**RedisBackend** is the database under the backend's prefix, each command one
step, the loop of `clear` one step per SCAN and per DEL. An entry is a version,
an age, and whether `loads` can read it here: signed with another secret, or
of a type unknown here, it is a miss. `clearing` holds the run of `clear`: what
SCAN has still to return, by the guarantee of Redis, its page, and as a history
what was written meanwhile. **Cache** runs on either backend (`backend`). On
Redis a thread's commands are part of its sections, `invalidate_all` keeps the
lock for all of `clear`, and a task's look-up (`MissRemotely`) and store
(`StoreRemotely`) are steps of their own before it takes the lock: the stages
`Missed` and `Written` lie between. `WriteElsewhere` is another process.

**MemoPromise** is what a cache promises its clients, without stores, tables, locks
or sleep: a request is answered with data that was current at some time since it was
made, or that is at least as recent as the last undisturbed invalidation that was over
when it was made; of the threads, and of the tasks, one at a time works out a key's
value; a request that fails gives no answer. **CacheAnswers** is the cache beside a
record that changes nothing in it: `result`, the version each caller's latest call
returned, `settled`, what invalidations have settled so far, and `least`, what was
settled of a caller's key when its call began. A caller *works* while the table holds
its key for it (`Owning`), and a task on Redis has answered once it has released the
key. An eviction, a wake-up or a change of the store is a stutter of the promise.

**JsonSerializer** has `dumps` and `loads` as operators on values and on the table
of types, up to the text of JSON; lists, which only pass elements on, are left
out. The table is an argument, so that an entry can be read with another one than
it was written with. It is the one module with recursive operators, and only
MCParts reaches it.

**MsgpackSerializer** is the state the JSON one does not need: `ext_by_type` and
`handlers_by_id` are the two dictionaries, `written` the entries of a database that
outlives the serializer, each the type that packed it and the code it carries.
`Replace` puts a new serializer with empty tables over the old entries, as a
restart does. `givenUp` is a history of the ids that types had and lost. A class is
the list of what each class of its `__mro__` has under the two names the decorator
`register` looks for, so that a subclass can hide an inherited method.

**Registry** is the registry, the listeners and a tool that attaches its listener to
every instance of a kind. `BeginSweep` is the first `next()` of `iter_by_kind`, which
copies the dictionary; `Visit` is one pair of the copy. `owed` remembers under how
many names each instance was found. An event is an index into the live list
(`for listener in listeners`), so that `OnEvent` may append while it walks.

**RateLimitStrategies** translates the four algorithms to exact arithmetic in
ticks; **RateLimiter** is the loop of `acquire` over them, with a meter beside it
that measures what was granted. For the sliding window, `Advance` and `Weigh`
separate the two readings of the clock inside one section.

**Timeout**, **Retry**, **Fallback** are layers that **Pipeline** composes in the
documented order, over callers of six modes: `thread` (the pool), `async` (a
coroutine that is cancelled), `shield` (a task that is not), `signal` (the main thread
with SIGALRM), and with one more limit around the retried call, `total` for two limits
by signal and `nested` for two on the one pool. A nested caller's loop is itself a
job of the pool, number 0, and its attempts are the jobs 1, 2, ..., queued behind
whatever is there. When its outer limit passes the caller is answered
(`TimeOutNested`), while a loop that a worker has taken goes on. A limit has no
length: it may pass at any moment of an
operation, which covers every length. `where`, `heard` belong to Timeout,
`attempt` is at once its number of executions and the loop counter of Retry,
`stage` and `verdict` belong to Retry, `answer` to Fallback. `cancelled` is a history
beside them: set by `Cancel` and `CancelBackOff`, whatever the layers make of it, and
taken back when the operation that was cancelled ends in a way of its own. The mode
`async` has the `wait_for` of Python 3.12 and later, which awaits the coroutine in the
caller's own task. `pyproject.toml` also allows 3.10 and 3.11, where `wait_for` runs
it as a task of its own: a caller that is cancelled while `wait_for` is cancelling
that task for its limit leaves it behind, so that NoLeftovers would not hold there.

## 3. What the runs check

| Run | Instance | Shows |
|---|---|---|
| `breaker` (MCBreaker.cfg) | 3 callers, window 3, minimum 2, 2 probes, wait 2; success, recorded and unrecorded outcomes, no reset; 17 k states | ProbeBudget, HalfOpenResolvable, JudgedAfterAllProbes, the refinement of BreakerProtocol, and the liveness properties HalfOpenResolves and Recovers |
| `breaker_reset` (MCBreakerReset.cfg) | 3 callers, wait 1, resets, ignored and uncaught outcomes; 12 k states up to symmetry | TypeOK, FailureCountExact, ClosedBelowThreshold, TallyExact |
| `breaker_lost_probe` (MCBreakerLostProbe.cfg) | 2 callers, 2 probes | violation, finding 1 |
| `breaker_stale_probe` (MCBreakerStaleProbe.cfg) | with reset | violation, finding 2 |
| `bulkhead` (MCBulkhead.cfg) | 2 threads, 3 tasks, 1 permit, deadline 2; 25 k states | PermitsExact, WakeExact, NoLostWakeup, ImplementsPools (each path refines PermitPool), EveryAskAnswered |
| `parts` (MCParts.cfg) | store: 4 keys, room for 3, ttl 2; tables: a class and a subclass that hides one of its methods, 3 ids; registry: 2 instances under 2 kinds and 3 names, 2 listeners each; 273 k states | KeepsMostRecent, TtlCountsFromPut; TablesInverse, ReadByItsWriter; JsonRoundTrips over values of three levels and all pairs of a table for writing and one for reading; ToolHearsOnce |
| `cache` (MCCache.cfg) | 2 threads, 2 tasks, ttl 1, one change of the data; in memory 2 keys and room for 1, on Redis 1 key; 96 k states | InflightOwned, SingleFlightPerPath, SleepersHaveOwner, InvalidatedStaysGone, ClearForgetsOlder, EveryCallReturns |
| `cache_answers` (MCCacheAnswers.cfg) | 1 thread, 2 tasks, 2 keys, ttl 1, one change of the data, both backends; 64 k states up to symmetry of the tasks | KeepsPromise: CacheAnswers refines MemoPromise |
| `cache_cancelled` (MCCacheCancelled.cfg) | 2 tasks, 1 key | violation, finding 3 |
| `rate_limiter` (MCRateLimiter.cfg) | 2 callers, 2 permits in 3 ticks, deadline 2, measurements of 5 ticks, each algorithm; 109 k states | PeriodLimit, GrantsWithinCurve, WaitTimeExact, ReadingIsHarmless, EveryAcquireAnswered |
| `pipeline` (MCPipeline.cfg) | 2 callers, 2 pool threads, 2 attempts: both on the pool, or one outside it beside one of mode `thread`; 421 k states | NoLeftovers, GivesUpOnlyWhenItMust, CancellationPropagates, NoStrayAlarm, EveryCallReturns |
| `pipeline_total` (MCPipelineTotal.cfg) | 1 caller | violation, finding 4 |

**Why the bounds are enough to be interesting.** Three callers and two probes let
one probe vote, one be in flight and one caller be refused; a window of three
with a minimum of two evicts outcomes. One permit lets two tasks wait at once
while a third runs, so that one of two woken tasks can be cancelled; the proofs
cover other limits. Room for one entry makes two keys evict each other between a
wake-up and the re-check. On Redis nothing evicts, so that keys do not meet but in
`clear`; with one key SCAN still has empty pages and returns a key twice, and the
theorem about `clear` holds for any keys. Two threads cannot wait for two different
keys while a third computes; that case (three threads, no expiry) has been checked once by
hand, 212 k states, and the theorems about the cache hold for any number.
The promise of the cache is checked with one thread, as two threads coalesce in `cache`
already; two tasks are enough for one to wait while `clear` and another's store go on.
Two pool threads and two callers are enough for two nested loops to hold both
threads while their attempts are queued behind them, for abandoned attempts to
starve another caller, and for a first attempt to run still when the second
starts; each of these states was seen in the run. Callers outside the pool share nothing with
others but the code, so each of their modes is tried beside one simple caller
only (`OneOutsidePool`). Three ids let a type move twice and another take over an
id it left; the third, 200, is one the tables accept and msgpack cannot pack. Two
listeners per instance are the tool's and one that raises, in either order, or the
tool's twice when an instance has two names. A period of three ticks and
a measurement of five reach over two window boundaries; other settings (limit and
period 1/2, 2/1, 3/2, 3/4, 4/3) were checked by hand with the same result.

**Bounds that are not in the code.** `MaxVersion` (changes of the data behind a
key), `RemoteKeys` (keys in use on Redis), `Second` (its length in ticks), `Horizon`
(length of a measurement), `MaxListeners` (where others stop attaching theirs), in
Registry one sweep and one event at a time, and in Pipeline one call of a caller at a
time, the next once no operation of the previous one is about. Counters of time saturate at the
last value the code can tell apart.

**Fairness.** Callers inside the library's own code go on (weak fairness of their
sections), time passes, limits are reached (`TimeOut` and `TimeOutNested`, each
fair for itself, since a limit that has begun passes), and a cancelled coroutine
ends; a worker that has taken a nested loop runs the loop's own code (`LoopStep`,
`LeaveNested`), but that a worker ever takes it is not assumed; for
the rate limiter's lock, a caller that keeps asking gets it some time (strong
fairness of `Round`), since nothing in the code queues for it. Guarded functions
are assumed to end only for the breaker and the cache, where the property
depends on it: who waits for a computation cannot return before it does. For the
bulkhead and the pipeline nothing is assumed of them: every call is answered
though operations hang for ever. `Recovers` is conditional on failures ceasing,
and `EveryCallReturns` of the cache on no new calls arriving, as a cache that is
invalidated and asked for ever may keep a caller waiting for ever, and on no
`clear` holding the lock for ever: that its SCAN comes to an end is up to Redis.

## 4. Where code and documentation part

1. *A probe without a verdict* (`circuitbreaker.py:404` and `:300`). A half-open
   probe that ends in an ignored exception, or is cancelled, gives its permit to
   nobody. When all permits have gone that way the breaker rejects every call and
   stays HALF_OPEN until `reset`. ProbeBudget holds all the same; this is about
   too few, not too many.
2. *A probe of another episode* (`circuitbreaker.py:466`). A verdict is accepted
   when the states agree, so a probe from before a `reset` votes in the next
   half-open episode, which is then decided with its own probes still running.
3. *A cancelled owner* (`cache.py:462`). A coroutine cancelled while it computes
   leaves its key reserved for ever; waiters and later callers of the key hang.
   `SpecUncaught` has this step, `Spec` has not. A `put` that raises
   (`cache.py:441`, `:473`: a value JSON cannot hold, a lost connection) leaves the
   key reserved in the same way.
4. *A total limit that goes away* (`timeout.py:368`). Nested signal limits share
   one timer; the inner one's `finally` turns it off. On the pool the outer limit
   does answer its caller, but the loop it has given up goes on making attempts in
   its worker, where `composition_examples.md:47` says that all retries complete
   within the limit.

Three more were met in the models, without a run of their own:

- *A permit too many* (`ratelimiter.py:377`). The sliding window reads the clock twice
  in one section, once to move its windows and once to weigh the previous one. A
  caller preempted in between is granted a permit on the counts of a window long past,
  and it is counted there: the present period may grant its whole limit besides, one
  more than `limit_for_period`, the "Number of permits available in each period."
  (`:147`). PeriodLimit and GrantsWithinCurve allow for that one permit and no more.
- *A wait that is too short* (`ratelimiter.py:396`). The sliding window's estimate ends
  with the window, when the weight of a full previous one still leaves no room. So
  `wait_time` of RateLimitExceeded can be less than the "seconds the caller would need
  to wait for the next permit" (`:83`). The loop sleeps again, so no promise of
  `acquire` is broken; WaitTimeExact states what does hold.
- *A handler that stays* (`timeout.py:369`). An alarm that fires as `finally` begins is
  delivered between its two calls, since Python runs handlers between bytecodes and
  `signal.signal` runs pending ones first. It raises there (`AlarmInFinally`), and the
  handler of an execution that is over stays installed, though the comment at `:367`
  says that `finally` restores the original one. No alarm is left pending in this or
  any other way (NoStrayAlarm), so it matters to programs with alarms of their own.

Seen while reading and not turned into runs: an OperationTimeout is also raised
for a TimeoutError of the operation's own (`timeout.py:282`, `:408`); an async
fallback action is not awaited (`fallback.py:182`, against
`docs/fallback.md`); jitter is applied after the cap of `max_interval`
(`retry.py:205-210`, against the field's own description); a ttl below one second
becomes one second on Redis (`cache_redis.py:211`); what a decoder raises other
than ValueError escapes `_load` (`:190`), so the entry is not a miss but an error
until it expires; `docs/examples/cache_examples.md:208` calls `invalidate` on a
cache whose backend has only an async client, which raises RuntimeError; the example page looks
up `"rate_limiter"` in the registry where the limiter registers as
`"ratelimiter"`, and `circuitbreaker_examples.md:109` looks up `"circuit_breaker"`
where the breaker registers as `"circuitbreaker"`; the docstring of `register_type`
(`cache_serializer_msgpack.py:112-116`) has a clash of ids resolved by
`unregister_type` alone, so that entries do not meet the wrong handler, but a type that
moves to another id frees its old one without it (hence "unless that type has given
up the id" in ReadByItsWriter); an id outside 0..127 is accepted at registration and
fails at every `dumps`; the two tables have no lock, and a `dumps` between the steps of
a registration, or two registrations at once, can find them apart; a back-off of
`multiplier ** k` overflows a float before the cap applies (`retry.py:205`); a
listener that attaches a listener at every event keeps the loop of
`notify_listeners` from ending; a tool's sweep may hold instances that have been
replaced since.

## 5. What is proved

| Module | Theorems | Argument |
|---|---|---|
| CircuitBreakerProofs | TypeCorrect, FailureCountAlwaysExact, ClosedStaysBelowThreshold, ProbesWithinBudget, HalfOpenStaysResolvable, AlwaysJudgedAfterAllProbes, TallyAlwaysExact, BreakerImplementsProtocol | two inductive invariants and a balance |
| BulkheadProofs | TypeCorrect, PermitsAlwaysExact, EventAlwaysExact, WakeupsNeverLost, BulkheadImplementsPools | `Inv`, the conjunction of the four checked invariants, is inductive |
| CacheProofs | TypeCorrect, TablesAlwaysOwned, CallersCoalesce, SleepersAlwaysHaveOwner, ClearAlwaysForgetsOlder, InvalidatedAlwaysGone, CacheKeepsPromise | `PathsInv`, `ClearInv`, `DataInv` on top of both, and `AnswersInv` on top of that |
| MemoryBackendProofs | AlwaysMostRecent, TtlAlwaysFromPut | the store mirrors the ideal list and the times since the puts |
| MsgpackProofs | TablesAlwaysInverse, AlwaysReadByItsWriter | `Typed`, TablesInverse and `StillHeld` |
| RateLimiterProofs | TypeCorrect, LimitPerPeriod, WithinCurve, WaitsAreExact, ReadingHarmless | one equation per algorithm between what is granted and what is left |
| PipelineProofs | TypeCorrect, NothingLeftBehind, NeverGivesUpEarly, AlarmsNeverStray, CancellationsPropagate | five families, per caller and per operation |
| RegistryProofs | ToolAlwaysHearsOnce | two accounts that agree |

Every invariant and action property that the passing runs check is a theorem, but
for JsonRoundTrips; the type invariants of Bulkhead and RateLimiter are theorems
(TypeCorrect) that no run repeats. All hold for every value of the constants that the named
assumptions allow: what the configurations' `__post_init__` enforces, that sets
of callers, kinds and names are finite, and that the names the models give to kinds
of exceptions and of outcomes are not confused with one another
(`ErrorAssumption`). Hypotheses of single theorems are named below. Each inductive
invariant was an invariant of the component's run before it was proved.

*Breaker.* `WindowInv` (types and the exact counter) needs the lemmas about
`WindowRecord`: what appending to a bounded deque does to its number of failures.
With the exact counter, ClosedBelowThreshold is a fact about the section that
changes the window. `EpisodeInv` joins the types, ProbeBudget (permits, probes
and verdicts never exceed the permitted number) and "no permit is lost" (they
sum to exactly that number as long as every outcome gives a verdict). The
equality gives that a half-open breaker can be resolved; the budget alone gives
that the last verdict leaves neither a permit nor another probe, hence
JudgedAfterAllProbes, and that each step
implements BreakerProtocol or stutters. Theorems about episodes assume that
nobody resets, and HalfOpenStaysResolvable that no outcome is ignored or
uncaught: findings 1 and 2 show that they need it. The others assume nothing of
the kind. TallyAlwaysExact looks at no lock section: for each state, the reports
made or owed of entering it, less those of leaving it, are 1 if it is the present
state (counting the first) and 0 otherwise. A section moves the state and owes
one report, an emission turns an owed one into one made, and the sum follows the
state; the reports may overtake one another as they like.

*Bulkhead.* The step lemmas say how one caller's move changes the set of permit
holders and its cardinality. NoLostWakeup is inductive only with WakeExact: a
task that begins to wait does so with the event clear, so no permit is free.

*Cache.* The backend plays no part in the theorems about the tables.
`Path(call, callers, table)` says of one path
that the table lists exactly the keys being computed, each by one caller, and
that waiters wait for listed keys; the lemmas show that each kind of step keeps
it for its own path and cannot touch the other's. They are about functions and
sets, not states, so each serves threads and tasks alike. A caller owns its key
while it computes and, a task on Redis, until it has released it. For `clear`,
`ClearInv` says that what is in the database was written since `clear` began, or
is still to be returned by SCAN, or is in the page about to be deleted.
InvalidatedStaysGone is not inductive: a value may be on its way. `DataInv` adds
that who computes or stores a key read its data no earlier than the key's last
quiet invalidation (`ReadsInv`), that each entry of the store is as recent as its
key's floor (`StoreInv`, kept by every selection from the old store and by a
recent entry put at its end), and that on Redis every entry is, but for the old
ones that a running `clear` has not come to (`DatabaseInv`); ClearInv has those
deleted when it ends. The lemmas about the store and the database are about any set of
versions that a key may have there, and DataInv takes those from its floor to the
present one.

CacheKeepsPromise is the refinement of MemoPromise. `AnswersInv` adds to DataInv what
the record says: what is settled is no more than the floor, and is the floor while no
`clear` runs; the database holds nothing older than what is settled, which is what a
look-up *during* a `clear` needs, when the floor has been raised already; a call owes
what was settled when it began or less; and a task that has stored its value and not
yet released its key has in `result` a version between what it owes and the present
one. `StepTurns` then says of every step of the cache that one caller begins,
reserves, answers, fails or goes on, or that no caller does and the data, the floor or
the store moves (a *turn*), `TurnOutcome` what each turn records, and
`TurnKeepsPromise` and `InvalidationKeepsPromise` which step of the promise that is, or
that it is a stutter. That two members of a path do not work on one key is the table's
`Path`. The theorem holds for both backends, any callers, keys, size and time to live.

*Memory backend.* `Mirrors` says that the store and the list of an ideal store
have the same keys at the same positions and ages that follow the last put, no key
twice. The lemmas follow it through the removal at a position, which is all that
`del`, `move_to_end` and `popitem` are, and through appending. An eviction
removes at most one entry, since a store at its limit holds exactly `MaxSize`.

*MessagePack.* TablesInverse is inductive with the types of the tables: `Taken`
looks for an owner in one table only, and it is the inverse that makes its answer
right. ReadByItsWriter is not: it says nothing of an entry whose code has no handler,
which another type could then register for. `StillHeld` does: a type that has
written under a code and not given it up has that code still, so the handler there
is its own. The only assumption is that ids are integers and that `None` is none.

*Rate limiter.* `StepEffect` says what any step does to strategy and meter: look,
take the first of two readings, grant, let time pass, or measure anew. `CurveInv`
then is one relation per algorithm. Token bucket: what was granted and the tokens
that are there are paid by the burst and the elapsed time. Leaky bucket: the
wait to come pays for what was granted. Fixed window: the grants lie in
so many windows, each of which holds the limit. Sliding window: the weighted level
falls no faster than the rate, so grants are bounded by it and the elapsed time;
a caller preempted between its readings may grant one more on the
counts of a window long past, and `Slack` keeps room for it. `WindowsInv` ties a
strategy's age to the clock, whence PeriodLimit, and `SlidingInv` says when two
readings straddle the end of a window there is room in the counts. WaitsAreExact
and ReadingHarmless are facts about every strategy of the type, proved by lemmas
on the four refreshes and on division.

*Pipeline.* `CallInv` relates the stages of the layers of one call, `LoopInv` the
loop of a nested call as an operation of the pool, `JobInv` each operation to the
call that awaits it or has left it, `VerdictInv` the reason for which a
call was over. NoLeftovers needs that what is queued or being cancelled is
awaited, which CallInv and JobInv give. GivesUpOnlyWhenItMust and
CancellationPropagates need the reason to stand while the answer is made, though
for a nested call its abandoned loop goes on and may hear of more; a verdict that
was given is not taken back. CancellationPropagates compares the answer with the
history `cancelled`, and needs a fifth family: `CancelInv` says that a call is
marked exactly while `where`, `heard` or `verdict` knows of the cancellation, and
`CancelStep` that it passes from the first to the last, or from a back-off straight to
the last, and is dropped only where the operation swallows it or the call is done.
CancellationsPropagate assumes
`~ShouldFallback("cancelled")`: `fallback_on` is `(Exception,)` by default, and
CancelledError is none; a fallback told to answer it does so. NoStrayAlarm is
inductive together with these: a step sets the timer for a frame, turns it off, or
leaves it (`AlarmMoves`), and a step that leaves it leaves its frame's caller where
the alarm would find it. For that JobInv says that the main thread keeps no outcome to be
fetched, so that every way out of an execution goes through its `finally`, and
`ReadyStays` that a total limit, before the first attempt, is left by an alarm or by
the attempt that takes the timer over.

*Registry.* The tool's listener is on each instance as often as it is owed less
the pairs of the copy yet to be visited (`SweepInv`), and an event has told the
tool as often as it occurs in the list before its position (`EventInv`), which
appending to the list does not change.

## 6. Only checked, not proved; and not modelled

Liveness under fairness is beyond the prover and rests on TLC: HalfOpenResolves
and Recovers of the breaker, EveryAskAnswered of the bulkhead, EveryCallReturns of
the cache and of the pipeline, EveryAcquireAnswered of the rate limiter. So does
JsonRoundTrips: its operators are recursive, as values are, and what they compute
for every value would take an induction over data.

Left out on purpose: wording of errors, contents and order of events other than
the breaker's transitions, floating point (rates and token counts are exact
here), how keys are derived from arguments, the length of back-offs and limits,
the text of JSON (tuples, and keys that are not strings, do not round-trip), the
bytes of MessagePack and with them the built-in types' pack functions, the
cryptography of HmacPickleSerializer.
Not represented: operations that catch the alarm or ignore their cancellation
for ever, functions that call their own cache or bulkhead, several event loops on
one instance, several caches on one database (each counts as `WriteElsewhere` to
the other, and what that writes is of the present version: another process that
stores what it read long ago is left out), the `wait_for` of Python before 3.12, threads that register types at the same time, a listener that
attaches listeners itself or raises a BaseException. The package's `__init__` files
only export names.

## 7. Plan

Done, in this order: breaker and protocol; bulkhead and pool; memory backend and
cache; rate limiter; timeout, retry, fallback and their composition; Redis and
the JSON serializer; MessagePack and entries that outlive the tables; registry and
listeners; limits nested on the pool; the proofs; the promise of the cache, and the
timer. Next:

1. *Proofs.* Safety is proved (section 5), and the promises of the breaker, the
   bulkhead and the cache are refined. The timeout has none yet: its pool is the
   standard library's, so that a promise would be about the callers of a pipeline.
2. *Several instances of the cache* on one database, each with its own tables, and
   functions that share one cache: key derivation (`_make_key`) then matters.
3. *Unlocked registration* in the MessagePack serializer, and operations that
   swallow the alarm, in Timeout.
