-------------------------------- MODULE Cache --------------------------------
(***************************************************************************)
(* One Cache instance (src/pysilience/cache.py) on a MemoryBackend or on a  *)
(* RedisBackend.  Threads call execute() and coalesce through _inflight and *)
(* a Condition; Tasks of one event loop call execute_async() and coalesce   *)
(* through _async_inflight and one asyncio.Event per key.  Both share one   *)
(* lock, and each section under it is one action, a command to the database *)
(* within it included; only clear() takes several.  Tasks do not hold the   *)
(* lock while they await the database, which other processes write to.      *)
(*                                                                         *)
(* Abstractions.  A key's Event is never set while it is in the dictionary, *)
(* so it is the key's membership in async_inflight; the pop and the set()   *)
(* after it happen with no suspension between them.  The guarded function   *)
(* reads a versioned source, which is all a value needs to tell.            *)
(***************************************************************************)
EXTENDS MemoryBackend, FiniteSets

CONSTANTS
    Threads, Tasks,     \* callers of execute() and of execute_async()
    Backends,           \* the backends looked at: "memory", "redis"
    RemoteKeys,         \* bound on the keys in use on Redis
    Second,             \* ticks in a second
    MaxVersion          \* bound on the changes of the source of each key

ASSUME CacheAssumption ==
    /\ IsFiniteSet(Threads) /\ IsFiniteSet(Tasks)
    /\ Threads \cap Tasks = {}
    /\ RemoteKeys \subseteq Keys
    /\ Second \in Nat \ {0}
    /\ MaxVersion \in Nat

VARIABLES
    backend,            \* the kind of _backend
    database, clearing, \* of RedisBackend
    inflight,           \* _inflight
    async_inflight,     \* keys of _async_inflight
    call,               \* where each caller's call is
    source,             \* per key, the version of the data behind it
    floor               \* per key, the version its last quiet invalidation saw

stores == <<backend, store, database, clearing>>
tables == <<inflight, async_inflight>>
cacheVars == <<stores, tables, call, source, floor>>

Redis == INSTANCE RedisBackend

Callers == Threads \cup Tasks

Idle == [at |-> "idle"]
Asking(k) == [at |-> "asking", key |-> k]
Waiting(k) == [at |-> "waiting", key |-> k]
Computing(k, v) == [at |-> "computing", key |-> k, read |-> v]

\* Stages of tasks on Redis: aget has missed; aput is done.
Missed(k) == [at |-> "missed", key |-> k]
Written(k) == [at |-> "written", key |-> k]

Init ==
    /\ backend \in Backends
    /\ store = << >>
    /\ database = << >> /\ clearing = Redis!Off
    /\ inflight = {}
    /\ async_inflight = {}
    /\ call = [c \in Callers |-> Idle]
    /\ source = [k \in Keys |-> 0]
    /\ floor = [k \in Keys |-> 0]

Become(c, stage) == call' = [call EXCEPT ![c] = stage]

\* Callers that have key k reserved: their function runs, or they store.
Owners(callers, k) ==
    {c \in callers : \/ call[c] = Written(k)
                     \/ \E v \in 0..MaxVersion : call[c] = Computing(k, v)}

\* invalidate_all() holds the lock until clear() is through.
LockFree == clearing.at = "off"

-----------------------------------------------------------------------------
(* What the cache asks of its backend.                                     *)

Found(k) == IF backend = "memory" THEN Hit(k) ELSE Redis!Answers(k)

InStore == backend = "memory" /\ UNCHANGED <<backend, database, clearing>>
InDatabase == backend = "redis" /\ UNCHANGED <<backend, store>>

LookUp(k) == \/ InStore /\ Get(k)
             \/ InDatabase /\ UNCHANGED <<database, clearing>>
Keep(k, v) == \/ InStore /\ Put(k, v)
              \/ InDatabase /\ Redis!Put(k, v)

InUse == IF backend = "memory" THEN Keys ELSE RemoteKeys

Start(c, k) ==
    /\ call[c] = Idle
    /\ Become(c, Asking(k))
    /\ UNCHANGED <<stores, tables, source, floor>>

-----------------------------------------------------------------------------
(* _sync_check_or_reserve and _async_check_or_reserve, one round each.     *)
(* Every round looks the key up, and so touches or expires its entry.      *)

\* A task's look-up in the database needs no lock.
ReturnHit(c) ==
    \E k \in Keys :
        /\ call[c] = Asking(k)
        /\ LockFree \/ c \in Tasks
        /\ Found(k)
        /\ LookUp(k)
        /\ Become(c, Idle)
        /\ UNCHANGED <<tables, source, floor>>

\* A miss under the lock, which the table is then consulted under.
Miss(c, k) == call[c] = Asking(k) /\ LockFree /\ ~Found(k) /\ LookUp(k)

\* Mutation: reserves without looking whether the key is in flight.
FreeAlways(table, k) == TRUE

Free(table, k) == k \notin table

SyncReserve(t) ==
    \E k \in Keys :
        /\ Miss(t, k)
        /\ Free(inflight, k)
        /\ inflight' = inflight \cup {k}
        /\ Become(t, Computing(k, source[k]))
        /\ UNCHANGED <<async_inflight, source, floor>>

\* condition.wait().
SyncWait(t) ==
    \E k \in Keys :
        /\ Miss(t, k)
        /\ ~Free(inflight, k)
        /\ Become(t, Waiting(k))
        /\ UNCHANGED <<tables, source, floor>>

\* await aget() misses: the table is consulted later.
MissRemotely(t) ==
    \E k \in Keys :
        /\ backend = "redis"
        /\ call[t] = Asking(k)
        /\ ~Found(k)
        /\ Become(t, Missed(k))
        /\ UNCHANGED <<stores, tables, source, floor>>

\* The task has the lock and knows of a miss, seen now or before.
HasMissed(t, k) ==
    \/ backend = "memory" /\ Miss(t, k)
    \/ backend = "redis" /\ call[t] = Missed(k) /\ LockFree /\ UNCHANGED stores

AsyncReserve(t) ==
    \E k \in Keys :
        /\ HasMissed(t, k)
        /\ Free(async_inflight, k)
        /\ async_inflight' = async_inflight \cup {k}
        /\ Become(t, Computing(k, source[k]))
        /\ UNCHANGED <<inflight, source, floor>>

\* event.wait() on the owner's event.
AsyncWait(t) ==
    \E k \in Keys :
        /\ HasMissed(t, k)
        /\ ~Free(async_inflight, k)
        /\ Become(t, Waiting(k))
        /\ UNCHANGED <<tables, source, floor>>

-----------------------------------------------------------------------------
(* The function ends.                                                      *)

\* notify_all() wakes the waiters of every key.
SyncWoken == {t \in Threads : \E j \in Keys : call[t] = Waiting(j)}

\* Mutation: the event leaves the dictionary without being set.
AsyncWokenNone(k) == {}

\* event.set() wakes the waiters of this key.
AsyncWoken(k) == {t \in Tasks : call[t] = Waiting(k)}

\* The owner is done with its key, and the woken look again.
Unreserve(c, k, woken) ==
    call' = [d \in Callers |-> IF d = c THEN Idle
                               ELSE IF d \in woken THEN Asking(call[d].key)
                               ELSE call[d]]

SyncUnreserve(t, k) ==
    /\ LockFree
    /\ inflight' = inflight \ {k}
    /\ Unreserve(t, k, SyncWoken)
    /\ UNCHANGED <<async_inflight, source, floor>>

AsyncUnreserve(t, k) ==
    /\ LockFree
    /\ async_inflight' = async_inflight \ {k}
    /\ Unreserve(t, k, AsyncWoken(k))
    /\ UNCHANGED <<inflight, source, floor>>

\* The function has read its source some time while it ran.
ValuesRead(k, since) == since..source[k]

Compute(c, k, v) ==
    \E since \in 0..MaxVersion :
        call[c] = Computing(k, since) /\ v \in ValuesRead(k, since)

SyncStore(t) ==
    \E k \in Keys, v \in 0..MaxVersion :
        /\ Compute(t, k, v)
        /\ Keep(k, v)
        /\ SyncUnreserve(t, k)

AsyncStore(t) ==
    \E k \in Keys, v \in 0..MaxVersion :
        /\ backend = "memory"
        /\ Compute(t, k, v)
        /\ Keep(k, v)
        /\ AsyncUnreserve(t, k)

\* await aput(): the server has the value, the task not yet the lock.
StoreRemotely(t) ==
    \E k \in Keys, v \in 0..MaxVersion :
        /\ backend = "redis"
        /\ Compute(t, k, v)
        /\ Keep(k, v)
        /\ Become(t, Written(k))
        /\ UNCHANGED <<tables, source, floor>>

ReleaseWritten(t) ==
    \E k \in Keys :
        /\ call[t] = Written(k)
        /\ AsyncUnreserve(t, k)
        /\ UNCHANGED stores

\* Mutation: the error path raises without releasing the key.
SyncFailKeepingKey(t) ==
    \E k \in Keys, since \in 0..MaxVersion :
        /\ call[t] = Computing(k, since)
        /\ Become(t, Idle)
        /\ UNCHANGED <<stores, tables, source, floor>>

SyncFail(t) ==
    \E k \in Keys, since \in 0..MaxVersion :
        /\ call[t] = Computing(k, since)
        /\ SyncUnreserve(t, k)
        /\ UNCHANGED stores

AsyncFail(t) ==
    \E k \in Keys, since \in 0..MaxVersion :
        /\ call[t] = Computing(k, since)
        /\ AsyncUnreserve(t, k)
        /\ UNCHANGED stores

\* A BaseException passes `except Exception`, and what put raises comes after
\* it: the key stays reserved.
FinishUncaught(c) ==
    /\ call[c].at \in {"computing", "written"}
    /\ Become(c, Idle)
    /\ UNCHANGED <<stores, tables, source, floor>>

\* A waiter is cancelled or interrupted, or its look-up in the database
\* fails or is cancelled; it holds nothing.
CancelWait(c) ==
    /\ \/ call[c].at = "waiting"
       \/ backend = "redis" /\ call[c].at \in {"asking", "missed"}
    /\ Become(c, Idle)
    /\ UNCHANGED <<stores, tables, source, floor>>

-----------------------------------------------------------------------------
(* Invalidation, and what happens around the cache.                        *)

\* When an invalidation that began with no computation of the key in flight
\* is through, nothing that knows only older data is left.
Settled(keys) ==
    floor' = [k \in Keys |-> IF k \in keys /\ Owners(Callers, k) = {}
                               THEN source[k] ELSE floor[k]]

Invalidate(k) ==
    /\ LockFree
    /\ \/ InStore /\ Delete(k)
       \/ InDatabase /\ Redis!Delete(k)
    /\ Settled({k})
    /\ UNCHANGED <<tables, call, source>>

InvalidateAll ==
    /\ InStore
    /\ Clear
    /\ Settled(Keys)
    /\ UNCHANGED <<tables, call, source>>

BeginInvalidateAll ==
    /\ InDatabase
    /\ Redis!BeginClear
    /\ Settled(Keys)
    /\ UNCHANGED <<tables, call, source>>

ClearGoesOn == InDatabase /\ UNCHANGED <<tables, call, source, floor>>

ScanToClear(last) == Redis!ScanPage(last) /\ ClearGoesOn

DeleteToClear == Redis!DeletePage /\ ClearGoesOn

ChangeSource(k) ==
    /\ source[k] < MaxVersion
    /\ source' = [source EXCEPT ![k] = source[k] + 1]
    /\ UNCHANGED <<stores, tables, call, floor>>

\* Another process stores the present data, or an entry unreadable here.
WriteElsewhere(k) ==
    /\ InDatabase
    /\ \E readable \in BOOLEAN : Redis!SetEntry(k, source[k], readable)
    /\ UNCHANGED <<tables, call, source, floor>>

Tick ==
    /\ \/ InStore /\ GrowOlder
       \/ InDatabase /\ Redis!GrowOlder
    /\ UNCHANGED <<tables, call, source, floor>>

SyncCheck(t) == ReturnHit(t) \/ SyncReserve(t) \/ SyncWait(t)
AsyncCheck(t) == ReturnHit(t) \/ MissRemotely(t) \/ AsyncReserve(t) \/ AsyncWait(t)
SyncFinish(t) == SyncStore(t) \/ SyncFail(t)
AsyncFinish(t) == AsyncStore(t) \/ StoreRemotely(t) \/ ReleaseWritten(t) \/ AsyncFail(t)

Next ==
    \/ \E t \in Threads : SyncCheck(t) \/ SyncFinish(t)
    \/ \E t \in Tasks : AsyncCheck(t) \/ AsyncFinish(t)
    \/ \E c \in Callers, k \in InUse : Start(c, k)
    \/ \E c \in Callers : CancelWait(c)
    \/ \E k \in InUse : Invalidate(k) \/ ChangeSource(k) \/ WriteElsewhere(k)
    \/ InvalidateAll \/ BeginInvalidateAll
    \/ \E last \in BOOLEAN : ScanToClear(last)
    \/ DeleteToClear
    \/ Tick

\* Guarded functions return, or raise an Exception; put does not raise.
Spec == Init /\ [][Next]_cacheVars

\* They may also be cancelled or raise a BaseException.
SpecUncaught == Init /\ [][Next \/ \E c \in Callers : FinishUncaught(c)]_cacheVars

\* Woken callers get the lock, and guarded functions end.
FairSpec ==
    /\ Spec
    /\ \A t \in Threads : WF_cacheVars(SyncCheck(t)) /\ WF_cacheVars(SyncFinish(t))
    /\ \A t \in Tasks : WF_cacheVars(AsyncCheck(t)) /\ WF_cacheVars(AsyncFinish(t))

-----------------------------------------------------------------------------
Entries == [key : Keys, value : 0..MaxVersion, age : 0..Ttl]
Calls == {Idle} \cup {Asking(k) : k \in Keys} \cup {Waiting(k) : k \in Keys}
           \cup {Computing(k, v) : k \in Keys, v \in 0..MaxVersion}
           \cup {Missed(k) : k \in Keys} \cup {Written(k) : k \in Keys}

RemoteEntries == [value : 0..MaxVersion, readable : BOOLEAN,
                  age : 0..(Redis!Lifetime - 1)]

\* Every variable has its type; the store has one entry per key, and only the
\* backend in use is ever touched.
TypeOK ==
    /\ backend \in Backends
    /\ store \in Seq(Entries)
    /\ Len(store) <= MaxSize
    /\ \A i, j \in DOMAIN store : store[i].key = store[j].key => i = j
    /\ DOMAIN database \subseteq Keys
    /\ \A k \in DOMAIN database : database[k] \in RemoteEntries
    /\ clearing.unseen \subseteq DOMAIN database
    /\ backend = "memory" => database = << >> /\ clearing = Redis!Off
    /\ backend = "redis" => store = << >>
    /\ inflight \subseteq Keys /\ async_inflight \subseteq Keys
    /\ call \in [Callers -> Calls]
    /\ source \in [Keys -> 0..MaxVersion]
    /\ floor \in [Keys -> 0..MaxVersion]

\* The two tables name exactly the keys being computed on their path: no key
\* is computed unreserved, and none stays reserved when its owner is done
\* (324-351, 370-376, 388-404).
InflightOwned ==
    /\ inflight = {k \in Keys : Owners(Threads, k) # {}}
    /\ async_inflight = {k \in Keys : Owners(Tasks, k) # {}}

\* Callers of one path are coalesced: at most one of them computes a key.
SingleFlightPerPath ==
    \A k \in Keys : /\ Cardinality(Owners(Threads, k)) <= 1
                    /\ Cardinality(Owners(Tasks, k)) <= 1

\* No waiter is forgotten: whoever waits for a key has, on its own path, an
\* owner at work that will wake it ("the others wait for its result").
SleepersHaveOwner ==
    \A k \in Keys :
        /\ \A t \in Threads : call[t] = Waiting(k) => Owners(Threads, k) # {}
        /\ \A t \in Tasks : call[t] = Waiting(k) => Owners(Tasks, k) # {}

\* Once a key is invalidated with no computation of it in flight, and clear()
\* is through, neither the backend nor any later computation holds data older
\* than the invalidation: a waiter's re-check, an eviction or another path's
\* store cannot revive it.
InvalidatedStaysGone ==
    /\ \A i \in DOMAIN store : store[i].value >= floor[store[i].key]
    /\ LockFree => \A k \in DOMAIN database : database[k].value >= floor[k]
    /\ \A c \in Callers, k \in Keys, v \in 0..MaxVersion :
         call[c] = Computing(k, v) => v >= floor[k]

\* clear() forgets everything that was there when it began: what is left when
\* SCAN is through was written meanwhile (cache_redis.py:220-237).
ClearForgetsOlder ==
    [][clearing # Redis!Off /\ clearing' = Redis!Off
         => DOMAIN database' \subseteq clearing.fresh]_cacheVars

\* When no new calls arrive and no clear() holds the lock any more, every call
\* returns: errors, expiry, eviction, invalidation and foreign writes between
\* a wake-up and its re-check only make somebody compute.
EveryCallReturns ==
    /\ <>[][~\E c \in Callers, k \in Keys : Start(c, k)]_cacheVars
    /\ <>[]LockFree
    => \A c \in Callers : call[c] # Idle ~> call[c] = Idle
=============================================================================
