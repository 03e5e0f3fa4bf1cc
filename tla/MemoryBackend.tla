--------------------------- MODULE MemoryBackend ---------------------------
(***************************************************************************)
(* MemoryBackend (src/pysilience/cache.py): an OrderedDict used as a        *)
(* bounded LRU store with lazy expiry.  It has no lock of its own: each     *)
(* operation below is one step of whoever calls it under the cache's lock.  *)
(*                                                                         *)
(* The store is the sequence of its entries, least recently used first.     *)
(* time.monotonic() - cached_at is the entry's age in ticks, saturated at   *)
(* the ttl, the only value it is compared with.                             *)
(***************************************************************************)
EXTENDS Integers, Sequences

CONSTANTS
    Keys,
    MaxSize,    \* max_size
    Ttl         \* ttl in ticks; 0 stands for None

\* What CacheConfig.__post_init__ enforces.
LegalConfig == MaxSize \in Nat \ {0} /\ Ttl \in Nat

ASSUME StoreAssumption == LegalConfig

VARIABLE store    \* _store: a sequence of [key, value, age]

Seqs == INSTANCE SequencesExt

Stored == {store[i].key : i \in DOMAIN store}

Position(k) == CHOOSE i \in DOMAIN store : store[i].key = k

EntryOf(k) == store[Position(k)]

Without(k) == IF k \in Stored THEN Seqs!RemoveAt(store, Position(k)) ELSE store

Expired(entry) == Ttl # 0 /\ entry.age >= Ttl

\* get() returns the entry's value exactly when this holds.
Hit(k) == k \in Stored /\ ~Expired(EntryOf(k))

\* Mutation: a hit renews the entry's time stamp.
TouchedRenewed(k) == [EntryOf(k) EXCEPT !.age = 0]

\* move_to_end keeps the entry as it is.
Touched(k) == EntryOf(k)

\* Mutation: a hit leaves the order alone, as in a FIFO.
GetInPlace(k) ==
    store' = IF Hit(k) THEN [i \in DOMAIN store |->
                               IF store[i].key = k THEN Touched(k) ELSE store[i]]
                       ELSE Without(k)

\* An expired entry is deleted by the access that finds it.
Get(k) ==
    store' = IF Hit(k) THEN Append(Without(k), Touched(k)) ELSE Without(k)

\* Mutation: evicts only once the bound is exceeded.
RoomForOneLate ==
    IF Len(store) > MaxSize
      THEN SubSeq(store, Len(store) - MaxSize + 2, Len(store)) ELSE store

\* popitem(last=False) until there is room for one more.
RoomForOne ==
    IF Len(store) >= MaxSize
      THEN SubSeq(store, Len(store) - MaxSize + 2, Len(store)) ELSE store

\* Mutation: a replacement assigns the value and keeps the time stamp.
PutKeepingAge(k, v) ==
    store' = Append(IF k \in Stored THEN Without(k) ELSE RoomForOne,
                    [key |-> k, value |-> v,
                     age |-> IF k \in Stored THEN EntryOf(k).age ELSE 0])

\* An existing key is replaced in place and moved; a new one may evict.
Put(k, v) ==
    store' = Append(IF k \in Stored THEN Without(k) ELSE RoomForOne,
                    [key |-> k, value |-> v, age |-> 0])

\* Mutation: marks the entry as expired, which means nothing without a ttl.
DeleteByExpiring(k) ==
    store' = [i \in DOMAIN store |->
                IF store[i].key = k THEN [store[i] EXCEPT !.age = Ttl]
                                    ELSE store[i]]

Delete(k) == store' = Without(k)

Clear == store' = << >>

\* Time passes for every entry.
GrowOlder ==
    store' = [i \in DOMAIN store |->
                IF store[i].age < Ttl
                  THEN [store[i] EXCEPT !.age = store[i].age + 1]
                  ELSE store[i]]
=============================================================================
