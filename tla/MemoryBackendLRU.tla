-------------------------- MODULE MemoryBackendLRU --------------------------
(***************************************************************************)
(* MemoryBackend on its own, driven by an arbitrary caller, next to a       *)
(* reference: `uses` is the ideal list of the MaxSize keys used last, which  *)
(* knows neither entries nor their order in the dictionary.                *)
(***************************************************************************)
EXTENDS MemoryBackend

VARIABLES
    uses,        \* the MaxSize keys used last, oldest first
    sincePut     \* ticks since each key's last put, at most Ttl

lruVars == <<store, uses, sincePut>>

Used == {uses[i] : i \in DOMAIN uses}

Forget(k) ==
    IF k \in Used
      THEN Seqs!RemoveAt(uses, CHOOSE i \in DOMAIN uses : uses[i] = k) ELSE uses

Latest(ks) == IF Len(ks) > MaxSize THEN Tail(ks) ELSE ks

LRUInit == /\ store = << >>
           /\ uses = << >>
           /\ sincePut = [k \in Keys |-> Ttl]

GetKey(k) ==
    /\ Get(k)
    /\ uses' = IF Hit(k) THEN Append(Forget(k), k)
               ELSE IF k \in Stored THEN Forget(k) ELSE uses
    /\ UNCHANGED sincePut

PutKey(k) ==
    /\ Put(k, k)
    /\ uses' = Latest(Append(Forget(k), k))
    /\ sincePut' = [sincePut EXCEPT ![k] = 0]

DeleteKey(k) ==
    /\ Delete(k)
    /\ uses' = Forget(k)
    /\ UNCHANGED sincePut

ClearAll ==
    /\ Clear
    /\ uses' = << >>
    /\ UNCHANGED sincePut

Tick ==
    /\ GrowOlder
    /\ sincePut' = [k \in Keys |-> IF sincePut[k] < Ttl THEN sincePut[k] + 1
                                                        ELSE Ttl]
    /\ UNCHANGED uses

LRUNext == \/ \E k \in Keys : GetKey(k) \/ PutKey(k) \/ DeleteKey(k)
           \/ ClearAll
           \/ Tick

LRUSpec == LRUInit /\ [][LRUNext]_lruVars

KeysInOrder == [i \in DOMAIN store |-> store[i].key]

\* Through any mixture of hits, misses, expiries, replacements, deletions and
\* evictions, the store holds exactly the max_size most recently used keys, in
\* order of use: nothing is evicted while there is room, and what is evicted is
\* the least recently used (203-222).
KeepsMostRecent == KeysInOrder = uses

\* Expiry counts from the last put (195-218): a key in the store is a hit as long
\* as that is less than the ttl ago, and no longer.  Hits and moves do not
\* prolong its life, a replacement renews it, and nothing expires early.
TtlCountsFromPut ==
    \A k \in Stored : Hit(k) <=> (Ttl = 0 \/ sincePut[k] < Ttl)
=============================================================================
