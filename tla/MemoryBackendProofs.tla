------------------------- MODULE MemoryBackendProofs -------------------------
(***************************************************************************)
(* Proofs about MemoryBackend on its own, for any keys, size and time to   *)
(* live, whatever its caller asks of it: the store is the ideal list of    *)
(* the keys used last, entry by entry, and every age is the time since the *)
(* key was put.                                                            *)
(***************************************************************************)
EXTENDS MemoryBackendLRU, TLAPS, SequenceTheorems

LEMMA Legal == MaxSize \in Nat \ {0} /\ Ttl \in Nat
BY StoreAssumption DEF LegalConfig

\* A sequence without the element at one position.
LEMMA RemoveAtProperties ==
    ASSUME NEW S, NEW s \in Seq(S), NEW p \in 1..Len(s)
    PROVE  /\ Seqs!RemoveAt(s, p) \in Seq(S)
           /\ Len(Seqs!RemoveAt(s, p)) = Len(s) - 1
           /\ \A i \in 1..(Len(s) - 1) :
                Seqs!RemoveAt(s, p)[i] = IF i < p THEN s[i] ELSE s[i + 1]
<1> DEFINE a == SubSeq(s, 1, p - 1)
           b == SubSeq(s, p + 1, Len(s))
<1>1. a \in Seq(S) /\ Len(a) = p - 1 /\ \A i \in 1..(p - 1) : a[i] = s[i]
  OBVIOUS
<1>2. b \in Seq(S) /\ Len(b) = Len(s) - p /\ \A i \in 1..(Len(s) - p) : b[i] = s[p + i]
  OBVIOUS
<1>3. Seqs!RemoveAt(s, p) = a \o b
  BY DEF Seqs!RemoveAt
<1> HIDE DEF a, b
<1>4. a \o b \in Seq(S) /\ Len(a \o b) = Len(s) - 1
  <2>1. a \o b \in Seq(S) /\ Len(a \o b) = Len(a) + Len(b)
    BY <1>1, <1>2, ConcatProperties
  <2>2. (p - 1) + (Len(s) - p) = Len(s) - 1
    OBVIOUS
  <2> QED
    BY <1>1, <1>2, <2>1, <2>2
<1>5. ASSUME NEW i \in 1..(Len(s) - 1)
      PROVE  (a \o b)[i] = IF i < p THEN s[i] ELSE s[i + 1]
  <2>1. i \in 1..(Len(a) + Len(b))
    BY <1>1, <1>2
  <2>2. (a \o b)[i] = IF i <= Len(a) THEN a[i] ELSE b[i - Len(a)]
    BY <1>1, <1>2, <2>1, ConcatProperties
  <2>3. CASE i < p
    BY <1>1, <2>2, <2>3
  <2>4. CASE ~(i < p)
    <3>1. i - Len(a) \in 1..(Len(s) - p) /\ p + (i - Len(a)) = i + 1
          /\ ~(i <= Len(a))
      BY <1>1, <2>4
    <3> QED
      BY <1>2, <2>2, <2>4, <3>1
  <2> QED
    BY <2>3, <2>4
<1> QED
  BY <1>3, <1>4, <1>5

-----------------------------------------------------------------------------
(* The invariant.                                                          *)

Slots == [key : Keys, value : Keys, age : 0..Ttl]

\* s holds one entry for each key of the list u, in its order, and each is as
\* old as f says.
Mirrors(s, u, f) ==
    /\ s \in Seq(Slots) /\ u \in Seq(Keys) /\ Len(u) = Len(s)
    /\ \A i \in 1..Len(s) : u[i] = s[i].key /\ s[i].age = f[s[i].key]
    /\ \A i, j \in 1..Len(s) : s[i].key = s[j].key => i = j

Inv == /\ Mirrors(store, uses, sincePut)
       /\ Len(store) <= MaxSize
       /\ sincePut \in [Keys -> 0..Ttl]

\* The entry at a position is removed.
LEMMA MirrorsRemoval ==
    ASSUME NEW s, NEW u, NEW f, Mirrors(s, u, f), NEW p \in 1..Len(s)
    PROVE  LET t == Seqs!RemoveAt(s, p)
           IN  /\ Mirrors(t, Seqs!RemoveAt(u, p), f) /\ Len(t) = Len(s) - 1
               /\ \A i \in 1..Len(t) : t[i].key # s[p].key
<1> DEFINE t == Seqs!RemoveAt(s, p)
           v == Seqs!RemoveAt(u, p)
           from(i) == IF i < p THEN i ELSE i + 1
<1>1. /\ s \in Seq(Slots) /\ u \in Seq(Keys) /\ Len(u) = Len(s)
      /\ \A i \in 1..Len(s) : u[i] = s[i].key /\ s[i].age = f[s[i].key]
      /\ \A i, j \in 1..Len(s) : s[i].key = s[j].key => i = j
  BY DEF Mirrors
<1>2. /\ t \in Seq(Slots) /\ Len(t) = Len(s) - 1
      /\ \A i \in 1..(Len(s) - 1) : t[i] = IF i < p THEN s[i] ELSE s[i + 1]
  BY <1>1, RemoveAtProperties
<1>3. /\ v \in Seq(Keys) /\ Len(v) = Len(s) - 1
      /\ \A i \in 1..(Len(s) - 1) : v[i] = IF i < p THEN u[i] ELSE u[i + 1]
  BY <1>1, RemoveAtProperties
<1> HIDE DEF t, v
<1>4. \A i \in 1..(Len(s) - 1) : /\ from(i) \in 1..Len(s) /\ from(i) # p
                                 /\ t[i] = s[from(i)] /\ v[i] = u[from(i)]
  BY <1>1, <1>2, <1>3
<1>5. \A i, j \in 1..(Len(s) - 1) : from(i) = from(j) => i = j
  BY <1>1
<1> HIDE DEF from
<1>6. \A i \in 1..Len(t) : v[i] = t[i].key /\ t[i].age = f[t[i].key]
  BY <1>1, <1>2, <1>4
<1>7. \A i, j \in 1..Len(t) : t[i].key = t[j].key => i = j
  BY <1>1, <1>2, <1>4, <1>5
<1>8. \A i \in 1..Len(t) : t[i].key # s[p].key
  BY <1>1, <1>2, <1>4
<1> QED
  BY <1>2, <1>3, <1>6, <1>7, <1>8 DEF Mirrors, t, v

\* An entry is added at the end, for a key that has none.
LEMMA MirrorsAppend ==
    ASSUME NEW s, NEW u, NEW f, Mirrors(s, u, f), NEW e \in Slots, NEW g,
           \A i \in 1..Len(s) : s[i].key # e.key,
           g[e.key] = e.age, \A k \in Keys : k # e.key => g[k] = f[k]
    PROVE  /\ Mirrors(Append(s, e), Append(u, e.key), g)
           /\ Len(Append(s, e)) = Len(s) + 1
<1> DEFINE t == Append(s, e)
           v == Append(u, e.key)
           n == Len(s)
<1>1. /\ s \in Seq(Slots) /\ u \in Seq(Keys) /\ Len(u) = n /\ n \in Nat
      /\ \A i \in 1..n : u[i] = s[i].key /\ s[i].age = f[s[i].key]
      /\ \A i, j \in 1..n : s[i].key = s[j].key => i = j
      /\ \A i \in 1..n : s[i] \in Slots
  BY DEF Mirrors
<1>2. e.key \in Keys /\ \A i \in 1..n : s[i].key \in Keys
  BY <1>1 DEF Slots
<1>3. /\ t \in Seq(Slots) /\ Len(t) = n + 1 /\ t[n + 1] = e
      /\ \A i \in 1..n : t[i] = s[i]
  BY <1>1, AppendProperties
<1>4. /\ v \in Seq(Keys) /\ Len(v) = n + 1 /\ v[n + 1] = e.key
      /\ \A i \in 1..n : v[i] = u[i]
  BY <1>1, <1>2, AppendProperties
<1> HIDE DEF t, v, n
<1>5. \A i \in 1..(n + 1) : i \in 1..n \/ i = n + 1
  BY <1>1
<1>6. \A i \in 1..(n + 1) : v[i] = t[i].key /\ t[i].age = g[t[i].key]
  BY <1>1, <1>2, <1>3, <1>4, <1>5 DEF n
<1>7. \A i, j \in 1..(n + 1) : t[i].key = t[j].key => i = j
  BY <1>1, <1>2, <1>3, <1>5 DEF n
<1> QED
  BY <1>3, <1>4, <1>6, <1>7 DEF Mirrors, t, v, n

\* The first entry is dropped.
LEMMA MirrorsTail ==
    ASSUME NEW s, NEW u, NEW f, Mirrors(s, u, f), Len(s) >= 1
    PROVE  /\ Mirrors(SubSeq(s, 2, Len(s)), Tail(u), f)
           /\ Len(SubSeq(s, 2, Len(s))) = Len(s) - 1
           /\ \A i \in 1..(Len(s) - 1) : SubSeq(s, 2, Len(s))[i] = s[i + 1]
<1> DEFINE t == SubSeq(s, 2, Len(s))
           v == Tail(u)
<1>1. /\ s \in Seq(Slots) /\ u \in Seq(Keys) /\ Len(u) = Len(s) /\ Len(s) \in Nat
      /\ \A i \in 1..Len(s) : u[i] = s[i].key /\ s[i].age = f[s[i].key]
      /\ \A i, j \in 1..Len(s) : s[i].key = s[j].key => i = j
  BY DEF Mirrors
<1>2. /\ t \in Seq(Slots) /\ Len(t) = Len(s) - 1
      /\ \A i \in 1..(Len(s) - 1) : t[i] = s[i + 1]
  BY <1>1
<1>3. /\ v \in Seq(Keys) /\ Len(v) = Len(s) - 1
      /\ \A i \in 1..(Len(s) - 1) : v[i] = u[i + 1]
  <2>1. u # << >>
    BY <1>1
  <2> QED
    BY <1>1, <2>1, HeadTailProperties
<1> HIDE DEF t, v
<1>4. \A i \in 1..(Len(s) - 1) : i + 1 \in 1..Len(s)
  BY <1>1
<1>5. \A i \in 1..Len(t) : v[i] = t[i].key /\ t[i].age = f[t[i].key]
  BY <1>1, <1>2, <1>3, <1>4
<1>6. \A i, j \in 1..Len(t) : t[i].key = t[j].key => i = j
  BY <1>1, <1>2, <1>4
<1> QED
  BY <1>2, <1>3, <1>5, <1>6 DEF Mirrors, t, v

-----------------------------------------------------------------------------
(* The operations.                                                         *)

\* A stored key has one position, in the store as in the list.
LEMMA OnePosition ==
    ASSUME Inv, NEW k \in Keys
    PROVE  /\ k \in Stored <=> k \in Used
           /\ k \in Stored =>
                /\ Position(k) \in 1..Len(store) /\ store[Position(k)].key = k
                /\ EntryOf(k) = store[Position(k)]
                /\ Without(k) = Seqs!RemoveAt(store, Position(k))
                /\ Forget(k) = Seqs!RemoveAt(uses, Position(k))
           /\ k \notin Stored =>
                /\ Without(k) = store /\ Forget(k) = uses
                /\ \A i \in 1..Len(store) : store[i].key # k
<1>1. /\ DOMAIN store = 1..Len(store) /\ DOMAIN uses = 1..Len(store)
      /\ \A i \in 1..Len(store) : uses[i] = store[i].key
      /\ \A i, j \in 1..Len(store) : store[i].key = store[j].key => i = j
  BY DEF Inv, Mirrors
<1>2. k \in Stored <=> k \in Used
  BY <1>1 DEF Stored, Used
<1>3. ASSUME k \in Stored
      PROVE  /\ Position(k) \in 1..Len(store) /\ store[Position(k)].key = k
             /\ (CHOOSE i \in DOMAIN uses : uses[i] = k) = Position(k)
  <2>1. PICK i \in DOMAIN store : store[i].key = k
    BY <1>3 DEF Stored
  <2>2. Position(k) \in DOMAIN store /\ store[Position(k)].key = k
    BY <2>1 DEF Position
  <2>3. /\ (CHOOSE j \in DOMAIN uses : uses[j] = k) \in DOMAIN uses
        /\ uses[CHOOSE j \in DOMAIN uses : uses[j] = k] = k
    BY <1>1, <2>1
  <2> QED
    BY <1>1, <2>2, <2>3
<1>4. k \notin Stored => \A i \in 1..Len(store) : store[i].key # k
  BY <1>1 DEF Stored
<1> QED
  BY <1>2, <1>3, <1>4 DEF EntryOf, Without, Forget

LEMMA Removal ==
    ASSUME Inv, NEW k \in Keys
    PROVE  /\ Mirrors(Without(k), Forget(k), sincePut)
           /\ Len(Without(k)) \in Nat /\ Len(Without(k)) <= Len(store)
           /\ k \in Stored => Len(Without(k)) = Len(store) - 1
           /\ \A i \in 1..Len(Without(k)) : Without(k)[i].key # k
<1>1. Mirrors(store, uses, sincePut) /\ Len(store) \in Nat
  BY DEF Inv, Mirrors
<1>2. CASE k \in Stored
  <2> DEFINE p == Position(k)
  <2>1. /\ p \in 1..Len(store) /\ store[p].key = k
        /\ Without(k) = Seqs!RemoveAt(store, p) /\ Forget(k) = Seqs!RemoveAt(uses, p)
    BY <1>2, OnePosition
  <2> HIDE DEF p
  <2>2. /\ Mirrors(Without(k), Forget(k), sincePut) /\ Len(Without(k)) = Len(store) - 1
        /\ \A i \in 1..Len(Without(k)) : Without(k)[i].key # k
    BY <1>1, <2>1, MirrorsRemoval
  <2> QED
    BY <1>1, <2>1, <2>2
<1>3. CASE k \notin Stored
  BY <1>1, <1>3, OnePosition
<1> QED
  BY <1>2, <1>3

LEMMA GetKeeps ==
    ASSUME Inv, NEW k \in Keys, GetKey(k)
    PROVE  Inv'
<1>1. /\ sincePut' = sincePut
      /\ store' = IF Hit(k) THEN Append(Without(k), Touched(k)) ELSE Without(k)
      /\ uses' = IF Hit(k) THEN Append(Forget(k), k)
                 ELSE IF k \in Stored THEN Forget(k) ELSE uses
  BY DEF GetKey, Get
<1>2. Mirrors(store, uses, sincePut) /\ Len(store) \in Nat /\ Len(store) <= MaxSize
      /\ sincePut \in [Keys -> 0..Ttl]
  BY DEF Inv, Mirrors
<1>3. CASE ~Hit(k)
  <2>1. store' = Without(k) /\ uses' = Forget(k)
    BY <1>1, <1>3, OnePosition
  <2>2. Len(Without(k)) <= MaxSize
    BY <1>2, Removal, Legal
  <2> QED
    BY <1>1, <1>2, <2>1, <2>2, Removal DEF Inv
<1>4. CASE Hit(k)
  <2> DEFINE e == store[Position(k)]
  <2>1. k \in Stored
    BY <1>4 DEF Hit
  <2>2. Position(k) \in 1..Len(store) /\ e.key = k /\ Touched(k) = e
    BY <2>1, OnePosition DEF Touched
  <2>3. e \in Slots /\ e.age = sincePut[k]
    BY <1>2, <2>2 DEF Mirrors
  <2> HIDE DEF e
  <2>4. store' = Append(Without(k), e) /\ uses' = Append(Forget(k), e.key)
    BY <1>1, <1>4, <2>2
  <2>5. /\ Mirrors(Without(k), Forget(k), sincePut) /\ Len(Without(k)) = Len(store) - 1
        /\ \A i \in 1..Len(Without(k)) : Without(k)[i].key # e.key
    BY <2>1, <2>2, Removal
  <2>6. Mirrors(store', uses', sincePut) /\ Len(store') = Len(Without(k)) + 1
    BY <2>2, <2>3, <2>4, <2>5, MirrorsAppend
  <2> QED
    BY <1>1, <1>2, <2>5, <2>6, Legal DEF Inv
<1> QED
  BY <1>3, <1>4

LEMMA DeleteKeeps ==
    ASSUME Inv, NEW k \in Keys, DeleteKey(k)
    PROVE  Inv'
<1>1. store' = Without(k) /\ uses' = Forget(k) /\ sincePut' = sincePut
  BY DEF DeleteKey, Delete
<1>2. Len(store) \in Nat /\ Len(store) <= MaxSize /\ sincePut \in [Keys -> 0..Ttl]
  BY DEF Inv, Mirrors
<1>3. Len(Without(k)) <= MaxSize
  BY <1>2, Removal, Legal
<1> QED
  BY <1>1, <1>2, <1>3, Removal DEF Inv

\* A put of a new key into a full store evicts the least recently used one.
LEMMA PutKeeps ==
    ASSUME Inv, NEW k \in Keys, PutKey(k)
    PROVE  Inv'
<1> DEFINE e == [key |-> k, value |-> k, age |-> 0]
<1>1. /\ store' = Append(IF k \in Stored THEN Without(k) ELSE RoomForOne, e)
      /\ uses' = Latest(Append(Forget(k), k))
      /\ sincePut' = [sincePut EXCEPT ![k] = 0]
  BY DEF PutKey, Put
<1>2. /\ Mirrors(store, uses, sincePut) /\ Len(store) \in Nat /\ Len(store) <= MaxSize
      /\ sincePut \in [Keys -> 0..Ttl] /\ uses \in Seq(Keys) /\ Len(uses) = Len(store)
  BY DEF Inv, Mirrors
<1>3. /\ e \in Slots /\ e.key = k /\ sincePut'[e.key] = e.age
      /\ \A j \in Keys : j # e.key => sincePut'[j] = sincePut[j]
      /\ sincePut' \in [Keys -> 0..Ttl]
  BY <1>1, <1>2, Legal DEF Slots
<1> HIDE DEF e
<1>4. CASE k \in Stored
  <2>1. /\ Mirrors(Without(k), Forget(k), sincePut) /\ Len(Without(k)) = Len(store) - 1
        /\ \A i \in 1..Len(Without(k)) : Without(k)[i].key # e.key
    BY <1>3, <1>4, Removal
  <2> DEFINE kept == Without(k)
             list == Forget(k)
  <2> HIDE DEF kept, list
  <2>2. /\ Mirrors(Append(Without(k), e), Append(Forget(k), e.key), sincePut')
        /\ Len(Append(Without(k), e)) = Len(Without(k)) + 1
    <3>1. /\ Mirrors(kept, list, sincePut)
          /\ \A i \in 1..Len(kept) : kept[i].key # e.key
      BY <2>1 DEF kept, list
    <3>2. /\ Mirrors(Append(kept, e), Append(list, e.key), sincePut')
          /\ Len(Append(kept, e)) = Len(kept) + 1
      BY <1>3, <3>1, MirrorsAppend
    <3> QED
      BY <3>2 DEF kept, list
  <2>3. Len(Append(Forget(k), k)) = Len(store)
    BY <1>2, <1>3, <2>1, <2>2 DEF Mirrors
  <2>4. store' = Append(Without(k), e) /\ uses' = Append(Forget(k), k)
    BY <1>1, <1>2, <1>4, <2>3, Legal DEF Latest
  <2> QED
    BY <1>2, <1>3, <2>1, <2>2, <2>4 DEF Inv
<1>5. CASE k \notin Stored /\ Len(store) < MaxSize
  <2>1. Forget(k) = uses /\ \A i \in 1..Len(store) : store[i].key # e.key
    BY <1>3, <1>5, OnePosition
  <2>2. ~(Len(store) >= MaxSize)
    BY <1>2, <1>5, Legal
  <2>3. store' = Append(store, e)
    BY <1>1, <1>5, <2>2 DEF RoomForOne
  <2>4. Mirrors(store', Append(uses, k), sincePut') /\ Len(store') = Len(store) + 1
    <3>1. /\ Mirrors(Append(store, e), Append(uses, e.key), sincePut')
          /\ Len(Append(store, e)) = Len(store) + 1
      BY <1>2, <1>3, <2>1, MirrorsAppend
    <3> QED
      BY <1>3, <2>3, <3>1
  <2>5. Len(Append(uses, k)) = Len(store) + 1
    BY <1>2
  <2>6. uses' = Append(uses, k)
    BY <1>1, <1>2, <1>5, <2>1, <2>5, Legal DEF Latest
  <2> QED
    BY <1>2, <1>3, <1>5, <2>4, <2>6, Legal DEF Inv
<1>6. CASE k \notin Stored /\ Len(store) = MaxSize
  <2> DEFINE kept == SubSeq(store, 2, Len(store))
  <2>1. Forget(k) = uses /\ \A i \in 1..Len(store) : store[i].key # k
    BY <1>6, OnePosition
  <2>2. RoomForOne = kept
    <3>1. Len(store) - MaxSize + 2 = 2 /\ Len(store) >= MaxSize
      BY <1>2, <1>6, Legal
    <3> QED
      BY <3>1 DEF RoomForOne
  <2>3. /\ Mirrors(kept, Tail(uses), sincePut) /\ Len(kept) = Len(store) - 1
        /\ \A i \in 1..(Len(store) - 1) : kept[i] = store[i + 1]
    <3>1. Len(store) >= 1
      BY <1>2, <1>6, Legal
    <3> QED
      BY <1>2, <3>1, MirrorsTail
  <2> HIDE DEF kept
  <2>4. \A i \in 1..Len(kept) : kept[i].key # e.key
    <3>1. \A i \in 1..Len(kept) : i + 1 \in 1..Len(store) /\ kept[i] = store[i + 1]
      BY <1>2, <2>3
    <3> QED
      BY <1>3, <2>1, <3>1
  <2>5. /\ Mirrors(Append(kept, e), Append(Tail(uses), k), sincePut')
        /\ Len(Append(kept, e)) = Len(store)
    <3> DEFINE list == Tail(uses)
    <3>1. Mirrors(kept, list, sincePut)
      BY <2>3
    <3> HIDE DEF list
    <3>2. /\ Mirrors(Append(kept, e), Append(list, e.key), sincePut')
          /\ Len(Append(kept, e)) = Len(kept) + 1
      BY <1>3, <2>4, <3>1, MirrorsAppend
    <3> QED
      BY <1>2, <1>3, <2>3, <3>2 DEF list
  <2>6. uses' = Append(Tail(uses), k)
    <3>1. Len(Append(uses, k)) = Len(uses) + 1
      BY <1>2
    <3>2. uses' = Tail(Append(uses, k))
      BY <1>1, <1>2, <1>6, <2>1, <3>1, Legal DEF Latest
    <3>3. uses # << >>
      BY <1>2, <1>6, Legal
    <3>4. Tail(Append(uses, k)) = Append(Tail(uses), k)
      BY <1>2, <3>3, HeadTailAppend
    <3> QED
      BY <3>2, <3>4
  <2> QED
    BY <1>1, <1>2, <1>3, <1>6, <2>2, <2>5, <2>6 DEF Inv
<1> QED
  BY <1>2, <1>4, <1>5, <1>6, Legal

LEMMA TickKeeps ==
    ASSUME Inv, Tick
    PROVE  Inv'
<1>1. /\ \A k \in Keys : sincePut[k] \in 0..Ttl
      /\ sincePut' = [k \in Keys |-> IF sincePut[k] < Ttl THEN sincePut[k] + 1 ELSE Ttl]
      /\ sincePut' \in [Keys -> 0..Ttl] /\ uses' = uses
  BY Legal DEF Inv, Tick
<1> DEFINE older(entry) == IF entry.age < Ttl THEN [entry EXCEPT !.age = entry.age + 1]
                           ELSE entry
<1>2. \A entry \in Slots : /\ older(entry) \in Slots /\ older(entry).key = entry.key
                           /\ entry.age = sincePut[entry.key]
                                => older(entry).age = sincePut'[entry.key]
  BY <1>1, Legal DEF Slots
<1>3. store' = [i \in 1..Len(store) |-> older(store[i])]
  BY DEF Tick, GrowOlder, Inv, Mirrors
<1> HIDE DEF older
<1>4. store \in Seq(Slots) /\ \A i \in 1..Len(store) : store[i] \in Slots
  BY DEF Inv, Mirrors
<1>5. store' \in Seq(Slots) /\ Len(store') = Len(store)
  BY <1>2, <1>3, <1>4
<1>6. \A i \in 1..Len(store) : store'[i] = older(store[i])
  BY <1>3
<1>7. Mirrors(store', uses', sincePut')
  <2>1. /\ uses \in Seq(Keys) /\ Len(uses) = Len(store)
        /\ \A i \in 1..Len(store) :
             uses[i] = store[i].key /\ store[i].age = sincePut[store[i].key]
        /\ \A i, j \in 1..Len(store) : store[i].key = store[j].key => i = j
    BY DEF Inv, Mirrors
  <2>2. \A i \in 1..Len(store) : /\ store'[i].key = store[i].key
                                 /\ store'[i].age = sincePut'[store'[i].key]
    BY <1>2, <1>4, <1>6, <2>1
  <2>3. \A i \in 1..Len(store') :
          uses'[i] = store'[i].key /\ store'[i].age = sincePut'[store'[i].key]
    BY <1>1, <1>5, <2>1, <2>2
  <2>4. \A i, j \in 1..Len(store') : store'[i].key = store'[j].key => i = j
    BY <1>5, <2>1, <2>2
  <2> QED
    BY <1>1, <1>5, <2>1, <2>3, <2>4 DEF Mirrors
<1> QED
  BY <1>1, <1>5, <1>7 DEF Inv

LEMMA InvInit == LRUInit => Inv
BY Legal, EmptySeq DEF LRUInit, Inv, Mirrors

LEMMA InvStep == Inv /\ [LRUNext]_lruVars => Inv'
<1> SUFFICES ASSUME Inv, [LRUNext]_lruVars PROVE Inv'
  OBVIOUS
<1>1. CASE ClearAll
  <2>1. store' = << >> /\ uses' = << >> /\ sincePut' = sincePut
    BY <1>1 DEF ClearAll, Clear
  <2> QED
    BY <2>1, Legal, EmptySeq DEF Inv, Mirrors
<1>2. CASE UNCHANGED lruVars
  BY <1>2 DEF lruVars, Inv
<1> QED
  BY <1>1, <1>2, GetKeeps, PutKeeps, DeleteKeeps, TickKeeps DEF LRUNext

\* Whatever is asked of it, the store holds the max_size keys used last, in
\* the order of their use (203-222).
THEOREM AlwaysMostRecent == LRUSpec => []KeepsMostRecent
<1>1. Inv => KeepsMostRecent
  <2> SUFFICES ASSUME Inv PROVE KeepsMostRecent
    OBVIOUS
  <2>1. /\ uses \in Seq(Keys) /\ DOMAIN store = 1..Len(store) /\ Len(uses) = Len(store)
        /\ \A i \in 1..Len(store) : uses[i] = store[i].key
    BY DEF Inv, Mirrors
  <2> QED
    BY <2>1 DEF KeepsMostRecent, KeysInOrder
<1> QED
  BY <1>1, InvInit, InvStep, PTL DEF LRUSpec

\* What is in the store is found exactly as long as its last put is less than
\* the ttl ago: no hit prolongs that, and a replacement renews it (195-218).
THEOREM TtlAlwaysFromPut == LRUSpec => []TtlCountsFromPut
<1>1. Inv => TtlCountsFromPut
  <2> SUFFICES ASSUME Inv, NEW k \in Stored
               PROVE  Hit(k) <=> (Ttl = 0 \/ sincePut[k] < Ttl)
    BY DEF TtlCountsFromPut
  <2> DEFINE p == Position(k)
  <2>1. k \in Keys
    <3>1. \A i \in DOMAIN store : store[i] \in Slots
      BY DEF Inv, Mirrors
    <3> QED
      BY <3>1 DEF Stored, Slots
  <2>2. /\ p \in 1..Len(store) /\ store[p].key = k /\ EntryOf(k) = store[p]
        /\ store[p].age = sincePut[k] /\ sincePut[k] \in 0..Ttl
    <3>1. p \in 1..Len(store) /\ store[p].key = k /\ EntryOf(k) = store[p]
      BY <2>1, OnePosition
    <3> QED
      BY <2>1, <3>1 DEF Inv, Mirrors
  <2>3. Hit(k) <=> ~(Ttl # 0 /\ store[p].age >= Ttl)
    BY <2>2 DEF Hit, Expired
  <2> QED
    BY <2>2, <2>3, Legal
<1> QED
  BY <1>1, InvInit, InvStep, PTL DEF LRUSpec
=============================================================================
