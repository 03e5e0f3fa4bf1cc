----------------------------- MODULE CacheProofs -----------------------------
(***************************************************************************)
(* Proofs about the two coalescing protocols of Cache on either backend,   *)
(* for any callers, keys, size and time to live, as long as no guarded     *)
(* function ends in a BaseException and no put raises (Spec and not        *)
(* SpecUncaught).  The first part does not depend on what the backend      *)
(* holds: a look-up may hit or miss, an entry be evicted, expire, be       *)
(* invalidated or be overwritten by others at will.  Then come clear() on  *)
(* Redis, for any number of keys; what both backends hold, and what        *)
(* invalidations leave of it; and, from all three, what callers are        *)
(* answered: the cache implements MemoPromise.                             *)
(***************************************************************************)
EXTENDS CacheAnswers, TLAPS, FiniteSetTheorems, SequenceTheorems

-----------------------------------------------------------------------------
(* One path: its callers, where their calls are (f), and its table.        *)

Owning == {"computing", "written"}
Owns(f, c, k) == f[c].at \in Owning /\ f[c].key = k
Waits(f, c, k) == f[c].at = "waiting" /\ f[c].key = k

\* The table lists the keys being computed or stored, each by one caller, and
\* waiters wait for listed keys only.
Path(f, callers, table) ==
    /\ \A k \in Keys : k \in table <=> \E c \in callers : Owns(f, c, k)
    /\ \A k \in Keys, c, d \in callers :
         Owns(f, c, k) /\ Owns(f, d, k) => c = d
    /\ \A k \in Keys, c \in callers : Waits(f, c, k) => k \in table

\* A caller moves between stages in which it computes nothing; if it comes to
\* wait, then for a listed key.
LEMMA PathNeutral ==
    ASSUME NEW f \in [Callers -> Calls], NEW S \in SUBSET Callers, NEW T,
           NEW c \in Callers, NEW s \in Calls, Path(f, S, T),
           f[c].at \notin Owning, s.at \notin Owning,
           s.at = "waiting" /\ c \in S => s.key \in T
    PROVE  Path([f EXCEPT ![c] = s], S, T)
BY DEF Path, Owns, Waits, Owning

\* Whatever a caller of the other path does, this one is not concerned.
LEMMA PathOther ==
    ASSUME NEW f \in [Callers -> Calls], NEW S \in SUBSET Callers, NEW T,
           NEW c \in Callers \ S, NEW s \in Calls, Path(f, S, T)
    PROVE  Path([f EXCEPT ![c] = s], S, T)
BY DEF Path, Owns, Waits, Owning

\* A caller reserves a key that is not listed.
LEMMA PathReserve ==
    ASSUME NEW f \in [Callers -> Calls], NEW S \in SUBSET Callers, NEW T,
           NEW c \in S, NEW s \in Calls, NEW k \in Keys, Path(f, S, T),
           f[c].at \notin Owning, k \notin T, s.at \in Owning, s.key = k
    PROVE  Path([f EXCEPT ![c] = s], S, T \cup {k})
BY DEF Path, Owns, Waits, Owning

\* An owner goes on to another stage in which it owns its key.
LEMMA PathStays ==
    ASSUME NEW f \in [Callers -> Calls], NEW S \in SUBSET Callers, NEW T,
           NEW c \in Callers, NEW s \in Calls, NEW k \in Keys, Path(f, S, T),
           Owns(f, c, k), s.at \in Owning, s.key = k
    PROVE  Path([f EXCEPT ![c] = s], S, T)
<1> DEFINE g == [f EXCEPT ![c] = s]
<1>1. \A d \in S, j \in Keys : Owns(g, d, j) <=> Owns(f, d, j)
  BY DEF Owns
<1>2. \A d \in S, j \in Keys : Waits(g, d, j) <=> Waits(f, d, j)
  BY DEF Owns, Waits, Owning
<1> QED
  BY <1>1, <1>2 DEF Path

\* The call of every caller after c has released its key and woken some.
Released(f, c, woken) ==
    [d \in Callers |-> IF d = c THEN Idle
                       ELSE IF d \in woken THEN Asking(f[d].key) ELSE f[d]]

\* An owner releases its key and wakes at least its waiters.
LEMMA PathRelease ==
    ASSUME NEW f \in [Callers -> Calls], NEW S \in SUBSET Callers, NEW T,
           NEW c \in S, NEW k \in Keys, NEW woken \in SUBSET S, Path(f, S, T),
           Owns(f, c, k), \A d \in woken : f[d].at = "waiting",
           \A d \in S : Waits(f, d, k) => d \in woken
    PROVE  Path(Released(f, c, woken), S, T \ {k})
<1> DEFINE g == Released(f, c, woken)
<1>1. \A d \in S, j \in Keys : Owns(g, d, j) <=> Owns(f, d, j) /\ d # c
  BY DEF Released, Owns, Owning, Idle, Asking
<1>2. \A d \in S, j \in Keys : Waits(g, d, j) <=> Waits(f, d, j) /\ d \notin woken
  BY DEF Released, Waits, Owns, Owning, Idle, Asking
<1>3. \A j \in Keys : j \in T \ {k} <=> \E d \in S : Owns(g, d, j)
  BY <1>1 DEF Path, Owns
<1>4. \A j \in Keys, d \in S : Waits(g, d, j) => j \in T \ {k}
  BY <1>2 DEF Path
<1> QED
  BY <1>1, <1>3, <1>4 DEF Path

\* The same release seen from the other path.
LEMMA PathOtherRelease ==
    ASSUME NEW f \in [Callers -> Calls], NEW S \in SUBSET Callers, NEW T,
           NEW c \in Callers \ S, NEW woken \in SUBSET (Callers \ S), Path(f, S, T)
    PROVE  Path(Released(f, c, woken), S, T)
<1>1. \A d \in S : Released(f, c, woken)[d] = f[d]
  BY DEF Released
<1> QED
  BY <1>1 DEF Path, Owns, Waits, Owning

-----------------------------------------------------------------------------
(* The inductive invariant.                                                *)

\* The calls and the data behind them have their types.
CallsOK ==
    /\ call \in [Callers -> Calls]
    /\ source \in [Keys -> 0..MaxVersion]
    /\ inflight \subseteq Keys /\ async_inflight \subseteq Keys

PathsInv ==
    /\ CallsOK
    /\ Path(call, Threads, inflight)
    /\ Path(call, Tasks, async_inflight)

\* What a stage's label says of the stage.
LEMMA Stages ==
    ASSUME NEW k \in Keys
    PROVE  /\ Idle \in Calls /\ Idle.at = "idle"
           /\ Asking(k) \in Calls /\ Asking(k).at = "asking" /\ Asking(k).key = k
           /\ Waiting(k) \in Calls /\ Waiting(k).at = "waiting" /\ Waiting(k).key = k
           /\ \A v \in 0..MaxVersion :
                /\ Computing(k, v) \in Calls
                /\ Computing(k, v).at = "computing" /\ Computing(k, v).key = k
           /\ Missed(k) \in Calls /\ Missed(k).at = "missed" /\ Missed(k).key = k
           /\ Written(k) \in Calls /\ Written(k).at = "written" /\ Written(k).key = k
BY DEF Calls, Idle, Asking, Waiting, Computing, Missed, Written

\* A caller is waiting for a key exactly when its call's fields say so.
LEMMA WaitingIsWaits ==
    ASSUME CallsOK, NEW c \in Callers, NEW k \in Keys
    PROVE  call[c] = Waiting(k) <=> Waits(call, c, k)
BY DEF CallsOK, Calls, Idle, Asking, Waiting, Computing, Missed, Written, Waits

\* A caller owns a key exactly when its call's fields say so.
LEMMA OwnerOwnsKey ==
    ASSUME CallsOK, NEW S \in SUBSET Callers, NEW c \in S, NEW k \in Keys
    PROVE  c \in Owners(S, k) <=> Owns(call, c, k)
<1>1. call[c] \in Calls
  BY DEF CallsOK
<1>2. ASSUME Owns(call, c, k)
      PROVE  \/ call[c] = Written(k)
             \/ \E v \in 0..MaxVersion : call[c] = Computing(k, v)
  <2>1. \E j \in Keys : \/ call[c] = Written(j)
                       \/ \E v \in 0..MaxVersion : call[c] = Computing(j, v)
    BY <1>1, <1>2, Stages DEF Calls, Owns, Owning
  <2> QED
    BY <1>2, <2>1, Stages DEF Owns
<1> QED
  BY <1>2, Stages DEF Owns, Owning, Owners

\* A step in which one caller moves without holding a key on either side of
\* the move, and comes to wait for reserved keys only, keeps the invariant.
LEMMA MoveKeeps ==
    ASSUME PathsInv, NEW c \in Callers, NEW s \in Calls, Become(c, s),
           call[c].at \notin Owning, s.at \notin Owning,
           s.at = "waiting" /\ c \in Threads => s.key \in inflight,
           s.at = "waiting" /\ c \in Tasks => s.key \in async_inflight,
           UNCHANGED <<inflight, async_inflight, source>>
    PROVE  PathsInv'
<1>1. CallsOK'
  BY DEF PathsInv, CallsOK, Become
<1>2. Threads \in SUBSET Callers /\ Tasks \in SUBSET Callers
  BY DEF Callers
<1>3. call \in [Callers -> Calls]
  BY DEF PathsInv, CallsOK
<1>4. Path([call EXCEPT ![c] = s], Threads, inflight)
  BY <1>2, <1>3, PathNeutral DEF PathsInv
<1>5. Path([call EXCEPT ![c] = s], Tasks, async_inflight)
  BY <1>2, <1>3, PathNeutral DEF PathsInv
<1> QED
  BY <1>1, <1>4, <1>5 DEF PathsInv, Become

\* A step that leaves calls and tables alone keeps the invariant.
LEMMA QuietKeeps ==
    ASSUME PathsInv, UNCHANGED <<call, inflight, async_inflight>>,
           source' \in [Keys -> 0..MaxVersion]
    PROVE  PathsInv'
BY DEF PathsInv, CallsOK

\* A thread's reservation of a free key keeps the invariant.
LEMMA SyncReserveKeeps ==
    ASSUME PathsInv, NEW t \in Threads, SyncReserve(t)
    PROVE  PathsInv'
<1>1. PICK k \in Keys : /\ call[t] = Asking(k) /\ k \notin inflight
                        /\ inflight' = inflight \cup {k}
                        /\ Become(t, Computing(k, source[k]))
                        /\ UNCHANGED <<async_inflight, source>>
  BY DEF SyncReserve, Miss, Free
<1> DEFINE s == Computing(k, source[k])
<1>2. /\ call \in [Callers -> Calls] /\ s \in Calls
      /\ s.at \in Owning /\ s.key = k /\ call[t].at \notin Owning
  BY <1>1, Stages DEF PathsInv, CallsOK, Owning
<1>3. /\ Threads \in SUBSET Callers /\ Tasks \in SUBSET Callers
      /\ t \in Callers \ Tasks
  BY CacheAssumption DEF Callers
<1>4. Path([call EXCEPT ![t] = s], Threads, inflight \cup {k})
  BY <1>1, <1>2, <1>3, PathReserve DEF PathsInv
<1>5. Path([call EXCEPT ![t] = s], Tasks, async_inflight)
  BY <1>2, <1>3, PathOther DEF PathsInv
<1>6. CallsOK'
  BY <1>1, <1>2 DEF PathsInv, CallsOK, Become
<1> QED
  BY <1>1, <1>4, <1>5, <1>6 DEF PathsInv, Become

\* So does a task's.
LEMMA AsyncReserveKeeps ==
    ASSUME PathsInv, NEW t \in Tasks, AsyncReserve(t)
    PROVE  PathsInv'
<1>1. PICK k \in Keys : /\ call[t] \in {Asking(k), Missed(k)}
                        /\ k \notin async_inflight
                        /\ async_inflight' = async_inflight \cup {k}
                        /\ Become(t, Computing(k, source[k]))
                        /\ UNCHANGED <<inflight, source>>
  BY DEF AsyncReserve, HasMissed, Miss, Free
<1> DEFINE s == Computing(k, source[k])
<1>2. /\ call \in [Callers -> Calls] /\ s \in Calls
      /\ s.at \in Owning /\ s.key = k /\ call[t].at \notin Owning
  BY <1>1, Stages DEF PathsInv, CallsOK, Owning
<1>3. /\ Threads \in SUBSET Callers /\ Tasks \in SUBSET Callers
      /\ t \in Callers \ Threads
  BY CacheAssumption DEF Callers
<1>4. Path([call EXCEPT ![t] = s], Tasks, async_inflight \cup {k})
  BY <1>1, <1>2, <1>3, PathReserve DEF PathsInv
<1>5. Path([call EXCEPT ![t] = s], Threads, inflight)
  BY <1>2, <1>3, PathOther DEF PathsInv
<1>6. CallsOK'
  BY <1>1, <1>2 DEF PathsInv, CallsOK, Become
<1> QED
  BY <1>1, <1>4, <1>5, <1>6 DEF PathsInv, Become

\* A release maps calls to calls.
LEMMA ReleasedCalls ==
    ASSUME CallsOK, NEW c, NEW woken, \A d \in woken : call[d].at = "waiting"
    PROVE  Released(call, c, woken) \in [Callers -> Calls]
<1>1. ASSUME NEW d \in Callers, d \in woken
      PROVE  Asking(call[d].key) \in Calls
  <2>1. call[d] \in Calls /\ call[d].at = "waiting"
    BY <1>1 DEF CallsOK
  <2>2. PICK k \in Keys : call[d] = Waiting(k)
    <3>1. \A j \in Keys, v \in 0..MaxVersion : Computing(j, v).at # "waiting"
      BY Stages
    <3>2. /\ Idle.at # "waiting"
          /\ \A j \in Keys : /\ Asking(j).at # "waiting"
                            /\ Missed(j).at # "waiting"
                            /\ Written(j).at # "waiting"
      BY DEF Idle, Asking, Missed, Written
    <3> QED
      BY <2>1, <3>1, <3>2 DEF Calls
  <2> QED
    BY <2>2, Stages
<1>2. Idle \in Calls /\ call \in [Callers -> Calls]
  BY DEF Calls, CallsOK
<1> QED
  BY <1>1, <1>2 DEF Released

\* A thread that is done with its key wakes every waiting thread.
LEMMA SyncUnreserveKeeps ==
    ASSUME PathsInv, NEW t \in Threads, NEW k \in Keys, NEW v \in 0..MaxVersion,
           call[t] = Computing(k, v), SyncUnreserve(t, k)
    PROVE  PathsInv'
<1> DEFINE woken == SyncWoken
           g == Released(call, t, woken)
<1>1. call \in [Callers -> Calls] /\ CallsOK
  BY DEF PathsInv, CallsOK
<1>2. /\ Threads \in SUBSET Callers /\ Tasks \in SUBSET Callers
      /\ t \in Callers \ Tasks
      /\ woken \in SUBSET Threads /\ woken \in SUBSET (Callers \ Tasks)
  BY CacheAssumption DEF Callers, SyncWoken
<1>3. Owns(call, t, k)
  BY Stages DEF Owns, Owning
<1>4. \A d \in woken : call[d].at = "waiting"
  BY Stages DEF SyncWoken
<1>5. \A d \in Threads : Waits(call, d, k) => d \in woken
  BY <1>1, <1>2, WaitingIsWaits DEF SyncWoken
<1>6. Path(g, Threads, inflight \ {k})
  BY <1>1, <1>2, <1>3, <1>4, <1>5, PathRelease DEF PathsInv
<1>7. Path(g, Tasks, async_inflight)
  BY <1>1, <1>2, PathOtherRelease DEF PathsInv
<1>8. g \in [Callers -> Calls]
  BY <1>1, <1>4, ReleasedCalls
<1>9. /\ call' = g /\ inflight' = inflight \ {k}
      /\ UNCHANGED <<async_inflight, source>>
  BY DEF SyncUnreserve, Unreserve, Released
<1> HIDE DEF g
<1> QED
  BY <1>6, <1>7, <1>8, <1>9 DEF PathsInv, CallsOK

\* A task that is done with its key wakes the tasks that wait for that key.
LEMMA AsyncUnreserveKeeps ==
    ASSUME PathsInv, NEW t \in Tasks, NEW k \in Keys, Owns(call, t, k),
           AsyncUnreserve(t, k)
    PROVE  PathsInv'
<1> DEFINE woken == AsyncWoken(k)
           g == Released(call, t, woken)
<1>1. call \in [Callers -> Calls] /\ CallsOK
  BY DEF PathsInv, CallsOK
<1>2. /\ Threads \in SUBSET Callers /\ Tasks \in SUBSET Callers
      /\ t \in Callers \ Threads
      /\ woken \in SUBSET Tasks /\ woken \in SUBSET (Callers \ Threads)
  BY CacheAssumption DEF Callers, AsyncWoken
<1>4. \A d \in woken : call[d].at = "waiting"
  BY Stages DEF AsyncWoken
<1>5. \A d \in Tasks : Waits(call, d, k) => d \in woken
  BY <1>1, <1>2, WaitingIsWaits DEF AsyncWoken
<1>6. Path(g, Tasks, async_inflight \ {k})
  BY <1>1, <1>2, <1>4, <1>5, PathRelease DEF PathsInv
<1>7. Path(g, Threads, inflight)
  BY <1>1, <1>2, PathOtherRelease DEF PathsInv
<1>8. g \in [Callers -> Calls]
  BY <1>1, <1>4, ReleasedCalls
<1>9. /\ call' = g /\ async_inflight' = async_inflight \ {k}
      /\ UNCHANGED <<inflight, source>>
  BY DEF AsyncUnreserve, Unreserve, Released
<1> HIDE DEF g
<1> QED
  BY <1>6, <1>7, <1>8, <1>9 DEF PathsInv, CallsOK

\* A task whose value is in the database still has its key.
LEMMA StoreRemotelyKeeps ==
    ASSUME PathsInv, NEW t \in Tasks, StoreRemotely(t)
    PROVE  PathsInv'
<1>1. PICK k \in Keys, v \in 0..MaxVersion :
           /\ call[t] = Computing(k, v)
           /\ Become(t, Written(k))
           /\ UNCHANGED <<inflight, async_inflight, source>>
  BY DEF StoreRemotely, Compute, tables
<1> DEFINE s == Written(k)
<1>2. /\ call \in [Callers -> Calls] /\ s \in Calls
      /\ s.at \in Owning /\ s.key = k /\ Owns(call, t, k)
  BY <1>1, Stages DEF PathsInv, CallsOK, Owning, Owns
<1>3. /\ Threads \in SUBSET Callers /\ Tasks \in SUBSET Callers
      /\ t \in Callers
  BY DEF Callers
<1>4. Path([call EXCEPT ![t] = s], Tasks, async_inflight)
  BY <1>2, <1>3, PathStays DEF PathsInv
<1>5. Path([call EXCEPT ![t] = s], Threads, inflight)
  BY <1>2, <1>3, PathStays DEF PathsInv
<1>6. CallsOK'
  BY <1>1, <1>2 DEF PathsInv, CallsOK, Become
<1> QED
  BY <1>1, <1>4, <1>5, <1>6 DEF PathsInv, Become

-----------------------------------------------------------------------------
(* Every step keeps the invariant.                                         *)

\* It holds at the start: nobody calls and nothing is listed.
LEMMA PathsInvInit == Init => PathsInv
<1> SUFFICES ASSUME Init PROVE PathsInv
  OBVIOUS
<1>1. \A c \in Callers : call[c] = Idle /\ Idle.at = "idle"
  BY DEF Init, Idle
<1>2. CallsOK
  BY CacheAssumption DEF Init, CallsOK, Calls
<1> QED
  BY <1>1, <1>2 DEF Init, PathsInv, Path, Owns, Owning, Waits, Callers

\* Calls that start, hit, wait, give up, reserve, store, fail or invalidate
\* keep it.
LEMMA PathsInvNext ==
    ASSUME PathsInv, [Next]_cacheVars
    PROVE  PathsInv'
<1>0. /\ Threads \subseteq Callers /\ Tasks \subseteq Callers
      /\ Threads \cap Tasks = {}
      /\ source \in [Keys -> 0..MaxVersion]
  BY CacheAssumption DEF Callers, PathsInv, CallsOK
<1>1. ASSUME NEW c \in Callers, NEW k \in Keys, Start(c, k)
      PROVE  PathsInv'
  BY <1>1, Stages, MoveKeeps DEF Start, tables, Owning
<1>2. ASSUME NEW c \in Callers, ReturnHit(c)
      PROVE  PathsInv'
  BY <1>2, Stages, MoveKeeps DEF ReturnHit, tables, Owning
<1>3. ASSUME NEW t \in Threads, SyncWait(t)
      PROVE  PathsInv'
  BY <1>0, <1>3, Stages, MoveKeeps DEF SyncWait, Miss, Free, tables, Owning
<1>4. ASSUME NEW t \in Tasks, AsyncWait(t)
      PROVE  PathsInv'
  BY <1>0, <1>4, Stages, MoveKeeps
     DEF AsyncWait, HasMissed, Miss, Free, tables, Owning
<1>5. ASSUME NEW t \in Tasks, MissRemotely(t)
      PROVE  PathsInv'
  BY <1>0, <1>5, Stages, MoveKeeps DEF MissRemotely, tables, Owning
<1>6. ASSUME NEW t \in Threads, SyncFinish(t)
      PROVE  PathsInv'
  BY <1>6, SyncUnreserveKeeps DEF SyncFinish, SyncStore, SyncFail, Compute
<1>7. ASSUME NEW t \in Tasks, AsyncFinish(t)
      PROVE  PathsInv'
  <2>1. CASE AsyncStore(t) \/ AsyncFail(t) \/ ReleaseWritten(t)
    <3>1. PICK k \in Keys : /\ AsyncUnreserve(t, k)
                            /\ \/ call[t] = Written(k)
                               \/ \E v \in 0..MaxVersion : call[t] = Computing(k, v)
      BY <2>1 DEF AsyncStore, AsyncFail, ReleaseWritten, Compute
    <3>2. Owns(call, t, k)
      BY <3>1, Stages DEF Owns, Owning
    <3> QED
      BY <3>1, <3>2, AsyncUnreserveKeeps
  <2> QED
    BY <1>7, <2>1, StoreRemotelyKeeps DEF AsyncFinish
<1>8. ASSUME NEW c \in Callers, CancelWait(c)
      PROVE  PathsInv'
  <2>1. Idle \in Calls /\ Idle.at = "idle"
    BY DEF Calls, Idle
  <2> QED
    BY <1>8, <2>1, MoveKeeps DEF CancelWait, tables, Owning
<1>9. ASSUME NEW k \in Keys, Invalidate(k) \/ ChangeSource(k) \/ WriteElsewhere(k)
      PROVE  PathsInv'
  <2>1. CASE Invalidate(k) \/ WriteElsewhere(k)
    BY <1>0, <2>1, QuietKeeps DEF Invalidate, WriteElsewhere, tables
  <2>2. CASE ChangeSource(k)
    BY <1>0, <2>2, CacheAssumption, QuietKeeps DEF ChangeSource, tables
  <2> QED
    BY <1>9, <2>1, <2>2
<1>10. CASE InvalidateAll \/ BeginInvalidateAll \/ Tick \/ UNCHANGED cacheVars
  BY <1>0, <1>10, QuietKeeps
     DEF InvalidateAll, BeginInvalidateAll, Tick, cacheVars, tables
<1>11. CASE DeleteToClear \/ \E last \in BOOLEAN : ScanToClear(last)
  BY <1>0, <1>11, QuietKeeps DEF DeleteToClear, ScanToClear, ClearGoesOn, tables
<1>12. InUse \subseteq Keys
  BY CacheAssumption DEF InUse
<1> QED
  BY <1>0, <1>1, <1>2, <1>3, <1>4, <1>5, <1>6, <1>7, <1>8, <1>9, <1>10, <1>11,
     <1>12, SyncReserveKeeps, AsyncReserveKeeps DEF Next, SyncCheck, AsyncCheck

\* What the invariant says of the owners of a key.
LEMMA PathOwners ==
    ASSUME CallsOK, NEW S \in SUBSET Callers, NEW T \in SUBSET Keys,
           Path(call, S, T)
    PROVE  /\ T = {k \in Keys : Owners(S, k) # {}}
           /\ \A k \in Keys : Cardinality(Owners(S, k)) <= 1
           /\ \A k \in Keys, c \in S : call[c] = Waiting(k) => Owners(S, k) # {}
<1>1. \A k \in Keys : Owners(S, k) = {c \in S : Owns(call, c, k)}
  BY OwnerOwnsKey DEF Owners
<1>2. T = {k \in Keys : Owners(S, k) # {}}
  BY <1>1 DEF Path
<1>3. ASSUME NEW k \in Keys
      PROVE  Cardinality(Owners(S, k)) <= 1
  <2>1. CASE Owners(S, k) = {}
    BY <2>1, FS_EmptySet
  <2>2. CASE Owners(S, k) # {}
    <3>1. PICK c \in S : Owners(S, k) = {c}
      BY <1>1, <2>2 DEF Path
    <3> QED
      BY <3>1, FS_Singleton
  <2> QED
    BY <2>1, <2>2
<1>4. \A k \in Keys, c \in S : call[c] = Waiting(k) => k \in T
  BY WaitingIsWaits DEF Path
<1> QED
  BY <1>2, <1>3, <1>4

\* It implies the three properties the runs check.
LEMMA PathsInvImplies ==
    PathsInv => InflightOwned /\ SingleFlightPerPath /\ SleepersHaveOwner
<1> SUFFICES ASSUME PathsInv
             PROVE  InflightOwned /\ SingleFlightPerPath /\ SleepersHaveOwner
  OBVIOUS
<1>1. Threads \in SUBSET Callers /\ Tasks \in SUBSET Callers
  BY DEF Callers
<1>2. CallsOK /\ inflight \in SUBSET Keys /\ async_inflight \in SUBSET Keys
  BY DEF PathsInv, CallsOK
<1>3. Path(call, Threads, inflight) /\ Path(call, Tasks, async_inflight)
  BY DEF PathsInv
<1> QED
  BY <1>1, <1>2, <1>3, PathOwners
     DEF InflightOwned, SingleFlightPerPath, SleepersHaveOwner

-----------------------------------------------------------------------------
(* The theorems.                                                           *)

\* It always holds (324-411, 415-477).
THEOREM PathsInvariant == Spec => []PathsInv
<1>1. PathsInv /\ [Next]_cacheVars => PathsInv'
  BY PathsInvNext
<1> QED
  BY <1>1, PathsInvInit, PTL DEF Spec

\* The tables list exactly the keys being computed on their path, through
\* any failures, cancelled waits, evictions and invalidations.
THEOREM TablesAlwaysOwned == Spec => []InflightOwned
BY PathsInvariant, PathsInvImplies, PTL

\* At most one caller of a path computes a key, however many ask for it.
THEOREM CallersCoalesce == Spec => []SingleFlightPerPath
BY PathsInvariant, PathsInvImplies, PTL

\* However many callers sleep on the one condition or on a key's event, each
\* has an owner at work that will wake it.
THEOREM SleepersAlwaysHaveOwner == Spec => []SleepersHaveOwner
BY PathsInvariant, PathsInvImplies, PTL

-----------------------------------------------------------------------------
(* clear() on Redis.                                                       *)

Clearings ==
    [at : {"off", "scanning", "deleting"}, unseen : SUBSET Keys,
     page : SUBSET Keys, last : BOOLEAN, fresh : SUBSET Keys]

\* What SCAN has still to return holds all that is old, and what it returns
\* last is all of that.
ClearInv ==
    /\ clearing \in Clearings
    /\ DOMAIN database \subseteq Keys
    /\ clearing.at = "off" => clearing = Redis!Off
    /\ clearing.at # "off" => DOMAIN database \subseteq clearing.unseen \cup clearing.fresh
    /\ clearing.at = "deleting" /\ clearing.last => clearing.unseen \subseteq clearing.page

\* An entry that is written while clear() runs is new.
LEMMA WriteKeepsClear ==
    ASSUME ClearInv, NEW k \in Keys, NEW v, NEW r, Redis!SetEntry(k, v, r)
    PROVE  ClearInv' /\ (clearing # Redis!Off => clearing' # Redis!Off)
BY DEF ClearInv, Clearings, Redis!SetEntry, Redis!Present, Redis!Off

\* Entries that leave the database are no longer to be returned.
LEMMA RemovalKeepsClear ==
    ASSUME ClearInv, NEW left \in SUBSET DOMAIN database, DOMAIN database' = left,
           clearing' = Redis!StillUnseen(left)
    PROVE  ClearInv' /\ (clearing # Redis!Off => clearing' # Redis!Off)
<1>1. CASE clearing.at = "off"
  <2>1. clearing = Redis!Off /\ clearing.unseen \cap left = {}
    BY <1>1 DEF ClearInv, Redis!Off
  <2>2. [Redis!Off EXCEPT !.unseen = {}] = Redis!Off
    BY DEF Redis!Off
  <2>3. clearing' = clearing
    BY <2>1, <2>2 DEF Redis!StillUnseen
  <2> QED
    BY <1>1, <2>1, <2>3 DEF ClearInv
<1>2. CASE clearing.at # "off"
  <2>1. /\ clearing' \in Clearings
        /\ clearing'.unseen = clearing.unseen \cap left
        /\ clearing'.at = clearing.at /\ clearing'.fresh = clearing.fresh
        /\ clearing'.page = clearing.page /\ clearing'.last = clearing.last
    BY DEF ClearInv, Clearings, Redis!StillUnseen
  <2>2. clearing'.at = "deleting" /\ clearing'.last
          => clearing'.unseen \subseteq clearing'.page
    BY <2>1 DEF ClearInv
  <2> QED
    BY <1>2, <2>1, <2>2 DEF ClearInv, Redis!Off
<1> QED
  BY <1>1, <1>2

\* clear() goes on after a page, or ends, with nothing old left.
LEMMA AfterKeepsClear ==
    ASSUME ClearInv, NEW page \in SUBSET Keys, NEW last \in BOOLEAN,
           clearing.at # "off", last => clearing.unseen \subseteq page,
           DOMAIN database' = DOMAIN database \ page,
           clearing' = Redis!After(page, last)
    PROVE  /\ ClearInv'
           /\ clearing' = Redis!Off => DOMAIN database' \subseteq clearing.fresh
<1>1. CASE last
  BY <1>1 DEF ClearInv, Clearings, Redis!After, Redis!Ends, Redis!Off
<1>2. CASE ~last
  <2>1. clearing' = [clearing EXCEPT !.at = "scanning", !.page = {}, !.last = FALSE,
                                     !.unseen = clearing.unseen \ page]
    BY <1>2 DEF Redis!After, Redis!Ends
  <2>2. clearing' \in Clearings /\ clearing'.at = "scanning"
        /\ clearing'.unseen = clearing.unseen \ page
        /\ clearing'.fresh = clearing.fresh
    BY <2>1 DEF ClearInv, Clearings
  <2> QED
    BY <2>2 DEF ClearInv, Redis!Off
<1> QED
  BY <1>1, <1>2

\* SCAN returns a page, and ends only when nothing old is left to return.
LEMMA ScanKeepsClear ==
    ASSUME ClearInv, NEW last \in BOOLEAN, Redis!ScanPage(last)
    PROVE  /\ ClearInv'
           /\ clearing' = Redis!Off => DOMAIN database' \subseteq clearing.fresh
<1>1. PICK page \in SUBSET DOMAIN database :
         /\ last => clearing.unseen \subseteq page
         /\ clearing' = IF page = {} THEN Redis!After(page, last)
                        ELSE [clearing EXCEPT !.at = "deleting",
                                              !.page = page, !.last = last]
  BY DEF Redis!ScanPage, Redis!Present
<1>2. clearing.at = "scanning" /\ database' = database
      /\ page \in SUBSET Keys /\ clearing \in Clearings
  BY <1>1 DEF Redis!ScanPage, ClearInv
<1>3. CASE page = {}
  BY <1>1, <1>2, <1>3, AfterKeepsClear
<1>4. CASE page # {}
  <2>1. /\ clearing' \in Clearings /\ clearing'.at = "deleting"
        /\ clearing'.page = page /\ clearing'.last = last
        /\ clearing'.unseen = clearing.unseen /\ clearing'.fresh = clearing.fresh
    BY <1>1, <1>2, <1>4 DEF Clearings
  <2>2. clearing'.last => clearing'.unseen \subseteq clearing'.page
    BY <1>1, <2>1
  <2> QED
    BY <1>2, <2>1, <2>2 DEF ClearInv, Redis!Off
<1> QED
  BY <1>3, <1>4

\* DEL removes the page.
LEMMA DelKeepsClear ==
    ASSUME ClearInv, Redis!DeletePage
    PROVE  /\ ClearInv'
           /\ clearing' = Redis!Off => DOMAIN database' \subseteq clearing.fresh
<1>1. /\ clearing.at = "deleting"
      /\ DOMAIN database' = DOMAIN database \ clearing.page
      /\ clearing' = Redis!After(clearing.page, clearing.last)
  BY DEF Redis!DeletePage, Redis!Only, Redis!Present
<1>2. /\ clearing.page \in SUBSET Keys /\ clearing.last \in BOOLEAN
      /\ clearing.last => clearing.unseen \subseteq clearing.page
  BY <1>1 DEF ClearInv, Clearings
<1> QED
  BY <1>1, <1>2, AfterKeepsClear

\* It holds at the start, and in every step.
LEMMA ClearInvInit == Init => ClearInv
BY DEF Init, ClearInv, Clearings, Redis!Off

LEMMA ClearInvNext ==
    ASSUME ClearInv, [Next]_cacheVars
    PROVE  /\ ClearInv'
           /\ clearing # Redis!Off /\ clearing' = Redis!Off
                => DOMAIN database' \subseteq clearing.fresh
<1> USE DEF InStore, InDatabase
<1>1. ASSUME UNCHANGED <<database, clearing>>
      PROVE  ClearInv' /\ clearing' = clearing
  BY <1>1 DEF ClearInv
<1>2. ASSUME NEW k \in Keys, NEW v, Keep(k, v)
      PROVE  ClearInv' /\ (clearing # Redis!Off => clearing' # Redis!Off)
  BY <1>1, <1>2, WriteKeepsClear DEF Keep, Redis!Put
<1>3. ASSUME NEW c \in Callers, ReturnHit(c)
      PROVE  UNCHANGED <<database, clearing>>
  BY <1>3 DEF ReturnHit, LookUp
<1>4. ASSUME NEW t \in Threads, SyncReserve(t) \/ SyncWait(t) \/ SyncFail(t)
      PROVE  UNCHANGED <<database, clearing>>
  BY <1>4 DEF SyncReserve, SyncWait, SyncFail, Miss, LookUp, stores
<1>5. ASSUME NEW t \in Tasks, \/ MissRemotely(t) \/ AsyncReserve(t) \/ AsyncWait(t)
                              \/ ReleaseWritten(t) \/ AsyncFail(t)
      PROVE  UNCHANGED <<database, clearing>>
  BY <1>5 DEF MissRemotely, AsyncReserve, AsyncWait, ReleaseWritten, AsyncFail,
              HasMissed, Miss, LookUp, stores
<1>6. ASSUME NEW c \in Callers, SyncStore(c) \/ AsyncStore(c) \/ StoreRemotely(c)
      PROVE  ClearInv' /\ (clearing # Redis!Off => clearing' # Redis!Off)
  BY <1>2, <1>6 DEF SyncStore, AsyncStore, StoreRemotely
<1>7. ASSUME NEW c \in Callers, CancelWait(c) \/ \E k \in Keys : Start(c, k)
      PROVE  UNCHANGED <<database, clearing>>
  BY <1>7 DEF CancelWait, Start, stores
<1>8. ASSUME NEW k \in Keys, Invalidate(k)
      PROVE  ClearInv' /\ (clearing # Redis!Off => clearing' # Redis!Off)
  BY <1>1, <1>8, RemovalKeepsClear
     DEF Invalidate, Redis!Delete, Redis!Only, Redis!Present
<1>9. ASSUME NEW k \in Keys, WriteElsewhere(k)
      PROVE  ClearInv' /\ (clearing # Redis!Off => clearing' # Redis!Off)
  BY <1>9, WriteKeepsClear DEF WriteElsewhere
<1>10. ASSUME NEW k \in Keys, ChangeSource(k)
       PROVE  UNCHANGED <<database, clearing>>
  BY <1>10 DEF ChangeSource, stores
<1>11. CASE Tick
  <2>1. CASE Redis!GrowOlder
    <3> DEFINE alive == {k \in DOMAIN database :
                           Ttl = 0 \/ database[k].age + 1 < Redis!Lifetime}
    <3>1. DOMAIN database' = alive /\ clearing' = Redis!StillUnseen(alive)
      BY <2>1 DEF Redis!GrowOlder, Redis!Present
    <3> QED
      BY <3>1, RemovalKeepsClear
  <2> QED
    BY <1>1, <1>11, <2>1 DEF Tick
<1>12. CASE BeginInvalidateAll
  BY <1>12 DEF BeginInvalidateAll, Redis!BeginClear, Redis!Present, Redis!Off,
               ClearInv, Clearings
<1>13. CASE DeleteToClear \/ \E last \in BOOLEAN : ScanToClear(last)
  BY <1>13, ScanKeepsClear, DelKeepsClear DEF DeleteToClear, ScanToClear
<1>14. CASE InvalidateAll \/ UNCHANGED cacheVars
  BY <1>1, <1>14 DEF InvalidateAll, cacheVars, stores
<1>15. Threads \subseteq Callers /\ Tasks \subseteq Callers /\ InUse \subseteq Keys
  BY CacheAssumption DEF Callers, InUse
<1> QED
  BY <1>1, <1>3, <1>4, <1>5, <1>6, <1>7, <1>8, <1>9, <1>10, <1>11, <1>12, <1>13,
     <1>14, <1>15 DEF Next, SyncCheck, AsyncCheck, SyncFinish, AsyncFinish

\* What clear() leaves in the database was written while it ran, whatever
\* expires, is written or is deleted between its pages (cache_redis.py:220-237).
THEOREM ClearAlwaysForgetsOlder == Spec => ClearForgetsOlder
<1>1. ClearInv /\ [Next]_cacheVars => ClearInv'
  BY ClearInvNext
<1>2. ClearInv /\ [Next]_cacheVars
        => [clearing # Redis!Off /\ clearing' = Redis!Off
              => DOMAIN database' \subseteq clearing.fresh]_cacheVars
  BY ClearInvNext
<1> QED
  BY <1>1, <1>2, ClearInvInit, PTL DEF Spec, ClearForgetsOlder

-----------------------------------------------------------------------------
(* The store of MemoryBackend, next to the values f allows each key.       *)

StoreInv(s, f) ==
    /\ s \in Seq(Entries)
    /\ Len(s) <= MaxSize
    /\ \A i, j \in 1..Len(s) : s[i].key = s[j].key => i = j
    /\ \A i \in 1..Len(s) : s[i].value \in f[s[i].key]

Floors == [Keys -> 0..MaxVersion]
Allowances == [Keys -> SUBSET (0..MaxVersion)]

\* What may be kept under a key: nothing that its last quiet invalidation has
\* overtaken, and nothing that never was.
Recent == [k \in Keys |-> floor[k]..source[k]]

LEMMA Bounds ==
    /\ MaxSize \in Nat \ {0} /\ Ttl \in Nat /\ MaxVersion \in Nat
    /\ Redis!Lifetime \in Nat \ {0}
<1>1. MaxSize \in Nat \ {0} /\ Ttl \in Nat /\ MaxVersion \in Nat /\ Second \in Nat \ {0}
  BY StoreAssumption, CacheAssumption DEF LegalConfig
<1>2. ASSUME ~(Ttl < Second)
      PROVE  (Ttl \div Second) * Second \in Nat \ {0}
  <2>1. Ttl \div Second \in Nat /\ Ttl \div Second >= 1
    BY <1>1, <1>2
  <2> QED
    BY <1>1, <2>1
<1> QED
  BY <1>1, <1>2 DEF Redis!Lifetime

\* A sequence without the element at one position.
LEMMA RemoveAtProperties ==
    ASSUME NEW S, NEW s \in Seq(S), NEW p \in 1..Len(s)
    PROVE  /\ Seqs!RemoveAt(s, p) \in Seq(S)
           /\ Len(Seqs!RemoveAt(s, p)) = Len(s) - 1
           /\ \A i \in 1..(Len(s) - 1) :
                Seqs!RemoveAt(s, p)[i] = IF i < p THEN s[i] ELSE s[i + 1]
<1> DEFINE a == SubSeq(s, 1, p - 1)
           b == SubSeq(s, p + 1, Len(s))
<1>1. a \in Seq(S) /\ Len(a) = p - 1 /\ \A i \in 1..(p - 1) : a[i] = s[i]
  OBVIOUS
<1>2. b \in Seq(S) /\ Len(b) = Len(s) - p /\ \A i \in 1..(Len(s) - p) : b[i] = s[p + i]
  OBVIOUS
<1>3. Seqs!RemoveAt(s, p) = a \o b
  BY DEF Seqs!RemoveAt
<1> HIDE DEF a, b
<1>4. a \o b \in Seq(S) /\ Len(a \o b) = Len(s) - 1
  <2>1. a \o b \in Seq(S) /\ Len(a \o b) = Len(a) + Len(b)
    BY <1>1, <1>2, ConcatProperties
  <2>2. (p - 1) + (Len(s) - p) = Len(s) - 1
    OBVIOUS
  <2> QED
    BY <1>1, <1>2, <2>1, <2>2
<1>5. ASSUME NEW i \in 1..(Len(s) - 1)
      PROVE  (a \o b)[i] = IF i < p THEN s[i] ELSE s[i + 1]
  <2>1. (a \o b)[i] = IF i <= Len(a) THEN a[i] ELSE b[i - Len(a)]
    <3>1. i \in 1..(Len(a) + Len(b))
      BY <1>1, <1>2
    <3> QED
      BY <1>1, <1>2, <3>1, ConcatProperties
  <2>2. CASE i < p
    BY <1>1, <2>1, <2>2
  <2>3. CASE ~(i < p)
    <3>1. i - Len(a) \in 1..(Len(s) - p) /\ p + (i - Len(a)) = i + 1
          /\ ~(i <= Len(a))
      BY <1>1, <2>3
    <3> QED
      BY <1>2, <2>1, <2>3, <3>1
  <2> QED
    BY <2>2, <2>3
<1> QED
  BY <1>3, <1>4, <1>5

\* A sequence without its first element.
LEMMA DropFirstProperties ==
    ASSUME NEW S, NEW s \in Seq(S), Len(s) >= 1
    PROVE  /\ SubSeq(s, 2, Len(s)) \in Seq(S)
           /\ Len(SubSeq(s, 2, Len(s))) = Len(s) - 1
           /\ \A i \in 1..(Len(s) - 1) : SubSeq(s, 2, Len(s))[i] = s[i + 1]
<1> DEFINE n == Len(s)
           t == SubSeq(s, 2, n)
<1>1. n \in Nat /\ n >= 1
  OBVIOUS
<1>2. t = [i \in 1..(n - 1) |-> s[i + 1]]
  BY <1>1
<1>3. \A i \in 1..(n - 1) : s[i + 1] \in S
  BY <1>1
<1> HIDE DEF t, n
<1>4. t \in Seq(S) /\ Len(t) = n - 1
  BY <1>1, <1>2, <1>3
<1> QED
  BY <1>2, <1>4 DEF t, n

\* t has entries of s, perhaps older; each is the one `from` names.
Selects(t, s, from) ==
    /\ t \in Seq(Entries) /\ Len(t) <= Len(s)
    /\ from \in [1..Len(t) -> 1..Len(s)]
    /\ \A i, j \in 1..Len(t) : from[i] = from[j] => i = j
    /\ \A i \in 1..Len(t) : /\ t[i].key = s[from[i]].key
                            /\ t[i].value = s[from[i]].value

LEMMA StoreFromStore ==
    ASSUME NEW f \in Allowances, NEW s, StoreInv(s, f), NEW t, NEW from,
           Selects(t, s, from)
    PROVE  StoreInv(t, f)
<1> USE DEF Selects
<1>1. Len(s) \in Nat /\ Len(t) \in Nat /\ Len(t) <= MaxSize
  BY Bounds DEF StoreInv
<1>2. \A i \in 1..Len(t) : from[i] \in 1..Len(s)
  OBVIOUS
<1>3. \A i, j \in 1..Len(t) : t[i].key = t[j].key => i = j
  <2> SUFFICES ASSUME NEW i \in 1..Len(t), NEW j \in 1..Len(t), t[i].key = t[j].key
               PROVE  i = j
    OBVIOUS
  <2>1. s[from[i]].key = s[from[j]].key
    OBVIOUS
  <2>2. from[i] = from[j]
    BY <1>2, <2>1 DEF StoreInv
  <2> QED
    BY <2>2
<1>4. \A i \in 1..Len(t) : t[i].value \in f[t[i].key]
  BY <1>2 DEF StoreInv
<1> QED
  BY <1>1, <1>3, <1>4 DEF StoreInv

\* Without(k) is a store with nothing under k, smaller if there was an entry.
LEMMA WithoutKey ==
    ASSUME NEW f \in Allowances, StoreInv(store, f), NEW k \in Keys
    PROVE  /\ StoreInv(Without(k), f)
           /\ \A i \in 1..Len(Without(k)) : Without(k)[i].key # k
           /\ k \in Stored => Len(Without(k)) = Len(store) - 1
           /\ k \in Stored => EntryOf(k) \in Entries /\ EntryOf(k).key = k
                              /\ EntryOf(k).value \in f[k]
<1>1. /\ DOMAIN store = 1..Len(store) /\ Len(store) \in Nat /\ store \in Seq(Entries)
      /\ \A i \in 1..Len(store) : store[i] \in Entries
      /\ \A i, j \in 1..Len(store) : store[i].key = store[j].key => i = j
  BY DEF StoreInv
<1>2. CASE k \notin Stored
  <2>1. Without(k) = store /\ \A i \in 1..Len(store) : store[i].key # k
    BY <1>1, <1>2 DEF Without, Stored
  <2> QED
    BY <1>2, <2>1
<1>3. CASE k \in Stored
  <2> DEFINE p == Position(k)
             t == Without(k)
             from == [i \in 1..Len(t) |-> IF i < p THEN i ELSE i + 1]
  <2>1. p \in 1..Len(store) /\ store[p].key = k
    <3>1. PICK i \in DOMAIN store : store[i].key = k
      BY <1>3 DEF Stored
    <3> QED
      BY <1>1, <3>1 DEF Position
  <2>2. t = Seqs!RemoveAt(store, p)
    BY <1>3 DEF Without
  <2>3. EntryOf(k) = store[p]
    BY DEF EntryOf
  <2> HIDE DEF p, t
  <2>4. /\ t \in Seq(Entries) /\ Len(t) = Len(store) - 1
        /\ \A i \in 1..(Len(store) - 1) : t[i] = IF i < p THEN store[i] ELSE store[i + 1]
    BY <1>1, <2>1, <2>2, RemoveAtProperties
  <2>5. /\ from \in [1..Len(t) -> 1..Len(store)]
        /\ \A i, j \in 1..Len(t) : from[i] = from[j] => i = j
        /\ \A i \in 1..Len(t) : t[i] = store[from[i]] /\ from[i] # p
    BY <1>1, <2>1, <2>4
  <2> HIDE DEF from
  <2>6. StoreInv(t, f)
    <3>1. Selects(t, store, from)
      BY <1>1, <2>4, <2>5 DEF Selects
    <3> QED
      BY <3>1, StoreFromStore
  <2>7. \A i \in 1..Len(t) : t[i].key # k
    BY <1>1, <2>1, <2>5
  <2>8. store[p] \in Entries /\ store[p].value \in f[k]
    BY <1>1, <2>1 DEF StoreInv
  <2> QED
    BY <2>1, <2>3, <2>4, <2>6, <2>7, <2>8 DEF t
<1> QED
  BY <1>2, <1>3

\* An entry is added at the end, for a key that has none.
LEMMA StoreAppend ==
    ASSUME NEW f \in Allowances, NEW s, StoreInv(s, f), NEW e \in Entries,
           Len(s) < MaxSize, \A i \in 1..Len(s) : s[i].key # e.key,
           e.value \in f[e.key]
    PROVE  StoreInv(Append(s, e), f)
<1> DEFINE t == Append(s, e)
           n == Len(s)
<1>1. /\ s \in Seq(Entries) /\ n \in Nat
      /\ \A i, j \in 1..n : s[i].key = s[j].key => i = j
      /\ \A i \in 1..n : s[i].value \in f[s[i].key]
  BY DEF StoreInv
<1>2. /\ t \in Seq(Entries) /\ Len(t) = n + 1 /\ t[n + 1] = e
      /\ \A i \in 1..n : t[i] = s[i]
  BY <1>1, AppendProperties
<1>3. n + 1 <= MaxSize
  BY <1>1, Bounds
<1> HIDE DEF t
<1>4. \A i \in 1..(n + 1) : i \in 1..n \/ i = n + 1
  BY <1>1
<1>5. \A i, j \in 1..(n + 1) : t[i].key = t[j].key => i = j
  BY <1>1, <1>2, <1>4
<1>6. \A i \in 1..(n + 1) : t[i].value \in f[t[i].key]
  BY <1>1, <1>2, <1>4
<1> QED
  BY <1>2, <1>3, <1>5, <1>6 DEF StoreInv, t

LEMMA GetKeepsStore ==
    ASSUME NEW f \in Allowances, StoreInv(store, f), NEW k \in Keys, Get(k)
    PROVE  StoreInv(store', f)
<1>1. CASE ~Hit(k)
  BY <1>1, WithoutKey DEF Get
<1>2. CASE Hit(k)
  <2> DEFINE e == EntryOf(k)
             kept == Without(k)
  <2>1. k \in Stored /\ store' = Append(kept, e)
    BY <1>2 DEF Hit, Get, Touched
  <2>2. /\ StoreInv(kept, f) /\ Len(kept) = Len(store) - 1
        /\ \A i \in 1..Len(kept) : kept[i].key # k
        /\ e \in Entries /\ e.key = k /\ e.value \in f[k]
    BY <2>1, WithoutKey
  <2> HIDE DEF e, kept
  <2>3. Len(kept) < MaxSize
    BY <2>2, Bounds DEF StoreInv
  <2>4. StoreInv(Append(kept, e), f)
    BY <2>2, <2>3, StoreAppend
  <2> QED
    BY <2>1, <2>4
<1> QED
  BY <1>1, <1>2

LEMMA PutKeepsStore ==
    ASSUME NEW f \in Allowances, StoreInv(store, f), NEW k \in Keys,
           NEW v \in 0..MaxVersion, v \in f[k], Put(k, v)
    PROVE  StoreInv(store', f)
<1> DEFINE e == [key |-> k, value |-> v, age |-> 0]
           kept == IF k \in Stored THEN Without(k) ELSE RoomForOne
<1>1. store' = Append(kept, e)
  BY DEF Put
<1>2. e \in Entries /\ e.key = k /\ e.value \in f[e.key]
  BY Bounds DEF Entries
<1>3. store \in Seq(Entries) /\ Len(store) \in Nat /\ Len(store) <= MaxSize
  BY DEF StoreInv
<1>4. StoreInv(kept, f) /\ Len(kept) < MaxSize /\ \A i \in 1..Len(kept) : kept[i].key # k
  <2>1. CASE k \in Stored
    <3>1. /\ StoreInv(Without(k), f) /\ Len(Without(k)) = Len(store) - 1
          /\ \A i \in 1..Len(Without(k)) : Without(k)[i].key # k
      BY <2>1, WithoutKey
    <3> QED
      BY <1>3, <2>1, <3>1, Bounds
  <2>2. CASE k \notin Stored
    <3>1. \A i \in 1..Len(store) : store[i].key # k
      BY <1>3, <2>2 DEF Stored
    <3>2. CASE Len(store) < MaxSize
      <4>1. kept = store
        BY <1>3, <2>2, <3>2, Bounds DEF RoomForOne
      <4> QED
        BY <3>1, <3>2, <4>1
    <3>3. CASE Len(store) = MaxSize
      <4> DEFINE t == SubSeq(store, 2, Len(store))
                 from == [i \in 1..Len(t) |-> i + 1]
      <4>1. Len(store) - MaxSize + 2 = 2 /\ Len(store) >= MaxSize /\ Len(store) >= 1
        BY <1>3, <3>3, Bounds
      <4>2. kept = t
        BY <2>2, <4>1 DEF RoomForOne
      <4>3. /\ t \in Seq(Entries) /\ Len(t) = Len(store) - 1
            /\ \A i \in 1..(Len(store) - 1) : t[i] = store[i + 1]
        BY <1>3, <4>1, DropFirstProperties
      <4> HIDE DEF t
      <4>4. /\ from \in [1..Len(t) -> 1..Len(store)]
            /\ \A i, j \in 1..Len(t) : from[i] = from[j] => i = j
            /\ \A i \in 1..Len(t) : t[i] = store[from[i]]
        BY <1>3, <4>3
      <4> HIDE DEF from
      <4>5. StoreInv(t, f)
        <5>1. Selects(t, store, from)
          BY <1>3, <4>3, <4>4 DEF Selects
        <5> QED
          BY <5>1, StoreFromStore
      <4>6. \A i \in 1..Len(t) : t[i].key # k
        BY <3>1, <4>4
      <4>7. Len(t) < MaxSize
        BY <1>3, <3>3, <4>3
      <4> QED
        BY <4>2, <4>5, <4>6, <4>7
    <3> QED
      BY <1>3, <3>2, <3>3, Bounds
  <2> QED
    BY <2>1, <2>2
<1> HIDE DEF e, kept
<1>5. StoreInv(Append(kept, e), f)
  BY <1>2, <1>4, StoreAppend
<1> QED
  BY <1>1, <1>5

\* A deleted key may be allowed other values.
LEMMA DeleteKeepsStore ==
    ASSUME NEW f \in Allowances, StoreInv(store, f), NEW k \in Keys, Delete(k), NEW g,
           \A j \in Keys : j # k => g[j] = f[j]
    PROVE  StoreInv(store', g)
<1>1. store' = Without(k)
  BY DEF Delete
<1>2. StoreInv(store', f) /\ \A i \in 1..Len(store') : store'[i].key # k
  BY <1>1, WithoutKey
<1>3. \A i \in 1..Len(store') : store'[i].key \in Keys
  <2>1. store' \in Seq(Entries)
    BY <1>2 DEF StoreInv
  <2>2. \A i \in 1..Len(store') : store'[i] \in Entries
    BY <2>1
  <2> QED
    BY <2>2 DEF Entries
<1> QED
  BY <1>2, <1>3 DEF StoreInv

LEMMA OlderKeepsStore ==
    ASSUME NEW f \in Allowances, StoreInv(store, f), GrowOlder
    PROVE  StoreInv(store', f)
<1> DEFINE older(entry) == IF entry.age < Ttl THEN [entry EXCEPT !.age = entry.age + 1]
                           ELSE entry
           from == [i \in 1..Len(store') |-> i]
<1>1. \A entry \in Entries : /\ older(entry) \in Entries /\ older(entry).key = entry.key
                             /\ older(entry).value = entry.value
  BY Bounds DEF Entries
<1>2. store' = [i \in 1..Len(store) |-> older(store[i])]
  BY DEF GrowOlder, StoreInv
<1> HIDE DEF older
<1>3. store \in Seq(Entries) /\ Len(store) \in Nat
      /\ \A i \in 1..Len(store) : store[i] \in Entries
  BY DEF StoreInv
<1>4. store' \in Seq(Entries) /\ Len(store') = Len(store)
  BY <1>1, <1>2, <1>3
<1>5. \A i \in 1..Len(store') : /\ store'[i].key = store[from[i]].key
                                /\ store'[i].value = store[from[i]].value
  BY <1>1, <1>2, <1>3, <1>4
<1>6. /\ from \in [1..Len(store') -> 1..Len(store)]
      /\ \A i, j \in 1..Len(store') : from[i] = from[j] => i = j
  BY <1>4
<1> HIDE DEF from
<1>7. Selects(store', store, from)
  BY <1>3, <1>4, <1>5, <1>6 DEF Selects
<1> QED
  BY <1>7, StoreFromStore

LEMMA EmptyStore == ASSUME NEW f PROVE StoreInv(<< >>, f)
BY Bounds, EmptySeq DEF StoreInv

-----------------------------------------------------------------------------
(* What the backend holds, and what invalidation leaves of it.             *)

\* The entries d of the database that are new to the run c of clear(), and all
\* of them while it does not run, have the values f allows.
DatabaseInv(d, c, f) ==
    /\ c.unseen \subseteq DOMAIN d
    /\ \A k \in DOMAIN d :
         /\ d[k] \in RemoteEntries
         /\ c.at = "off" \/ k \in c.fresh => d[k].value \in f[k]

\* Only the backend in use is touched.
BackendInv ==
    /\ backend \in Backends
    /\ backend = "memory" => database = << >> /\ clearing = Redis!Off
    /\ backend = "redis" => store = << >>

\* No floor is above its source, and nobody computes with data that may be
\* older than the floor.
ReadsInv ==
    /\ floor \in Floors
    /\ \A k \in Keys : floor[k] <= source[k]
    /\ \A c \in Callers, k \in Keys, v \in 0..MaxVersion :
         call[c] = Computing(k, v) => v >= floor[k]

DataInv ==
    /\ PathsInv
    /\ BackendInv
    /\ ReadsInv
    /\ StoreInv(store, Recent)
    /\ ClearInv
    /\ DatabaseInv(database, clearing, Recent)

LEMMA DataInvInit == Init => DataInv
<1> SUFFICES ASSUME Init PROVE DataInv
  OBVIOUS
<1>1. floor \in Floors /\ source = floor
  BY CacheAssumption DEF Init, Floors
<1>2. \A c \in Callers, k \in Keys, v \in 0..MaxVersion : call[c] # Computing(k, v)
  BY Stages DEF Init, Idle
<1>3. ReadsInv
  BY <1>1, <1>2 DEF ReadsInv, Floors
<1>4. StoreInv(store, Recent)
  BY EmptyStore DEF Init
<1>5. DatabaseInv(database, clearing, Recent)
  BY DEF Init, DatabaseInv, Redis!Off
<1>6. BackendInv
  BY DEF Init, BackendInv
<1> QED
  BY <1>3, <1>4, <1>5, <1>6, PathsInvInit, ClearInvInit DEF DataInv

-----------------------------------------------------------------------------
(* Who computes, and from when; what is raised, and when.                  *)

\* A key's floor only rises to its source, and only when nobody owns the key.
Settling == /\ \A k \in Keys : \/ floor'[k] = floor[k]
                               \/ floor'[k] = source[k] /\ Owners(Callers, k) = {}
            /\ floor' \in Floors
            /\ UNCHANGED <<call, source>>

\* A source moves on.
Moving == /\ source' \in Floors /\ \A k \in Keys : source[k] <= source'[k]
          /\ UNCHANGED <<call, floor>>

\* Calls go on, and whoever comes to compute starts from the present source.
Calling == /\ \A c \in Callers, k \in Keys, v \in 0..MaxVersion :
                call'[c] = Computing(k, v) => call[c] = Computing(k, v) \/ v = source[k]
           /\ UNCHANGED <<source, floor>>

LEMMA BecomeCalls ==
    ASSUME PathsInv, NEW c \in Callers, NEW s, Become(c, s), UNCHANGED <<source, floor>>,
           \A k \in Keys, v \in 0..MaxVersion : s = Computing(k, v) => v = source[k]
    PROVE  Calling
BY DEF PathsInv, CallsOK, Become, Calling

LEMMA UnreserveCalls ==
    ASSUME NEW c, NEW k, NEW woken, Unreserve(c, k, woken), UNCHANGED <<source, floor>>
    PROVE  Calling
<1>1. \A d \in Callers : call'[d].at \in {"idle", "asking"} \/ call'[d] = call[d]
  BY DEF Unreserve, Idle, Asking
<1> QED
  BY <1>1, Stages DEF Calling

LEMMA StepReads ==
    ASSUME DataInv, [Next]_cacheVars
    PROVE  Calling \/ Settling \/ Moving
<1>0. /\ Threads \subseteq Callers /\ Tasks \subseteq Callers /\ InUse \subseteq Keys
      /\ source \in Floors /\ floor \in Floors
  BY CacheAssumption DEF Callers, InUse, DataInv, ReadsInv, PathsInv, CallsOK, Floors
<1>1. \A k, j \in Keys, v \in 0..MaxVersion :
         /\ Idle # Computing(j, v) /\ Asking(k) # Computing(j, v)
         /\ Waiting(k) # Computing(j, v) /\ Missed(k) # Computing(j, v)
         /\ Written(k) # Computing(j, v)
         /\ Computing(k, source[k]) = Computing(j, v) => v = source[j]
  <2> SUFFICES ASSUME NEW k \in Keys, NEW j \in Keys, NEW v \in 0..MaxVersion
               PROVE  /\ Idle # Computing(j, v) /\ Asking(k) # Computing(j, v)
                      /\ Waiting(k) # Computing(j, v) /\ Missed(k) # Computing(j, v)
                      /\ Written(k) # Computing(j, v)
                      /\ Computing(k, source[k]) = Computing(j, v) => v = source[j]
    OBVIOUS
  <2>1. /\ Computing(j, v).at = "computing"
        /\ Computing(j, v).key = j /\ Computing(j, v).read = v
        /\ Computing(k, source[k]).key = k /\ Computing(k, source[k]).read = source[k]
    BY DEF Computing
  <2>2. /\ Idle.at = "idle" /\ Asking(k).at = "asking" /\ Waiting(k).at = "waiting"
        /\ Missed(k).at = "missed" /\ Written(k).at = "written"
    BY DEF Idle, Asking, Waiting, Missed, Written
  <2> QED
    BY <2>1, <2>2
<1>2. PathsInv
  BY DEF DataInv
<1>3. ASSUME NEW c \in Callers, NEW k \in Keys, Start(c, k)
      PROVE  Calling
  BY <1>1, <1>2, <1>3, BecomeCalls DEF Start
<1>4. ASSUME NEW c \in Callers, ReturnHit(c) \/ CancelWait(c)
      PROVE  Calling
  BY <1>1, <1>2, <1>4, BecomeCalls DEF ReturnHit, CancelWait
<1>5. ASSUME NEW t \in Threads, SyncReserve(t) \/ SyncWait(t)
      PROVE  Calling
  BY <1>0, <1>1, <1>2, <1>5, BecomeCalls DEF SyncReserve, SyncWait
<1>6. ASSUME NEW t \in Tasks, \/ MissRemotely(t) \/ AsyncReserve(t) \/ AsyncWait(t)
                              \/ StoreRemotely(t)
      PROVE  Calling
  BY <1>0, <1>1, <1>2, <1>6, BecomeCalls
     DEF MissRemotely, AsyncReserve, AsyncWait, StoreRemotely
<1>7. ASSUME NEW t \in Threads, SyncFinish(t)
      PROVE  Calling
  BY <1>7, UnreserveCalls DEF SyncFinish, SyncStore, SyncFail, SyncUnreserve
<1>8. ASSUME NEW t \in Tasks, AsyncStore(t) \/ ReleaseWritten(t) \/ AsyncFail(t)
      PROVE  Calling
  BY <1>8, UnreserveCalls DEF AsyncStore, ReleaseWritten, AsyncFail, AsyncUnreserve
<1>9. ASSUME NEW keys, Settled(keys), UNCHANGED <<call, source>>
      PROVE  Settling
  <2>1. floor' \in Floors
    BY <1>0, <1>9 DEF Settled, Floors
  <2> QED
    BY <1>9, <2>1 DEF Settled, Settling
<1>10. ASSUME NEW k \in Keys, Invalidate(k)
       PROVE  Settling
  BY <1>9, <1>10 DEF Invalidate
<1>11. CASE InvalidateAll \/ BeginInvalidateAll
  BY <1>9, <1>11 DEF InvalidateAll, BeginInvalidateAll
<1>12. ASSUME NEW k \in Keys, ChangeSource(k)
       PROVE  Moving
  <2>1. /\ source[k] \in 0..MaxVersion /\ source[k] < MaxVersion
        /\ source' = [source EXCEPT ![k] = source[k] + 1]
    BY <1>0, <1>12 DEF ChangeSource, Floors
  <2>2. source' \in Floors /\ \A j \in Keys : source[j] <= source'[j]
    BY <1>0, <2>1, Bounds DEF Floors
  <2> QED
    BY <1>12, <2>2 DEF ChangeSource, Moving
<1>13. CASE \/ Tick \/ DeleteToClear \/ \E last \in BOOLEAN : ScanToClear(last)
            \/ UNCHANGED cacheVars \/ \E k \in Keys : WriteElsewhere(k)
  <2>1. UNCHANGED <<call, source, floor>>
    BY <1>13 DEF Tick, DeleteToClear, ScanToClear, ClearGoesOn, WriteElsewhere, cacheVars
  <2> QED
    BY <1>0, <2>1 DEF Calling
<1> QED
  BY <1>0, <1>3, <1>4, <1>5, <1>6, <1>7, <1>8, <1>10, <1>11, <1>12, <1>13
     DEF Next, SyncCheck, AsyncCheck, AsyncFinish

LEMMA ReadsKeeps ==
    ASSUME DataInv, [Next]_cacheVars
    PROVE  ReadsInv' /\ \A k \in Keys : floor[k] <= floor'[k]
<1>1. ReadsInv /\ source \in Floors
  BY DEF DataInv, PathsInv, CallsOK, Floors
<1>2. CASE Calling
  <2>1. ASSUME NEW c \in Callers, NEW k \in Keys, NEW v \in 0..MaxVersion,
               call'[c] = Computing(k, v)
        PROVE  v >= floor[k]
    BY <1>1, <1>2, <2>1 DEF Calling, ReadsInv
  <2> QED
    BY <1>1, <1>2, <2>1 DEF Calling, ReadsInv, Floors
<1>3. CASE Settling
  <2>1. ASSUME NEW c \in Callers, NEW k \in Keys, NEW v \in 0..MaxVersion,
               call'[c] = Computing(k, v)
        PROVE  v >= floor'[k]
    <3>1. call[c] = Computing(k, v) /\ c \in Owners(Callers, k)
      BY <1>3, <2>1 DEF Settling, Owners
    <3> QED
      BY <1>1, <1>3, <3>1 DEF Settling, ReadsInv
  <2>2. \A k \in Keys : floor[k] <= floor'[k] /\ floor'[k] <= source'[k]
    BY <1>1, <1>3 DEF Settling, ReadsInv, Floors
  <2> QED
    BY <1>3, <2>1, <2>2 DEF Settling, ReadsInv
<1>4. CASE Moving
  BY <1>1, <1>4 DEF Moving, ReadsInv, Floors
<1> QED
  BY <1>2, <1>3, <1>4, StepReads

-----------------------------------------------------------------------------
(* The store in every step.                                                *)

\* What a caller stores may be kept.
LEMMA ComputedIsRecent ==
    ASSUME DataInv, NEW c \in Callers, NEW k \in Keys, NEW v \in 0..MaxVersion,
           Compute(c, k, v)
    PROVE  v \in Recent[k]
<1>1. PICK since \in 0..MaxVersion : call[c] = Computing(k, since) /\ v \in since..source[k]
  BY DEF Compute, ValuesRead
<1>2. since >= floor[k] /\ floor[k] \in 0..MaxVersion /\ source[k] \in 0..MaxVersion
  BY <1>1 DEF DataInv, ReadsInv, PathsInv, CallsOK, Floors
<1> QED
  BY <1>1, <1>2 DEF Recent

\* What may be kept if nothing is invalidated and the sources move on.
LEMMA RecentGrows ==
    ASSUME DataInv, [Next]_cacheVars, NEW k \in Keys, floor'[k] = floor[k]
    PROVE  Recent[k] \subseteq Recent'[k]
<1>1. source \in Floors /\ source' \in Floors /\ source[k] <= source'[k]
  BY StepReads DEF Calling, Settling, Moving, DataInv, PathsInv, CallsOK, Floors
<1> QED
  BY <1>1 DEF Recent, Floors, DataInv, ReadsInv

LEMMA RecentAllows == DataInv => Recent \in Allowances
BY Bounds DEF DataInv, ReadsInv, PathsInv, CallsOK, Floors, Recent, Allowances

LEMMA RecentMeans ==
    \A k \in Keys : \A v \in Recent[k] : v >= floor[k] /\ v <= source[k]
BY DEF Recent

\* What is allowed may be more.
LEMMA StoreAllowsMore ==
    ASSUME NEW s, NEW f, StoreInv(s, f), NEW g, \A k \in Keys : f[k] \subseteq g[k]
    PROVE  StoreInv(s, g)
<1>1. \A i \in 1..Len(s) : s[i] \in Entries
  BY DEF StoreInv
<1> QED
  BY <1>1 DEF StoreInv, Entries

LEMMA StoreKeeps ==
    ASSUME DataInv, [Next]_cacheVars
    PROVE  StoreInv(store', Recent')
<1> USE DEF InStore, InDatabase
<1>0. /\ Threads \subseteq Callers /\ Tasks \subseteq Callers /\ InUse \subseteq Keys
      /\ StoreInv(store, Recent) /\ Recent \in Allowances
      /\ backend = "redis" => store = << >>
  BY CacheAssumption, RecentAllows DEF Callers, InUse, DataInv, ReadsInv, BackendInv
<1>1. ASSUME StoreInv(store', Recent), UNCHANGED floor
      PROVE  StoreInv(store', Recent')
  <2>1. \A k \in Keys : Recent[k] \subseteq Recent'[k]
    BY <1>1, RecentGrows
  <2> HIDE DEF Recent
  <2> QED
    BY <1>1, <2>1, StoreAllowsMore
<1>2. ASSUME NEW k \in Keys, LookUp(k), UNCHANGED floor
      PROVE  StoreInv(store', Recent')
  <2>1. Get(k) \/ UNCHANGED store
    BY <1>2 DEF LookUp
  <2> QED
    BY <1>0, <1>1, <1>2, <2>1, GetKeepsStore
<1>3. ASSUME NEW c \in Callers, NEW k \in Keys, NEW v \in 0..MaxVersion,
             Compute(c, k, v), Keep(k, v), UNCHANGED floor
      PROVE  StoreInv(store', Recent')
  <2>1. v \in Recent[k]
    BY <1>3, ComputedIsRecent
  <2>2. Put(k, v) \/ UNCHANGED store
    BY <1>3 DEF Keep
  <2> QED
    BY <1>0, <1>1, <1>3, <2>1, <2>2, PutKeepsStore
<1>4. ASSUME NEW c \in Callers, ReturnHit(c)
      PROVE  StoreInv(store', Recent')
  BY <1>2, <1>4 DEF ReturnHit
<1>5. ASSUME NEW t \in Threads, SyncReserve(t) \/ SyncWait(t)
      PROVE  StoreInv(store', Recent')
  BY <1>2, <1>5 DEF SyncReserve, SyncWait, Miss
<1>6. ASSUME NEW t \in Tasks, AsyncReserve(t) \/ AsyncWait(t)
      PROVE  StoreInv(store', Recent')
  <2>1. PICK k \in Keys : HasMissed(t, k)
    BY <1>6 DEF AsyncReserve, AsyncWait
  <2>2. LookUp(k) \/ UNCHANGED store
    BY <2>1 DEF HasMissed, Miss, stores
  <2>3. UNCHANGED floor
    BY <1>6 DEF AsyncReserve, AsyncWait
  <2> QED
    BY <1>0, <1>1, <1>2, <2>2, <2>3
<1>7. ASSUME NEW c \in Callers, SyncStore(c) \/ AsyncStore(c) \/ StoreRemotely(c)
      PROVE  StoreInv(store', Recent')
  BY <1>3, <1>7 DEF SyncStore, AsyncStore, StoreRemotely, SyncUnreserve, AsyncUnreserve
<1>8. ASSUME NEW c \in Callers, \/ MissRemotely(c) \/ SyncFail(c) \/ AsyncFail(c)
                                \/ ReleaseWritten(c) \/ CancelWait(c)
                                \/ \E k \in Keys : Start(c, k)
      PROVE  StoreInv(store', Recent')
  <2>1. UNCHANGED <<store, floor>>
    BY <1>8 DEF MissRemotely, SyncFail, AsyncFail, ReleaseWritten, CancelWait, Start,
                SyncUnreserve, AsyncUnreserve, stores
  <2> QED
    BY <1>0, <1>1, <2>1
<1>9. ASSUME NEW k \in Keys, Invalidate(k)
      PROVE  StoreInv(store', Recent')
  <2>1. \A j \in Keys : j # k => Recent'[j] = Recent[j]
    BY <1>9 DEF Invalidate, Settled, Recent
  <2>2. CASE InStore /\ Delete(k)
    BY <1>0, <2>1, <2>2, DeleteKeepsStore
  <2>3. CASE InDatabase
    BY <1>0, <2>3, EmptyStore
  <2> QED
    BY <1>9, <2>2, <2>3 DEF Invalidate
<1>10. CASE InvalidateAll \/ BeginInvalidateAll
  BY <1>0, <1>10, EmptyStore DEF InvalidateAll, BeginInvalidateAll, Clear
<1>11. CASE Tick
  BY <1>0, <1>1, <1>11, OlderKeepsStore DEF Tick
<1>12. CASE \/ DeleteToClear \/ \E last \in BOOLEAN : ScanToClear(last)
            \/ UNCHANGED cacheVars
            \/ \E k \in Keys : ChangeSource(k) \/ WriteElsewhere(k)
  <2>1. UNCHANGED <<store, floor>>
    BY <1>12 DEF DeleteToClear, ScanToClear, ClearGoesOn, ChangeSource, WriteElsewhere,
                 cacheVars, stores
  <2> QED
    BY <1>0, <1>1, <2>1
<1> QED
  BY <1>0, <1>4, <1>5, <1>6, <1>7, <1>8, <1>9, <1>10, <1>11, <1>12
     DEF Next, SyncCheck, AsyncCheck, SyncFinish, AsyncFinish

\* Only the backend in use is touched.
LEMMA BackendKeeps ==
    ASSUME DataInv, [Next]_cacheVars
    PROVE  BackendInv'
<1> USE DEF InStore, InDatabase
<1>0. BackendInv
  BY DEF DataInv
<1>1. ASSUME \/ InStore
             \/ InDatabase
             \/ UNCHANGED stores
      PROVE  BackendInv'
  BY <1>0, <1>1 DEF BackendInv, stores
<1>2. ASSUME NEW c \in Callers, \/ ReturnHit(c) \/ SyncCheck(c) \/ SyncFinish(c)
                                \/ AsyncCheck(c) \/ AsyncFinish(c) \/ CancelWait(c)
                                \/ \E k \in Keys : Start(c, k)
      PROVE  InStore \/ InDatabase \/ UNCHANGED stores
  BY <1>2 DEF SyncCheck, SyncFinish, AsyncCheck, AsyncFinish, ReturnHit, SyncReserve,
              SyncWait, MissRemotely, AsyncReserve, AsyncWait, SyncStore, AsyncStore,
              StoreRemotely, SyncFail, AsyncFail, ReleaseWritten, CancelWait, Start,
              HasMissed, Miss, LookUp, Keep
<1>3. CASE \/ InvalidateAll \/ BeginInvalidateAll \/ Tick \/ UNCHANGED cacheVars
           \/ DeleteToClear \/ \E last \in BOOLEAN : ScanToClear(last)
           \/ \E k \in Keys : Invalidate(k) \/ ChangeSource(k) \/ WriteElsewhere(k)
  <2>1. InStore \/ InDatabase \/ UNCHANGED stores
    BY <1>3 DEF InvalidateAll, BeginInvalidateAll, Tick, cacheVars, DeleteToClear,
                ScanToClear, ClearGoesOn, Invalidate, ChangeSource, WriteElsewhere
  <2> QED
    BY <1>1, <2>1
<1>4. Threads \subseteq Callers /\ Tasks \subseteq Callers /\ InUse \subseteq Keys
  BY CacheAssumption DEF Callers, InUse
<1> QED
  BY <1>1, <1>2, <1>3, <1>4 DEF Next

-----------------------------------------------------------------------------
(* The database in every step.                                             *)

LEMMA WriteKeepsDatabase ==
    ASSUME NEW f \in Allowances, DatabaseInv(database, clearing, f), ClearInv,
           NEW k \in Keys, NEW v \in 0..MaxVersion, v \in f[k], NEW r \in BOOLEAN,
           Redis!SetEntry(k, v, r)
    PROVE  DatabaseInv(database', clearing', f)
<1> DEFINE e == [value |-> v, readable |-> r, age |-> 0]
<1>1. /\ DOMAIN database' = DOMAIN database \cup {k} /\ database'[k] = e
      /\ \A j \in DOMAIN database : j # k => database'[j] = database[j]
  BY DEF Redis!SetEntry, Redis!Present
<1>2. e \in RemoteEntries /\ e.value \in f[k]
  BY Bounds DEF RemoteEntries
<1> HIDE DEF e
<1>3. /\ clearing'.unseen = clearing.unseen /\ clearing'.at = clearing.at
      /\ clearing'.fresh \subseteq clearing.fresh \cup {k}
  BY DEF Redis!SetEntry, ClearInv, Clearings
<1> QED
  BY <1>1, <1>2, <1>3 DEF DatabaseInv

\* Entries that are left keep their values; those removed may be forgotten.
LEMMA RemovalKeepsDatabase ==
    ASSUME NEW f \in Allowances, DatabaseInv(database, clearing, f), ClearInv,
           NEW left \in SUBSET DOMAIN database, DOMAIN database' = left,
           clearing' = Redis!StillUnseen(left),
           \A k \in left : /\ database'[k] \in RemoteEntries
                           /\ database'[k].value = database[k].value,
           NEW g, \A k \in left : g[k] = f[k]
    PROVE  DatabaseInv(database', clearing', g)
<1>1. /\ clearing'.unseen = clearing.unseen \cap left
      /\ clearing'.at = clearing.at /\ clearing'.fresh = clearing.fresh
  BY DEF Redis!StillUnseen, ClearInv, Clearings
<1> QED
  BY <1>1 DEF DatabaseInv

\* clear() goes on after a page, or leaves only what is new to it.
LEMMA AfterKeepsDatabase ==
    ASSUME NEW f \in Allowances, DatabaseInv(database, clearing, f), ClearInv,
           NEW page \in SUBSET Keys, NEW last \in BOOLEAN, clearing.at # "off",
           last => clearing.unseen \subseteq page,
           DOMAIN database' = DOMAIN database \ page,
           \A k \in DOMAIN database' : database'[k] = database[k],
           clearing' = Redis!After(page, last)
    PROVE  DatabaseInv(database', clearing', f)
<1>1. CASE last
  <2>1. clearing' = Redis!Off /\ clearing'.unseen = {}
    BY <1>1 DEF Redis!After, Redis!Ends, Redis!Off
  <2>2. DOMAIN database' \subseteq clearing.fresh
    BY <1>1 DEF ClearInv
  <2> QED
    BY <2>1, <2>2 DEF DatabaseInv
<1>2. CASE ~last
  <2>1. clearing' = [clearing EXCEPT !.at = "scanning", !.page = {}, !.last = FALSE,
                                     !.unseen = clearing.unseen \ page]
    BY <1>2 DEF Redis!After, Redis!Ends
  <2>2. /\ clearing'.at = "scanning" /\ clearing'.fresh = clearing.fresh
        /\ clearing'.unseen = clearing.unseen \ page
    BY <2>1 DEF ClearInv, Clearings
  <2> QED
    BY <2>2 DEF DatabaseInv
<1> QED
  BY <1>1, <1>2

LEMMA ScanKeepsDatabase ==
    ASSUME NEW f \in Allowances, DatabaseInv(database, clearing, f), ClearInv,
           NEW last \in BOOLEAN, Redis!ScanPage(last)
    PROVE  DatabaseInv(database', clearing', f)
<1>1. PICK page \in SUBSET DOMAIN database :
         /\ last => clearing.unseen \subseteq page
         /\ clearing' = IF page = {} THEN Redis!After(page, last)
                        ELSE [clearing EXCEPT !.at = "deleting",
                                              !.page = page, !.last = last]
  BY Zenon DEF Redis!ScanPage, Redis!Present
<1>2. clearing.at = "scanning" /\ database' = database
      /\ page \in SUBSET Keys /\ clearing \in Clearings
  BY <1>1 DEF Redis!ScanPage, ClearInv
<1>3. CASE page = {}
  BY <1>1, <1>2, <1>3, AfterKeepsDatabase
<1>4. CASE page # {}
  <2>1. /\ clearing'.at = "deleting" /\ clearing'.fresh = clearing.fresh
        /\ clearing'.unseen = clearing.unseen
    BY <1>1, <1>2, <1>4 DEF Clearings
  <2> QED
    BY <1>2, <2>1 DEF DatabaseInv
<1> QED
  BY <1>3, <1>4

LEMMA DelKeepsDatabase ==
    ASSUME NEW f \in Allowances, DatabaseInv(database, clearing, f), ClearInv,
           Redis!DeletePage
    PROVE  DatabaseInv(database', clearing', f)
<1>1. /\ clearing.at = "deleting"
      /\ DOMAIN database' = DOMAIN database \ clearing.page
      /\ \A k \in DOMAIN database' : database'[k] = database[k]
      /\ clearing' = Redis!After(clearing.page, clearing.last)
  BY DEF Redis!DeletePage, Redis!Only, Redis!Present
<1>2. /\ clearing.page \in SUBSET Keys /\ clearing.last \in BOOLEAN
      /\ clearing.last => clearing.unseen \subseteq clearing.page
  BY <1>1 DEF ClearInv, Clearings
<1> QED
  BY <1>1, <1>2, AfterKeepsDatabase

\* Time passes on the server.
LEMMA OlderKeepsDatabase ==
    ASSUME NEW f \in Allowances, DatabaseInv(database, clearing, f), ClearInv,
           Redis!GrowOlder
    PROVE  DatabaseInv(database', clearing', f)
<1> DEFINE left == {k \in DOMAIN database :
                      Ttl = 0 \/ database[k].age + 1 < Redis!Lifetime}
<1>1. /\ DOMAIN database' = left /\ clearing' = Redis!StillUnseen(left)
      /\ \A k \in left : database'[k] = IF Ttl = 0 THEN database[k]
                           ELSE [database[k] EXCEPT !.age = database[k].age + 1]
  BY DEF Redis!GrowOlder, Redis!Present
<1>2. ASSUME NEW k \in left
      PROVE  /\ database'[k] \in RemoteEntries
             /\ database'[k].value = database[k].value
  <2>1. /\ database[k] \in RemoteEntries
        /\ Ttl = 0 \/ database[k].age + 1 < Redis!Lifetime
    BY DEF DatabaseInv
  <2>2. CASE Ttl = 0
    BY <1>1, <2>1, <2>2
  <2>3. CASE Ttl # 0
    <3> DEFINE entry == database[k]
               life == Redis!Lifetime
    <3>1. /\ entry.age + 1 < life /\ life \in Nat
          /\ database'[k] = [entry EXCEPT !.age = entry.age + 1]
      BY <1>1, <2>1, <2>3, Bounds
    <3>2. entry \in [value : 0..MaxVersion, readable : BOOLEAN, age : 0..(life - 1)]
      BY <2>1 DEF RemoteEntries
    <3> HIDE DEF entry, life
    <3>3. entry.age + 1 \in 0..(life - 1)
      BY <3>1, <3>2
    <3>4. /\ database'[k].value = entry.value
          /\ database'[k] \in [value : 0..MaxVersion, readable : BOOLEAN,
                              age : 0..(life - 1)]
      BY <3>1, <3>2, <3>3
    <3> QED
      BY <3>4 DEF entry, life, RemoteEntries
  <2> QED
    BY <2>2, <2>3
<1> HIDE DEF left
<1>3. left \in SUBSET DOMAIN database
  BY DEF left
<1> QED
  BY <1>1, <1>2, <1>3, RemovalKeepsDatabase

LEMMA DatabaseKeeps ==
    ASSUME DataInv, [Next]_cacheVars
    PROVE  DatabaseInv(database', clearing', Recent')
<1> USE DEF InStore, InDatabase
<1>0. /\ Threads \subseteq Callers /\ Tasks \subseteq Callers /\ InUse \subseteq Keys
      /\ DatabaseInv(database, clearing, Recent) /\ ClearInv /\ Recent \in Allowances
      /\ source \in Floors /\ \A k \in Keys : source[k] \in Recent[k]
      /\ backend = "memory" => database = << >> /\ clearing = Redis!Off
  BY CacheAssumption, RecentAllows
     DEF Callers, InUse, DataInv, ReadsInv, BackendInv, PathsInv, CallsOK, Floors, Recent
<1>1. ASSUME DatabaseInv(database', clearing', Recent), UNCHANGED floor
      PROVE  DatabaseInv(database', clearing', Recent')
  <2>1. \A k \in Keys : Recent[k] \subseteq Recent'[k]
    BY <1>1, RecentGrows
  <2>2. DOMAIN database' \subseteq Keys
    BY ClearInvNext DEF DataInv, ClearInv
  <2> QED
    BY <1>1, <2>1, <2>2 DEF DatabaseInv
<1>2. ASSUME InStore
      PROVE  DatabaseInv(database', clearing', Recent')
  BY <1>0, <1>2 DEF DatabaseInv, Redis!Off
<1>3. ASSUME NEW c \in Callers, \/ ReturnHit(c) \/ SyncReserve(c) \/ SyncWait(c)
                                \/ MissRemotely(c) \/ AsyncReserve(c) \/ AsyncWait(c)
                                \/ SyncFail(c) \/ AsyncFail(c) \/ ReleaseWritten(c)
                                \/ CancelWait(c) \/ \E k \in Keys : Start(c, k)
      PROVE  UNCHANGED <<database, clearing, floor>>
  BY <1>3 DEF ReturnHit, SyncReserve, SyncWait, MissRemotely, AsyncReserve, AsyncWait,
              SyncFail, AsyncFail, ReleaseWritten, CancelWait, Start, SyncUnreserve,
              AsyncUnreserve, HasMissed, Miss, LookUp, stores
<1>4. ASSUME NEW c \in Callers, SyncStore(c) \/ AsyncStore(c) \/ StoreRemotely(c)
      PROVE  DatabaseInv(database', clearing', Recent')
  <2>1. PICK k \in Keys, v \in 0..MaxVersion :
          Compute(c, k, v) /\ Keep(k, v) /\ UNCHANGED floor
    BY <1>4 DEF SyncStore, AsyncStore, StoreRemotely, SyncUnreserve, AsyncUnreserve
  <2>2. v \in Recent[k]
    BY <2>1, ComputedIsRecent
  <2>3. InStore \/ Redis!SetEntry(k, v, TRUE)
    BY <2>1 DEF Keep, Redis!Put
  <2> QED
    BY <1>0, <1>1, <1>2, <2>1, <2>2, <2>3, WriteKeepsDatabase
<1>5. ASSUME NEW k \in Keys, Invalidate(k)
      PROVE  DatabaseInv(database', clearing', Recent')
  <2>1. CASE InDatabase /\ Redis!Delete(k)
    <3> DEFINE left == DOMAIN database \ {k}
    <3>1. /\ DOMAIN database' = left /\ clearing' = Redis!StillUnseen(left)
          /\ \A j \in left : database'[j] = database[j]
      BY <2>1 DEF Redis!Delete, Redis!Only, Redis!Present
    <3>2. \A j \in left : database[j] \in RemoteEntries
      BY <1>0 DEF DatabaseInv
    <3>3. \A j \in left : Recent'[j] = Recent[j]
      BY <1>0, <1>5 DEF Invalidate, Settled, ClearInv, Recent
    <3> QED
      BY <1>0, <3>1, <3>2, <3>3, RemovalKeepsDatabase
  <2> QED
    BY <1>2, <1>5, <2>1 DEF Invalidate
<1>6. ASSUME NEW k \in Keys, WriteElsewhere(k)
      PROVE  DatabaseInv(database', clearing', Recent')
  <2>1. PICK r \in BOOLEAN : Redis!SetEntry(k, source[k], r)
    BY <1>6 DEF WriteElsewhere
  <2>2. source[k] \in 0..MaxVersion /\ UNCHANGED floor
    BY <1>0, <1>6 DEF WriteElsewhere, Floors
  <2> QED
    BY <1>0, <1>1, <2>1, <2>2, WriteKeepsDatabase
<1>7. CASE Tick
  BY <1>0, <1>1, <1>2, <1>7, OlderKeepsDatabase DEF Tick
<1>8. CASE BeginInvalidateAll
  <2>1. /\ database' = database /\ clearing'.unseen = DOMAIN database
        /\ clearing'.at = "scanning" /\ clearing'.fresh = {}
    BY <1>8 DEF BeginInvalidateAll, Redis!BeginClear, Redis!Present, Redis!Off
  <2> QED
    BY <1>0, <2>1 DEF DatabaseInv
<1>9. CASE DeleteToClear \/ \E last \in BOOLEAN : ScanToClear(last)
  BY <1>0, <1>1, <1>9, ScanKeepsDatabase, DelKeepsDatabase
     DEF DeleteToClear, ScanToClear, ClearGoesOn
<1>10. CASE UNCHANGED cacheVars \/ \E k \in Keys : ChangeSource(k)
  <2>1. UNCHANGED <<database, clearing, floor>>
    BY <1>10 DEF ChangeSource, cacheVars, stores
  <2> QED
    BY <1>0, <1>1, <2>1
<1>11. CASE InvalidateAll
  BY <1>2, <1>11 DEF InvalidateAll
<1> QED
  BY <1>0, <1>1, <1>3, <1>4, <1>5, <1>6, <1>7, <1>8, <1>9, <1>10, <1>11
     DEF Next, SyncCheck, AsyncCheck, SyncFinish, AsyncFinish

-----------------------------------------------------------------------------
(* The theorems.                                                           *)

\* It always holds (cache.py 189-236, 324-477; cache_redis.py 190-237).
THEOREM DataInvariant == Spec => []DataInv
<1>1. DataInv /\ [Next]_cacheVars => DataInv'
  <2> SUFFICES ASSUME DataInv, [Next]_cacheVars PROVE DataInv'
    OBVIOUS
  <2>1. PathsInv /\ ClearInv
    BY DEF DataInv
  <2>2. PathsInv' /\ ClearInv'
    BY <2>1, PathsInvNext, ClearInvNext
  <2> QED
    BY <2>2, ReadsKeeps, StoreKeeps, BackendKeeps, DatabaseKeeps DEF DataInv
<1> QED
  BY <1>1, DataInvInit, PTL DEF Spec

\* Every variable has its type, the store never exceeds max_size nor holds two
\* entries of a key, and only the backend in use is touched.
THEOREM TypeCorrect == Spec => []TypeOK
<1>1. DataInv => TypeOK
  <2> SUFFICES ASSUME DataInv PROVE TypeOK
    OBVIOUS
  <2>1. /\ store \in Seq(Entries) /\ Len(store) <= MaxSize
        /\ \A i, j \in DOMAIN store : store[i].key = store[j].key => i = j
    BY DEF DataInv, StoreInv
  <2>2. /\ DOMAIN database \subseteq Keys /\ clearing.unseen \subseteq DOMAIN database
        /\ \A k \in DOMAIN database : database[k] \in RemoteEntries
    BY DEF DataInv, DatabaseInv, ClearInv
  <2>3. /\ backend \in Backends
        /\ backend = "memory" => database = << >> /\ clearing = Redis!Off
        /\ backend = "redis" => store = << >>
    BY DEF DataInv, BackendInv
  <2>4. /\ inflight \subseteq Keys /\ async_inflight \subseteq Keys
        /\ call \in [Callers -> Calls]
        /\ source \in [Keys -> 0..MaxVersion] /\ floor \in [Keys -> 0..MaxVersion]
    BY DEF DataInv, PathsInv, CallsOK, ReadsInv, Floors
  <2> QED
    BY <2>1, <2>2, <2>3, <2>4 DEF TypeOK
<1> QED
  BY <1>1, DataInvariant, PTL

\* What was invalidated while nobody computed it does not come back, on either
\* backend, and on Redis not while clear() runs page by page either.
THEOREM InvalidatedAlwaysGone == Spec => []InvalidatedStaysGone
<1>1. DataInv => InvalidatedStaysGone
  <2> SUFFICES ASSUME DataInv PROVE InvalidatedStaysGone
    OBVIOUS
  <2>1. \A i \in DOMAIN store : store[i].value >= floor[store[i].key]
    <3>1. /\ DOMAIN store = 1..Len(store) /\ \A i \in 1..Len(store) : store[i] \in Entries
          /\ \A i \in 1..Len(store) : store[i].value \in Recent[store[i].key]
      BY DEF DataInv, StoreInv
    <3>2. \A i \in 1..Len(store) : store[i].key \in Keys
      BY <3>1 DEF Entries
    <3> QED
      BY <3>1, <3>2, RecentMeans
  <2>2. LockFree => \A k \in DOMAIN database : database[k].value >= floor[k]
    BY RecentMeans DEF DataInv, DatabaseInv, LockFree, ClearInv
  <2>3. \A c \in Callers, k \in Keys, v \in 0..MaxVersion :
          call[c] = Computing(k, v) => v >= floor[k]
    BY DEF DataInv, ReadsInv
  <2> QED
    BY <2>1, <2>2, <2>3 DEF InvalidatedStaysGone
<1> QED
  BY <1>1, DataInvariant, PTL

-----------------------------------------------------------------------------
(* What callers are answered: the steps of the cache next to the record.   *)

\* What a call owes to the data it was made over.
CallInv(c) ==
    /\ call[c] # Idle => least[c] <= settled[call[c].key]
    /\ call[c].at = "written" => result[c] \in least[c]..source[call[c].key]
    /\ call[c].at \notin {"idle", "written"} => result[c] = NoAnswer

\* While clear() runs, the database may still hold what it has yet to reach,
\* but nothing older than what was settled before.
AnswersInv ==
    /\ DataInv
    /\ settled \in Floors
    /\ least \in [Callers -> 0..MaxVersion]
    /\ \A k \in Keys : settled[k] <= floor[k]
    /\ LockFree => settled = floor
    /\ \A k \in DOMAIN database : database[k].value \in settled[k]..source[k]
    /\ \A c \in Callers : CallInv(c)

LEMMA AnswersInvInit == AnswersInit => AnswersInv
<1> SUFFICES ASSUME AnswersInit PROVE AnswersInv
  OBVIOUS
<1>1. DataInv
  BY DataInvInit DEF AnswersInit
<1>2. settled = floor /\ floor \in Floors /\ MaxVersion \in Nat
  BY <1>1, Bounds DEF AnswersInit, DataInv, ReadsInv
<1>3. \A c \in Callers : call[c] = Idle /\ Idle.at = "idle"
  BY DEF AnswersInit, Init, Idle
<1>4. DOMAIN database = {}
  BY DEF AnswersInit, Init
<1> QED
  BY <1>1, <1>2, <1>3, <1>4 DEF AnswersInv, AnswersInit, CallInv, Floors

\* What every step does to calls, sources, floors and the lock.
Passes(d) == \/ call'[d] = call[d]
             \/ \E k \in Keys : call[d] = Waiting(k) /\ call'[d] = Asking(k)

Asks(c) == \E k \in Keys : call[c] = Idle /\ call'[c] = Asking(k)

LooksOn(c) ==
    \E k \in Keys : /\ call[c] \in {Asking(k), Missed(k)}
                    /\ call'[c] \in {Missed(k), Waiting(k)}

Reserves(c) ==
    \E k \in Keys, v \in 0..MaxVersion :
        /\ call[c] \in {Asking(k), Missed(k)}
        /\ call'[c] = Computing(k, v)
        /\ c \in Threads => k \notin inflight
        /\ c \in Tasks => k \notin async_inflight

Leaves(c) ==
    \E k \in Keys : /\ call[c] \in {Asking(k), Missed(k), Waiting(k)}
                    /\ call'[c] = Idle

Computes(c) ==
    \E k \in Keys, v \in 0..MaxVersion :
        /\ call[c] = Computing(k, v)
        /\ \/ call'[c] = Idle
           \/ call'[c] = Written(k) /\ StoreRemotely(c)

Returns(c) == \E k \in Keys : call[c] = Written(k) /\ call'[c] = Idle

Turn(c) ==
    /\ \A d \in Callers : d # c => Passes(d)
    /\ UNCHANGED <<source, floor>> /\ clearing'.at = clearing.at
    /\ Asks(c) \/ LooksOn(c) \/ Reserves(c) \/ Leaves(c) \/ Computes(c) \/ Returns(c)

Invalidates == /\ LockFree /\ UNCHANGED <<call, source>>
               /\ \E keys \in SUBSET Keys : Settled(keys)

Changes == \E k \in Keys : ChangeSource(k)

GoesOn == UNCHANGED <<call, source, floor>>

LEMMA BecomePasses ==
    ASSUME DataInv, NEW c \in Callers, NEW s, Become(c, s)
    PROVE  call'[c] = s /\ \A d \in Callers : d # c => Passes(d)
BY DEF Become, Passes, DataInv, PathsInv, CallsOK

LEMMA UnreservePasses ==
    ASSUME DataInv, NEW c \in Callers, NEW k \in Keys,
           \/ c \in Threads /\ SyncUnreserve(c, k)
           \/ c \in Tasks /\ AsyncUnreserve(c, k)
    PROVE  /\ call'[c] = Idle /\ UNCHANGED <<source, floor>>
           /\ \A d \in Callers : d # c => Passes(d)
<1>1. PICK woken : /\ woken \in {SyncWoken, AsyncWoken(k)}
                   /\ Unreserve(c, k, woken)
                   /\ UNCHANGED <<source, floor>>
  BY DEF SyncUnreserve, AsyncUnreserve
<1>2. ASSUME NEW d \in woken
      PROVE  \E j \in Keys : call[d] = Waiting(j) /\ Asking(call[d].key) = Asking(j)
  BY <1>1, <1>2, Stages DEF SyncWoken, AsyncWoken
<1> QED
  BY <1>1, <1>2 DEF Unreserve, Passes

\* A lookup leaves the run of clear() alone, and so does what is stored.
LEMMA BackendTurns ==
    ASSUME DataInv, NEW k \in Keys, NEW v \in 0..MaxVersion,
           LookUp(k) \/ Keep(k, v) \/ UNCHANGED stores
    PROVE  clearing'.at = clearing.at
BY DEF LookUp, Keep, InStore, InDatabase, stores, Redis!Put, Redis!SetEntry,
       DataInv, ClearInv, Clearings

LEMMA StepTurns ==
    ASSUME DataInv, [Next]_cacheVars
    PROVE  (\E c \in Callers : Turn(c)) \/ Invalidates \/ Changes \/ GoesOn
<1>0. /\ Threads \subseteq Callers /\ Tasks \subseteq Callers /\ InUse \subseteq Keys
      /\ 0 \in 0..MaxVersion /\ source \in Floors /\ Threads \cap Tasks = {}
      /\ \A c \in Callers : call[c] \in Calls
  BY CacheAssumption, Bounds DEF Callers, InUse, DataInv, PathsInv, CallsOK, Floors
<1>1. ASSUME NEW c \in Callers, NEW k \in Keys, Start(c, k)
      PROVE  Turn(c)
  BY <1>0, <1>1, BecomePasses, BackendTurns DEF Start, Turn, Asks
<1>2. ASSUME NEW c \in Callers, ReturnHit(c)
      PROVE  Turn(c)
  BY <1>0, <1>2, BecomePasses, BackendTurns DEF ReturnHit, Turn, Leaves
<1>3. ASSUME NEW t \in Threads, SyncReserve(t)
      PROVE  Turn(t)
  <2>1. PICK k \in Keys : /\ call[t] = Asking(k) /\ LookUp(k) /\ k \notin inflight
                          /\ Become(t, Computing(k, source[k]))
                          /\ UNCHANGED <<source, floor>>
    BY <1>3 DEF SyncReserve, Miss, Free
  <2>2. source[k] \in 0..MaxVersion /\ t \notin Tasks
    BY <1>0 DEF Floors
  <2>3. Reserves(t)
    BY <1>0, <2>1, <2>2, BecomePasses DEF Reserves
  <2> QED
    BY <1>0, <2>1, <2>3, BecomePasses, BackendTurns DEF Turn
<1>4. ASSUME NEW t \in Threads, SyncWait(t)
      PROVE  Turn(t)
  BY <1>0, <1>4, BecomePasses, BackendTurns DEF SyncWait, Miss, Turn, LooksOn
<1>5. ASSUME NEW t \in Tasks, MissRemotely(t)
      PROVE  Turn(t)
  BY <1>0, <1>5, BecomePasses, BackendTurns DEF MissRemotely, Turn, LooksOn
<1>6. ASSUME NEW t \in Tasks, AsyncReserve(t)
      PROVE  Turn(t)
  <2>1. PICK k \in Keys : /\ call[t] \in {Asking(k), Missed(k)}
                          /\ LookUp(k) \/ UNCHANGED stores
                          /\ k \notin async_inflight
                          /\ Become(t, Computing(k, source[k]))
                          /\ UNCHANGED <<source, floor>>
    BY <1>6 DEF AsyncReserve, HasMissed, Miss, Free
  <2>2. source[k] \in 0..MaxVersion /\ t \notin Threads
    BY <1>0 DEF Floors
  <2>3. Reserves(t)
    BY <1>0, <2>1, <2>2, BecomePasses DEF Reserves
  <2> QED
    BY <1>0, <2>1, <2>3, BecomePasses, BackendTurns DEF Turn
<1>7. ASSUME NEW t \in Tasks, AsyncWait(t)
      PROVE  Turn(t)
  BY <1>0, <1>7, BecomePasses, BackendTurns DEF AsyncWait, HasMissed, Miss, Turn, LooksOn
<1>8. ASSUME NEW t \in Threads, SyncFinish(t)
      PROVE  Turn(t)
  <2>1. PICK k \in Keys, v \in 0..MaxVersion, w \in 0..MaxVersion :
           call[t] = Computing(k, v) /\ SyncUnreserve(t, k)
             /\ (Keep(k, w) \/ UNCHANGED stores)
    BY <1>0, <1>8 DEF SyncFinish, SyncStore, SyncFail, Compute
  <2>2. Computes(t)
    <3>1. call'[t] = Idle
      BY <1>0, <2>1, UnreservePasses
    <3> QED
      BY <2>1, <3>1 DEF Computes
  <2> QED
    BY <1>0, <2>1, <2>2, UnreservePasses, BackendTurns DEF Turn
<1>9. ASSUME NEW t \in Tasks, AsyncStore(t) \/ AsyncFail(t)
      PROVE  Turn(t)
  <2>1. PICK k \in Keys, v \in 0..MaxVersion, w \in 0..MaxVersion :
           call[t] = Computing(k, v) /\ AsyncUnreserve(t, k)
             /\ (Keep(k, w) \/ UNCHANGED stores)
    BY <1>0, <1>9 DEF AsyncStore, AsyncFail, Compute
  <2>2. Computes(t)
    <3>1. call'[t] = Idle
      BY <1>0, <2>1, UnreservePasses
    <3> QED
      BY <2>1, <3>1 DEF Computes
  <2> QED
    BY <1>0, <2>1, <2>2, UnreservePasses, BackendTurns DEF Turn
<1>10. ASSUME NEW t \in Tasks, StoreRemotely(t)
       PROVE  Turn(t)
  <2>1. PICK k \in Keys, v \in 0..MaxVersion, w \in 0..MaxVersion :
           call[t] = Computing(k, v) /\ Become(t, Written(k)) /\ Keep(k, w)
             /\ UNCHANGED <<source, floor>>
    BY <1>10 DEF StoreRemotely, Compute
  <2>2. Computes(t)
    BY <1>0, <1>10, <2>1, BecomePasses DEF Computes
  <2> QED
    BY <1>0, <2>1, <2>2, BecomePasses, BackendTurns DEF Turn
<1>11. ASSUME NEW t \in Tasks, ReleaseWritten(t)
       PROVE  Turn(t)
  BY <1>0, <1>11, UnreservePasses, BackendTurns DEF ReleaseWritten, Turn, Returns
<1>12. ASSUME NEW c \in Callers, CancelWait(c)
       PROVE  Turn(c)
  <2>1. \E k \in Keys : call[c] \in {Asking(k), Missed(k), Waiting(k)}
    <3>1. call[c].at \in {"waiting", "asking", "missed"} /\ call[c] \in Calls
      BY <1>0, <1>12 DEF CancelWait
    <3>2. \/ call[c] = Idle
          \/ \E k \in Keys : call[c] \in {Asking(k), Missed(k), Waiting(k), Written(k)}
          \/ \E k \in Keys, v \in 0..MaxVersion : call[c] = Computing(k, v)
      BY <3>1 DEF Calls
    <3>3. call[c] # Idle
      BY <3>1 DEF Idle
    <3>4. ASSUME NEW k \in Keys
          PROVE  call[c] # Written(k) /\ \A v \in 0..MaxVersion : call[c] # Computing(k, v)
      BY <3>1, Stages
    <3> QED
      BY <3>2, <3>3, <3>4
  <2>2. Become(c, Idle) /\ UNCHANGED <<stores, source, floor>>
    BY <1>12 DEF CancelWait
  <2>3. Leaves(c)
    BY <2>1, <2>2, BecomePasses DEF Leaves
  <2> QED
    BY <1>0, <2>2, <2>3, BecomePasses DEF Turn, stores
<1>13. ASSUME NEW k \in Keys, Invalidate(k)
       PROVE  Invalidates
  BY <1>13 DEF Invalidate, Invalidates
<1>14. CASE InvalidateAll \/ BeginInvalidateAll
  <2>1. LockFree
    BY <1>14 DEF InvalidateAll, BeginInvalidateAll, InStore, LockFree, Redis!BeginClear,
                 Redis!Off, DataInv, BackendInv
  <2>2. UNCHANGED <<call, source>> /\ Settled(Keys)
    BY <1>14 DEF InvalidateAll, BeginInvalidateAll
  <2> QED
    BY <2>1, <2>2 DEF Invalidates
<1>15. CASE \/ Tick \/ DeleteToClear \/ \E last \in BOOLEAN : ScanToClear(last)
            \/ UNCHANGED cacheVars \/ \E k \in Keys : WriteElsewhere(k)
  BY <1>15 DEF GoesOn, Tick, DeleteToClear, ScanToClear, ClearGoesOn, WriteElsewhere,
               cacheVars
<1> QED
  BY <1>0, <1>1, <1>2, <1>3, <1>4, <1>5, <1>6, <1>7, <1>8, <1>9, <1>10, <1>11, <1>12,
     <1>13, <1>14, <1>15 DEF Next, SyncCheck, AsyncCheck, AsyncFinish, Changes

-----------------------------------------------------------------------------
(* What is found, stored and recorded.                                     *)

\* What is settled rises with the floors, at once or when clear() is over.
LEMMA RecordSettles ==
    ASSUME AnswersInv, [Next]_cacheVars, Record
    PROVE  /\ settled' \in Floors
           /\ \A k \in Keys : settled[k] <= settled'[k] /\ settled'[k] <= floor'[k]
           /\ LockFree' => settled' = floor'
           /\ UNCHANGED floor /\ clearing'.at = clearing.at => settled' = settled
<1>1. /\ floor \in Floors /\ floor' \in Floors /\ settled \in Floors
      /\ \A k \in Keys : settled[k] <= floor[k] /\ floor[k] <= floor'[k]
      /\ LockFree => settled = floor
  BY ReadsKeeps DEF AnswersInv, DataInv, ReadsInv
<1>2. settled' = IF LockFree' THEN floor' ELSE settled
  BY DEF Record
<1>3. \A k \in Keys : /\ floor[k] \in Int /\ floor'[k] \in Int /\ settled[k] \in Int
  BY <1>1 DEF Floors
<1> QED
  BY <1>1, <1>2, <1>3 DEF LockFree

\* An entry of the database was there before with this value, or has one that
\* may be kept.
LEMMA DatabaseMoves ==
    ASSUME DataInv, [Next]_cacheVars, NEW k \in DOMAIN database'
    PROVE  \/ k \in DOMAIN database /\ database'[k].value = database[k].value
           \/ database'[k].value \in Recent[k]
<1> USE DEF InStore, InDatabase
<1> DEFINE Moved == \/ k \in DOMAIN database /\ database'[k].value = database[k].value
                    \/ database'[k].value \in Recent[k]
<1>0. /\ Threads \subseteq Callers /\ Tasks \subseteq Callers /\ InUse \subseteq Keys
      /\ \A j \in DOMAIN database : database[j] \in RemoteEntries
  BY CacheAssumption DEF Callers, InUse, DataInv, DatabaseInv
<1>a. \A j \in Keys : source[j] \in Recent[j]
  BY DEF DataInv, ReadsInv, PathsInv, CallsOK, Floors, Recent
<1> HIDE DEF Recent
<1>1. ASSUME UNCHANGED database
      PROVE  Moved
  BY <1>1
<1>2. ASSUME NEW j \in Keys, NEW v \in Recent[j], NEW r, Redis!SetEntry(j, v, r)
      PROVE  Moved
  BY <1>2 DEF Redis!SetEntry, Redis!Present
<1>3. ASSUME NEW c \in Callers, \/ ReturnHit(c) \/ SyncReserve(c) \/ SyncWait(c)
                                \/ MissRemotely(c) \/ AsyncReserve(c) \/ AsyncWait(c)
                                \/ SyncFail(c) \/ AsyncFail(c) \/ ReleaseWritten(c)
                                \/ CancelWait(c) \/ \E j \in Keys : Start(c, j)
      PROVE  UNCHANGED database
  BY <1>3 DEF ReturnHit, SyncReserve, SyncWait, MissRemotely, AsyncReserve, AsyncWait,
              SyncFail, AsyncFail, ReleaseWritten, CancelWait, Start, SyncUnreserve,
              AsyncUnreserve, HasMissed, Miss, LookUp, stores
<1>4. ASSUME NEW c \in Callers, SyncStore(c) \/ AsyncStore(c) \/ StoreRemotely(c)
      PROVE  Moved
  <2>1. PICK j \in Keys, v \in 0..MaxVersion : Compute(c, j, v) /\ Keep(j, v)
    BY <1>4 DEF SyncStore, AsyncStore, StoreRemotely
  <2>2. v \in Recent[j]
    BY <2>1, ComputedIsRecent
  <2> QED
    BY <1>1, <1>2, <2>1, <2>2 DEF Keep, Redis!Put
<1>5. ASSUME NEW j \in Keys, Invalidate(j)
      PROVE  Moved
  BY <1>1, <1>5 DEF Invalidate, Redis!Delete, Redis!Only, Redis!Present
<1>6. ASSUME NEW j \in Keys, WriteElsewhere(j)
      PROVE  Moved
  BY <1>a, <1>2, <1>6 DEF WriteElsewhere
<1>7. CASE Tick
  <2>1. CASE Redis!GrowOlder
    <3> DEFINE alive == {j \in DOMAIN database :
                           Ttl = 0 \/ database[j].age + 1 < Redis!Lifetime}
    <3>1. database' = [j \in alive |-> IF Ttl = 0 THEN database[j]
                         ELSE [database[j] EXCEPT !.age = database[j].age + 1]]
      BY <2>1 DEF Redis!GrowOlder, Redis!Present
    <3>2. k \in alive /\ database[k] \in RemoteEntries
      BY <1>0, <3>1
    <3>3. database'[k].value = database[k].value
      BY <3>1, <3>2 DEF RemoteEntries
    <3> QED
      BY <3>2, <3>3
  <2> QED
    BY <1>1, <1>7, <2>1 DEF Tick
<1>8. CASE DeleteToClear
  BY <1>8 DEF DeleteToClear, Redis!DeletePage, Redis!Only, Redis!Present
<1>9. CASE \/ InvalidateAll \/ BeginInvalidateAll \/ UNCHANGED cacheVars
           \/ \E last \in BOOLEAN : ScanToClear(last)
           \/ \E j \in Keys : ChangeSource(j)
  <2>1. UNCHANGED database
    BY <1>9 DEF InvalidateAll, BeginInvalidateAll, Redis!BeginClear, ScanToClear,
                Redis!ScanPage, ChangeSource, cacheVars, stores
  <2> QED
    BY <1>1, <2>1
<1> QED
  BY <1>0, <1>1, <1>3, <1>4, <1>5, <1>6, <1>7, <1>8, <1>9
     DEF Next, SyncCheck, AsyncCheck, SyncFinish, AsyncFinish

\* So the database holds nothing older than what is settled.
LEMMA DatabaseAnswers ==
    ASSUME AnswersInv, [Next]_cacheVars, Record, DataInv', NEW k \in DOMAIN database'
    PROVE  database'[k].value \in settled'[k]..source'[k]
<1>1. /\ k \in Keys /\ source[k] \in Int /\ source'[k] \in Int /\ source[k] <= source'[k]
  <2>1. k \in Keys /\ source \in Floors /\ source' \in Floors /\ source[k] <= source'[k]
    BY StepReads
       DEF AnswersInv, DataInv, ClearInv, PathsInv, CallsOK, Calling, Settling, Moving, Floors
  <2> QED
    BY <2>1 DEF Floors
<1>2. CASE LockFree'
  <2>1. settled' = floor'
    BY <1>2, RecordSettles
  <2>2. database'[k].value \in Recent'[k]
    BY <1>2 DEF DataInv, DatabaseInv, LockFree
  <2> QED
    BY <1>1, <2>1, <2>2 DEF Recent
<1>3. CASE ~LockFree'
  <2>1. /\ settled'[k] = settled[k] /\ settled[k] <= floor[k]
        /\ settled[k] \in Int /\ floor[k] \in Int
    BY <1>1, <1>3 DEF Record, AnswersInv, DataInv, ReadsInv, Floors
  <2>2. \/ database'[k].value \in settled[k]..source[k]
        \/ database'[k].value \in floor[k]..source[k]
    BY <1>1, DatabaseMoves DEF AnswersInv, Recent
  <2> QED
    BY <1>1, <2>1, <2>2
<1> QED
  BY <1>2, <1>3

\* What a look-up that hits returns is no older than what is settled.
LEMMA FoundIsSettled ==
    ASSUME AnswersInv, NEW k \in Keys, Found(k)
    PROVE  ValueFound(k) \in settled[k]..source[k]
<1>1. CASE backend = "memory"
  <2>1. settled = floor
    BY <1>1 DEF AnswersInv, DataInv, BackendInv, LockFree, Redis!Off
  <2>2. k \in Stored
    BY <1>1 DEF Found, Hit
  <2>3. EntryOf(k).value \in Recent[k]
    BY <2>2, RecentAllows, WithoutKey DEF AnswersInv, DataInv
  <2> QED
    BY <1>1, <2>1, <2>3 DEF ValueFound, Recent
<1>2. CASE backend # "memory"
  BY <1>2 DEF Found, Redis!Answers, Redis!Present, ValueFound, AnswersInv
<1> QED
  BY <1>1, <1>2

\* What is recorded of a value that was worked out may be kept.
LEMMA ComputedValue ==
    ASSUME DataInv, NEW c \in Callers, NEW k \in Keys, NEW since \in 0..MaxVersion,
           call[c] = Computing(k, since), Computed(c)
    PROVE  ValueComputed(c) \in Recent[k]
<1> DEFINE Is(v) == \E j \in Keys : Compute(c, j, v) /\ Keep(j, v)
<1>1. \E v \in 0..MaxVersion : Is(v)
  BY DEF Computed, SyncStore, AsyncStore, StoreRemotely
<1>2. ValueComputed(c) = CHOOSE v \in 0..MaxVersion : Is(v)
  BY DEF ValueComputed
<1> HIDE DEF Is
<1>3. ValueComputed(c) \in 0..MaxVersion /\ Is(ValueComputed(c))
  BY <1>1, <1>2
<1>4. PICK j \in Keys : Compute(c, j, ValueComputed(c))
  BY <1>3 DEF Is
<1>5. j = k
  <2>1. PICK v \in 0..MaxVersion : call[c] = Computing(j, v)
    BY <1>4 DEF Compute
  <2>2. Computing(j, v).key = j /\ Computing(k, since).key = k
    BY Stages
  <2> QED
    BY <2>1, <2>2
<1> QED
  BY <1>3, <1>4, <1>5, ComputedIsRecent

\* A caller that the step is not about: nothing is recorded for it.
LEMMA PassesBy ==
    ASSUME AnswersInv, Record, NEW d \in Callers, Passes(d)
    PROVE  /\ least'[d] = least[d] /\ result'[d] = result[d]
           /\ RequestOf(d)' = RequestOf(d) /\ AnswerOf(d)' = AnswerOf(d)
           /\ call'[d] = Idle <=> call[d] = Idle
           /\ call[d] # Idle => call'[d].key = call[d].key
           /\ \/ call'[d].at = call[d].at
              \/ call[d].at = "waiting" /\ call'[d].at = "asking"
<1>1. \/ call'[d] = call[d]
      \/ \E k \in Keys : /\ call[d] = Waiting(k) /\ call'[d] = Asking(k)
                         /\ call[d] # Idle /\ call'[d] # Idle
                         /\ call[d].at = "waiting" /\ call'[d].at = "asking"
                         /\ call[d].key = k /\ call'[d].key = k
  BY Stages DEF Passes
<1>2. ~Begins(d)
  BY <1>1 DEF Begins
<1>3. ~ReturnHit(d)
  <2> SUFFICES ASSUME ReturnHit(d) PROVE FALSE
    OBVIOUS
  <2>1. PICK k \in Keys : call[d] = Asking(k) /\ call'[d] = Idle
    BY BecomePasses DEF ReturnHit, AnswersInv
  <2> QED
    BY <1>1, <2>1, Stages
<1>4. ~Computed(d)
  <2> SUFFICES ASSUME Computed(d) PROVE FALSE
    OBVIOUS
  <2>1. PICK k \in Keys, v \in 0..MaxVersion :
          /\ call[d] = Computing(k, v)
          /\ \/ call'[d] = Idle
             \/ call'[d] = Written(k)
    BY BecomePasses DEF Computed, SyncStore, AsyncStore, StoreRemotely, Compute,
          SyncUnreserve, AsyncUnreserve, Unreserve, AnswersInv
  <2> QED
    BY <1>1, <2>1, Stages
<1>5. least'[d] = least[d] /\ result'[d] = result[d]
  BY <1>2, <1>3, <1>4 DEF Record
<1>6. CASE call'[d] = call[d]
  BY <1>5, <1>6 DEF RequestOf, AnswerOf, OwnsKey
<1>7. CASE call'[d] # call[d]
  <2>1. PICK k \in Keys : /\ call[d] # Idle /\ call'[d] # Idle
                          /\ call[d].at = "waiting" /\ call'[d].at = "asking"
                          /\ call[d].key = k /\ call'[d].key = k
    BY <1>1, <1>7
  <2>2. RequestOf(d)' = RequestOf(d)
    BY <1>5, <2>1 DEF RequestOf, OwnsKey
  <2>3. AnswerOf(d)' = AnswerOf(d)
    BY <1>5, <2>1 DEF AnswerOf
  <2> QED
    BY <1>5, <2>1, <2>2, <2>3
<1> QED
  BY <1>6, <1>7

\* The callers that a turn is not about, and the clients they stand for.
LEMMA OthersKeep ==
    ASSUME AnswersInv, [Next]_cacheVars, Record, NEW c \in Callers, Turn(c)
    PROVE  /\ UNCHANGED <<source, floor, settled>>
           /\ \A d \in Callers : d # c => CallInv(d)'
           /\ Requests' = [Requests EXCEPT ![c] = RequestOf(c)']
           /\ Answers' = [Answers EXCEPT ![c] = AnswerOf(c)']
<1>1. UNCHANGED <<source, floor, settled>>
  BY RecordSettles DEF Turn
<1>2. ASSUME NEW d \in Callers, d # c
      PROVE  /\ CallInv(d)'
             /\ RequestOf(d)' = RequestOf(d) /\ AnswerOf(d)' = AnswerOf(d)
  <2>1. CallInv(d) /\ Passes(d)
    BY <1>2 DEF AnswersInv, Turn
  <2>2. CASE call[d] = Idle
    <3>1. call'[d] = Idle /\ Idle.at = "idle"
      BY <2>1, <2>2, PassesBy DEF Idle
    <3> QED
      BY <2>1, <3>1, PassesBy DEF CallInv
  <2>3. CASE call[d] # Idle
    <3>1. /\ call'[d].key = call[d].key /\ least'[d] = least[d] /\ result'[d] = result[d]
          /\ \/ call'[d].at = call[d].at
             \/ call[d].at = "waiting" /\ call'[d].at = "asking"
      BY <2>1, <2>3, PassesBy
    <3> QED
      BY <1>1, <2>1, <2>3, <3>1, PassesBy DEF CallInv
  <2> QED
    BY <2>2, <2>3
<1> QED
  BY <1>1, <1>2 DEF Requests, Answers

\* What a turn comes to for the client: it asks, nothing is to be seen, it
\* works, or its request is answered or fails.
AsksFor(c, k) ==
    /\ RequestOf(c) = NoRequest
    /\ RequestOf(c)' = [working |-> FALSE, key |-> k, least |-> settled[k]]
    /\ AnswerOf(c)' = NoAnswer
Unseen(c) == RequestOf(c)' = RequestOf(c) /\ AnswerOf(c)' = AnswerOf(c)
WorksOn(c, k) ==
    /\ RequestOf(c) = [working |-> FALSE, key |-> k, least |-> least[c]]
    /\ RequestOf(c)' = [working |-> TRUE, key |-> k, least |-> least[c]]
    /\ AnswerOf(c)' = AnswerOf(c)
    /\ c \in Threads => k \notin inflight
    /\ c \in Tasks => k \notin async_inflight
IsOver(c, k) ==
    /\ RequestOf(c) = [working |-> OwnsKey(c), key |-> k, least |-> least[c]]
    /\ RequestOf(c)' = NoRequest
    /\ \/ AnswerOf(c)' \in least[c]..source[k]
       \/ AnswerOf(c)' = AnswerOf(c)

LEMMA TurnOutcome ==
    ASSUME AnswersInv, [Next]_cacheVars, Record, NEW c \in Callers, Turn(c)
    PROVE  /\ CallInv(c)'
           /\ least'[c] \in 0..MaxVersion
           /\ \/ Unseen(c)
              \/ \E k \in Keys : AsksFor(c, k) \/ WorksOn(c, k) \/ IsOver(c, k)
<1>0. /\ UNCHANGED <<source, floor, settled>> /\ CallInv(c) /\ DataInv
      /\ settled \in Floors /\ least[c] \in 0..MaxVersion
      /\ \A k \in Keys : /\ settled[k] \in Int /\ source[k] \in Int /\ floor[k] \in Int
                         /\ settled[k] <= floor[k]
  BY OthersKeep DEF AnswersInv, Floors, DataInv, ReadsInv, PathsInv, CallsOK
<1>1. /\ least'[c] = IF Begins(c) THEN settled[call'[c].key] ELSE least[c]
      /\ result'[c] = IF Begins(c) THEN NoAnswer
                      ELSE IF ReturnHit(c) THEN ValueFound(call[c].key)
                      ELSE IF Computed(c) THEN ValueComputed(c)
                      ELSE result[c]
  BY DEF Record
<1>2. Begins(c) <=> call[c] = Idle /\ call'[c] # Idle
  BY DEF Begins
<1>3. ReturnHit(c) => \E k \in Keys : call[c] = Asking(k) /\ call'[c] = Idle /\ Found(k)
  BY <1>0, BecomePasses DEF ReturnHit
<1>4. Computed(c) => \E k \in Keys, v \in 0..MaxVersion : call[c] = Computing(k, v)
  BY DEF Computed, SyncStore, AsyncStore, StoreRemotely, Compute
<1>5. Idle.at = "idle"
  BY DEF Idle
<1>6. CASE Asks(c)
  <2>1. PICK k \in Keys : call[c] = Idle /\ call'[c] = Asking(k)
    BY <1>6 DEF Asks
  <2>2. call'[c] # Idle /\ call'[c].key = k /\ call'[c].at = "asking"
    BY <1>5, <2>1, Stages
  <2>3. least'[c] = settled[k] /\ result'[c] = NoAnswer
    BY <1>1, <1>2, <2>1, <2>2
  <2>4. AsksFor(c, k)
    <3>1. OwnsKey(c)' = FALSE
      BY <2>2 DEF OwnsKey
    <3> QED
      BY <2>1, <2>2, <2>3, <3>1 DEF AsksFor, RequestOf, AnswerOf
  <2>5. CallInv(c)'
    BY <1>0, <2>2, <2>3 DEF CallInv
  <2> QED
    BY <1>0, <2>3, <2>4, <2>5 DEF Floors
<1>7. ASSUME ~ReturnHit(c), ~Computed(c), call[c] # Idle
      PROVE  least'[c] = least[c] /\ result'[c] = result[c]
  BY <1>1, <1>2, <1>7
<1>8. CASE LooksOn(c)
  <2>1. PICK k \in Keys : /\ call[c] \in {Asking(k), Missed(k)}
                          /\ call'[c] \in {Missed(k), Waiting(k)}
    BY <1>8 DEF LooksOn
  <2>2. /\ call[c] # Idle /\ call[c].key = k /\ call[c].at \in {"asking", "missed"}
        /\ call'[c] # Idle /\ call'[c].key = k /\ call'[c].at \in {"missed", "waiting"}
    BY <1>5, <2>1, Stages
  <2>3. ~ReturnHit(c) /\ ~Computed(c)
    BY <1>3, <1>4, <2>2, Stages
  <2>4. least'[c] = least[c] /\ result'[c] = result[c]
    BY <1>7, <2>2, <2>3
  <2>5. Unseen(c)
    BY <2>2, <2>4 DEF Unseen, RequestOf, AnswerOf, OwnsKey
  <2>6. CallInv(c)'
    BY <1>0, <2>2, <2>4 DEF CallInv
  <2> QED
    BY <1>0, <2>4, <2>5, <2>6
<1>9. CASE Reserves(c)
  <2>1. PICK k \in Keys, v \in 0..MaxVersion :
          /\ call[c] \in {Asking(k), Missed(k)} /\ call'[c] = Computing(k, v)
          /\ c \in Threads => k \notin inflight
          /\ c \in Tasks => k \notin async_inflight
    BY <1>9 DEF Reserves
  <2>2. /\ call[c] # Idle /\ call[c].key = k /\ call[c].at \in {"asking", "missed"}
        /\ call'[c] # Idle /\ call'[c].key = k /\ call'[c].at = "computing"
    BY <1>5, <2>1, Stages
  <2>3. ~ReturnHit(c) /\ ~Computed(c)
    BY <1>3, <1>4, <2>2, Stages
  <2>4. least'[c] = least[c] /\ result'[c] = result[c]
    BY <1>7, <2>2, <2>3
  <2>5. WorksOn(c, k)
    <3>1. OwnsKey(c) = FALSE /\ OwnsKey(c)' = TRUE
      BY <2>2 DEF OwnsKey
    <3> QED
      BY <2>1, <2>2, <2>4, <3>1 DEF WorksOn, RequestOf, AnswerOf
  <2>6. CallInv(c)'
    BY <1>0, <2>2, <2>4 DEF CallInv
  <2> QED
    BY <1>0, <2>4, <2>5, <2>6
<1>10. CASE Leaves(c)
  <2>1. PICK k \in Keys : /\ call[c] \in {Asking(k), Missed(k), Waiting(k)}
                          /\ call'[c] = Idle
    BY <1>10 DEF Leaves
  <2>2. /\ call[c] # Idle /\ call[c].key = k
        /\ call[c].at \in {"asking", "missed", "waiting"}
    BY <1>5, <2>1, Stages
  <2>3. ~Computed(c)
    BY <1>4, <2>2, Stages
  <2>4. least'[c] = least[c] /\ least[c] <= settled[k] /\ least[c] \in Int
    BY <1>0, <1>1, <1>2, <2>2 DEF CallInv
  <2>5. \/ result'[c] = result[c]
        \/ result'[c] \in settled[k]..source[k]
    BY <1>1, <1>2, <1>3, <2>2, <2>3, FoundIsSettled, Stages
  <2>6. \/ AnswerOf(c)' = AnswerOf(c)
        \/ AnswerOf(c)' \in least[c]..source[k]
    BY <1>0, <1>5, <2>1, <2>2, <2>4, <2>5 DEF AnswerOf
  <2>7. IsOver(c, k)
    BY <2>1, <2>2, <2>6 DEF IsOver, RequestOf
  <2>8. CallInv(c)'
    BY <1>5, <2>1 DEF CallInv
  <2> QED
    BY <1>0, <2>4, <2>7, <2>8
<1>11. CASE Computes(c)
  <2>1. PICK k \in Keys, v \in 0..MaxVersion :
          /\ call[c] = Computing(k, v)
          /\ \/ call'[c] = Idle
             \/ call'[c] = Written(k) /\ StoreRemotely(c)
    BY <1>11 DEF Computes
  <2>2. call[c] # Idle /\ call[c].key = k /\ call[c].at = "computing"
    BY <1>5, <2>1, Stages
  <2>3. ~ReturnHit(c)
    BY <1>3, <2>2, Stages
  <2>4. /\ least'[c] = least[c] /\ least[c] <= settled[k] /\ least[c] \in Int
        /\ result[c] = NoAnswer
    BY <1>0, <1>1, <1>2, <2>2 DEF CallInv
  <2>5. \/ ~Computed(c) /\ result'[c] = result[c]
        \/ result'[c] \in least[c]..source[k]
    <3>1. Computed(c) => ValueComputed(c) \in floor[k]..source[k]
      BY <1>0, <2>1, ComputedValue DEF Recent
    <3> QED
      BY <1>0, <1>1, <1>2, <2>2, <2>3, <2>4, <3>1
  <2>6. CASE call'[c] = Idle
    <3>1. \/ AnswerOf(c)' = AnswerOf(c)
          \/ AnswerOf(c)' \in least[c]..source[k]
      BY <1>5, <2>2, <2>5, <2>6 DEF AnswerOf
    <3>2. IsOver(c, k)
      BY <2>2, <2>6, <3>1 DEF IsOver, RequestOf
    <3> QED
      BY <1>0, <1>5, <2>4, <2>6, <3>2 DEF CallInv
  <2>7. CASE call'[c] = Written(k) /\ StoreRemotely(c)
    <3>1. call'[c] # Idle /\ call'[c].key = k /\ call'[c].at = "written"
      BY <1>5, <2>7, Stages
    <3>2. Unseen(c)
      BY <2>2, <2>4, <3>1 DEF Unseen, RequestOf, AnswerOf, OwnsKey
    <3>3. result'[c] \in least[c]..source[k]
      BY <2>5, <2>7 DEF Computed
    <3>4. CallInv(c)'
      BY <1>0, <2>4, <3>1, <3>3 DEF CallInv
    <3> QED
      BY <1>0, <2>4, <3>2, <3>4
  <2> QED
    BY <2>1, <2>6, <2>7
<1>12. CASE Returns(c)
  <2>1. PICK k \in Keys : call[c] = Written(k) /\ call'[c] = Idle
    BY <1>12 DEF Returns
  <2>2. call[c] # Idle /\ call[c].key = k /\ call[c].at = "written"
    BY <1>5, <2>1, Stages
  <2>3. ~ReturnHit(c) /\ ~Computed(c)
    BY <1>3, <1>4, <2>2, Stages
  <2>4. least'[c] = least[c] /\ result'[c] = result[c]
    BY <1>7, <2>2, <2>3
  <2>5. AnswerOf(c)' \in least[c]..source[k]
    BY <1>0, <1>5, <2>1, <2>2, <2>4 DEF AnswerOf, CallInv
  <2>6. IsOver(c, k)
    BY <2>1, <2>2, <2>5 DEF IsOver, RequestOf
  <2> QED
    BY <1>0, <1>5, <2>1, <2>4, <2>6 DEF CallInv
<1> QED
  BY <1>6, <1>8, <1>9, <1>10, <1>11, <1>12 DEF Turn

\* Invalidations, changes of the data and the pages of clear().
LEMMA NoTurnKeeps ==
    ASSUME AnswersInv, [Next]_cacheVars, Record, UNCHANGED call
    PROVE  /\ least' = least
           /\ \A c \in Callers : CallInv(c)'
           /\ UNCHANGED <<Requests, Answers>>
<1>1. \A k \in Keys : /\ settled[k] <= settled'[k] /\ settled[k] \in Int
                      /\ settled'[k] \in Int
  BY RecordSettles DEF AnswersInv, Floors
<1>2. ASSUME NEW c \in Callers
      PROVE  /\ CallInv(c)' /\ least'[c] = least[c]
             /\ RequestOf(c)' = RequestOf(c) /\ AnswerOf(c)' = AnswerOf(c)
  <2>1. CallInv(c) /\ Passes(c) /\ call[c] \in Calls /\ least[c] \in Int
    BY DEF AnswersInv, Passes, DataInv, PathsInv, CallsOK
  <2>2. /\ least'[c] = least[c] /\ result'[c] = result[c]
        /\ RequestOf(c)' = RequestOf(c) /\ AnswerOf(c)' = AnswerOf(c)
    BY <2>1, PassesBy
  <2>3. call[c] # Idle => call[c].key \in Keys
    BY <2>1, Stages DEF Calls
  <2>4. \A k \in Keys : source[k] \in Int /\ source'[k] \in Int /\ source[k] <= source'[k]
    <3>1. /\ source \in Floors /\ source' \in Floors
          /\ \A k \in Keys : source[k] <= source'[k]
      BY StepReads
         DEF AnswersInv, DataInv, PathsInv, CallsOK, Calling, Settling, Moving, Floors
    <3> QED
      BY <3>1 DEF Floors
  <2>5. call[c].at = "written" => call[c] # Idle
    BY DEF Idle
  <2>6. CallInv(c)'
    BY <1>1, <2>1, <2>2, <2>3, <2>4, <2>5 DEF CallInv
  <2> QED
    BY <2>2, <2>6
<1>3. least' = [c \in Callers |-> least'[c]] /\ least = [c \in Callers |-> least[c]]
  BY DEF Record, AnswersInv
<1> QED
  BY <1>2, <1>3 DEF Requests, Answers

\* The record and the cache keep the invariant.
LEMMA AnswersInvNext ==
    ASSUME AnswersInv, [Next]_cacheVars, Record
    PROVE  AnswersInv'
<1>1. DataInv'
  BY PathsInvNext, ClearInvNext, ReadsKeeps, StoreKeeps, BackendKeeps, DatabaseKeeps
     DEF AnswersInv, DataInv
<1>2. (\E c \in Callers : Turn(c)) \/ UNCHANGED call
  BY StepTurns DEF AnswersInv, Invalidates, Changes, ChangeSource, GoesOn
<1>3. least' \in [Callers -> 0..MaxVersion] /\ \A c \in Callers : CallInv(c)'
  <2>1. CASE UNCHANGED call
    BY <2>1, NoTurnKeeps DEF AnswersInv
  <2>2. ASSUME NEW c \in Callers, Turn(c)
        PROVE  /\ least' \in [Callers -> 0..MaxVersion]
               /\ \A d \in Callers : CallInv(d)'
    <3>1. \A d \in Callers : CallInv(d)'
      BY <2>2, TurnOutcome, OthersKeep
    <3>2. \A d \in Callers : least'[d] \in 0..MaxVersion
      BY <2>2, TurnOutcome, PassesBy DEF Turn, AnswersInv
    <3>3. least' = [d \in Callers |-> least'[d]]
      BY DEF Record
    <3> QED
      BY <3>1, <3>2, <3>3
  <2> QED
    BY <1>2, <2>1, <2>2
<1>4. \A k \in DOMAIN database' : database'[k].value \in settled'[k]..source'[k]
  BY <1>1, DatabaseAnswers
<1> QED
  BY <1>1, <1>3, <1>4, RecordSettles DEF AnswersInv

-----------------------------------------------------------------------------
(* The promise.                                                            *)

\* A request is no NoRequest.
LEMMA RequestsDiffer ==
    ASSUME NEW w, NEW k, NEW v
    PROVE  [working |-> w, key |-> k, least |-> v] # Promise!NoRequest
<1>1. DOMAIN Promise!NoRequest = {"working"}
  BY DEF Promise!NoRequest
<1>2. "key" \in DOMAIN [working |-> w, key |-> k, least |-> v]
  OBVIOUS
<1> QED
  BY <1>1, <1>2

\* The clients of the promise are the callers, and who works owns a key.
LEMMA ClientsAreCallers ==
    /\ Promise!Clients = Callers
    /\ Promise!NoRequest = NoRequest /\ Promise!NoAnswer = NoAnswer
    /\ \A c \in Callers : Requests[c] = RequestOf(c) /\ Answers[c] = AnswerOf(c)
BY DEF Promise!Clients, Callers, Promise!NoRequest, NoRequest, Promise!NoAnswer, NoAnswer,
       Requests, Answers

LEMMA WorkersOwn ==
    ASSUME NEW c \in Callers, NEW k \in Keys
    PROVE  Promise!Working(c, k) <=> Owns(call, c, k)
<1>1. CASE call[c] = Idle
  <2>1. RequestOf(c) = Promise!NoRequest /\ ~Owns(call, c, k)
    BY <1>1, ClientsAreCallers DEF RequestOf, Owns, Owning, Idle
  <2> QED
    BY <2>1, ClientsAreCallers DEF Promise!Working, Promise!Requesting
<1>2. CASE call[c] # Idle
  <2>1. RequestOf(c) = [working |-> OwnsKey(c), key |-> call[c].key, least |-> least[c]]
    BY <1>2 DEF RequestOf
  <2>2. RequestOf(c) # Promise!NoRequest
    BY <2>1, RequestsDiffer
  <2>3. Promise!Working(c, k) <=> OwnsKey(c) /\ call[c].key = k
    BY <2>1, <2>2, ClientsAreCallers DEF Promise!Working, Promise!Requesting
  <2> QED
    BY <2>3 DEF OwnsKey, Owns, Owning
<1> QED
  BY <1>1, <1>2

LEMMA PromiseInit == AnswersInit => Promise!Init
<1> SUFFICES ASSUME AnswersInit PROVE Promise!Init
  OBVIOUS
<1>1. /\ source = [k \in Keys |-> 0] /\ floor = source /\ settled = source
      /\ result = [c \in Callers |-> NoAnswer]
      /\ \A c \in Callers : call[c] = Idle /\ Idle.at = "idle"
  BY DEF AnswersInit, Init, Idle
<1>2. /\ Requests = [c \in Callers |-> NoRequest]
      /\ Answers = [c \in Callers |-> NoAnswer]
  BY <1>1 DEF Requests, Answers, RequestOf, AnswerOf
<1> QED
  BY <1>1, <1>2, ClientsAreCallers DEF Promise!Init

\* A turn is a step of the client's, or none.
LEMMA TurnKeepsPromise ==
    ASSUME AnswersInv, [Next]_cacheVars, Record, NEW c \in Callers, Turn(c)
    PROVE  [Promise!Next]_(Promise!promiseVars)
<1>1. /\ UNCHANGED <<source, floor, settled>>
      /\ Requests' = [Requests EXCEPT ![c] = RequestOf(c)']
      /\ Answers' = [Answers EXCEPT ![c] = AnswerOf(c)']
  BY OthersKeep
<1>2. /\ Promise!Clients = Callers
      /\ Requests[c] = RequestOf(c) /\ Answers[c] = AnswerOf(c)
      /\ Requests = [d \in Callers |-> Requests[d]]
      /\ Answers = [d \in Callers |-> Answers[d]]
  BY ClientsAreCallers DEF Requests, Answers
<1>3. CASE Unseen(c)
  <2>1. Requests' = Requests /\ Answers' = Answers
    BY <1>1, <1>2, <1>3 DEF Unseen
  <2> QED
    BY <1>1, <2>1 DEF Promise!promiseVars
<1>4. ASSUME NEW k \in Keys, AsksFor(c, k)
      PROVE  Promise!Ask(c, k)
  BY <1>1, <1>2, <1>4, ClientsAreCallers DEF AsksFor, Promise!Ask, Promise!Requesting
<1>5. ASSUME NEW k \in Keys, WorksOn(c, k)
      PROVE  Promise!Work(c)
  <2>1. /\ Requests[c] = [working |-> FALSE, key |-> k, least |-> least[c]]
        /\ Requests[c] # Promise!NoRequest
    BY <1>2, <1>5, RequestsDiffer DEF WorksOn
  <2>2. /\ Requests' = [Requests EXCEPT ![c] = [Requests[c] EXCEPT !.working = TRUE]]
        /\ Answers' = Answers
    <3>1. /\ RequestOf(c)' = [working |-> TRUE, key |-> k, least |-> least[c]]
          /\ AnswerOf(c)' = Answers[c]
      BY <1>2, <1>5 DEF WorksOn
    <3>2. RequestOf(c)' = [Requests[c] EXCEPT !.working = TRUE]
      <4> DEFINE no == FALSE
                 yes == TRUE
      <4>1. /\ Requests[c] = [working |-> no, key |-> k, least |-> least[c]]
            /\ RequestOf(c)' = [working |-> yes, key |-> k, least |-> least[c]]
        BY <2>1, <3>1
      <4> HIDE DEF no, yes
      <4>2. RequestOf(c)' = [Requests[c] EXCEPT !.working = yes]
        BY <4>1
      <4> QED
        BY <4>2 DEF yes
    <3> QED
      BY <1>1, <1>2, <3>1, <3>2
  <2>3. ASSUME NEW g \in {Threads, Tasks}, c \in g, NEW d \in g
        PROVE  ~Promise!Working(d, k)
    <3>1. /\ d \in Callers
          /\ Path(call, Threads, inflight) /\ Path(call, Tasks, async_inflight)
      BY DEF Callers, AnswersInv, DataInv, PathsInv
    <3>2. ~Owns(call, d, k)
      BY <1>5, <2>3, <3>1 DEF WorksOn, Path
    <3> QED
      BY <3>1, <3>2, WorkersOwn
  <2>4. /\ Requests[c].key = k /\ ~Requests[c].working /\ Promise!Requesting(c)
    BY <2>1 DEF Promise!Requesting
  <2> QED
    BY <1>1, <2>2, <2>3, <2>4 DEF Promise!Work
<1>6. ASSUME NEW k \in Keys, IsOver(c, k)
      PROVE  Promise!Answer(c) \/ Promise!Fail(c)
  <2>1. /\ Requests[c] = [working |-> OwnsKey(c), key |-> k, least |-> least[c]]
        /\ Requests[c] # Promise!NoRequest
    BY <1>2, <1>6, RequestsDiffer DEF IsOver
  <2>2. Promise!Leave(c)
    BY <1>1, <1>6, <2>1, ClientsAreCallers
       DEF IsOver, Promise!Leave, Promise!Requesting
  <2>3. CASE AnswerOf(c)' \in least[c]..source[k]
    <3>1. Requests[c].key = k /\ Requests[c].least = least[c]
      BY <2>1
    <3>2. AnswerOf(c)' \in Requests[c].least..source[Requests[c].key]
      BY <2>3, <3>1
    <3> QED
      BY <1>1, <2>2, <3>2 DEF Promise!Answer
  <2>4. CASE AnswerOf(c)' = AnswerOf(c)
    BY <1>1, <1>2, <2>2, <2>4 DEF Promise!Fail
  <2> QED
    BY <1>6, <2>3, <2>4 DEF IsOver
<1> QED
  BY <1>2, <1>3, <1>4, <1>5, <1>6, TurnOutcome DEF Promise!Next

\* What the promise calls an invalidation.
LEMMA InvalidationKeepsPromise ==
    ASSUME AnswersInv, [Next]_cacheVars, Record, Invalidates
    PROVE  \E keys \in SUBSET Keys : Promise!Invalidate(keys)
<1>1. PICK keys \in SUBSET Keys : Settled(keys)
  BY DEF Invalidates
<1>2. \A k \in Keys : Owners(Callers, k) = {}
                        <=> \A c \in Promise!Clients : ~Promise!Working(c, k)
  <2>1. CallsOK
    BY DEF AnswersInv, DataInv, PathsInv
  <2>2. ASSUME NEW k \in Keys
        PROVE  /\ Owners(Callers, k) \subseteq Callers
               /\ \A c \in Callers : c \in Owners(Callers, k) <=> Promise!Working(c, k)
    BY <2>1, OwnerOwnsKey, WorkersOwn DEF Owners
  <2>3. Promise!Clients = Callers
    BY ClientsAreCallers
  <2> QED
    BY <2>2, <2>3
<1>3. settled = floor /\ settled' \in {settled, floor'}
  BY DEF AnswersInv, Invalidates, Record
<1>4. UNCHANGED <<Requests, Answers, source>>
  BY NoTurnKeeps DEF Invalidates
<1>5. floor' = [k \in Keys |->
                  IF k \in keys /\ \A c \in Promise!Clients : ~Promise!Working(c, k)
                    THEN source[k] ELSE floor[k]]
  BY <1>1, <1>2 DEF Settled
<1>6. Promise!Invalidate(keys)
  BY <1>3, <1>4, <1>5 DEF Promise!Invalidate
<1> QED
  BY <1>6

\* Every step of the cache is a step of the promise, or none.
LEMMA StepKeepsPromise ==
    ASSUME AnswersInv, [Next /\ Record]_answersVars
    PROVE  [Promise!Next]_(Promise!promiseVars)
<1>1. CASE UNCHANGED answersVars
  <2>1. UNCHANGED <<call, source, floor, settled, least, result>>
    BY <1>1 DEF answersVars, cacheVars, recordVars
  <2>2. UNCHANGED <<Requests, Answers>>
    BY <2>1 DEF Requests, Answers, RequestOf, AnswerOf, OwnsKey
  <2> QED
    BY <2>1, <2>2 DEF Promise!promiseVars
<1>2. CASE Next /\ Record
  <2>1. ASSUME NEW c \in Callers, Turn(c)
        PROVE  [Promise!Next]_(Promise!promiseVars)
    BY <1>2, <2>1, TurnKeepsPromise
  <2>2. CASE Invalidates
    BY <1>2, <2>2, InvalidationKeepsPromise DEF Promise!Next
  <2>3. CASE Changes
    <3>1. PICK k \in Keys : /\ source' = [source EXCEPT ![k] = source[k] + 1]
                            /\ UNCHANGED <<call, floor, clearing>>
      BY <2>3 DEF Changes, ChangeSource, stores
    <3>2. UNCHANGED <<Requests, Answers, settled>>
      BY <1>2, <3>1, NoTurnKeeps, RecordSettles
    <3>3. Promise!Change(k)
      BY <3>1, <3>2 DEF Promise!Change
    <3> QED
      BY <3>3 DEF Promise!Next
  <2>4. CASE GoesOn
    <3>1. UNCHANGED <<call, source, floor>> /\ UNCHANGED <<Requests, Answers>>
      BY <1>2, <2>4, NoTurnKeeps DEF GoesOn
    <3>2. settled' = settled \/ settled' = floor
      BY <1>2, <3>1 DEF Record
    <3>3. CASE settled' = floor
      <4>1. Promise!InvalidationOver
        BY <3>1, <3>3 DEF Promise!InvalidationOver
      <4> QED
        BY <4>1 DEF Promise!Next
    <3>4. CASE settled' = settled
      BY <3>1, <3>4 DEF Promise!promiseVars
    <3> QED
      BY <3>2, <3>3, <3>4
  <2> QED
    BY <1>2, <2>1, <2>2, <2>3, <2>4, StepTurns DEF AnswersInv
<1> QED
  BY <1>1, <1>2

\* The invariant of the cache and its record always holds.
LEMMA AnswersInvariant == AnswersSpec => []AnswersInv
<1>1. AnswersInv /\ [Next /\ Record]_answersVars => AnswersInv'
  <2> SUFFICES ASSUME AnswersInv, [Next /\ Record]_answersVars PROVE AnswersInv'
    OBVIOUS
  <2>1. CASE Next /\ Record
    BY <2>1, AnswersInvNext
  <2>2. CASE UNCHANGED answersVars
    <3>1. /\ UNCHANGED cacheVars /\ [Next]_cacheVars
          /\ UNCHANGED <<call, source, floor, database, clearing, settled, least, result>>
      BY <2>2 DEF answersVars, recordVars, cacheVars, stores
    <3>2. DataInv'
      BY <3>1, PathsInvNext, ClearInvNext, ReadsKeeps, StoreKeeps, BackendKeeps,
         DatabaseKeeps DEF AnswersInv, DataInv
    <3> QED
      BY <3>1, <3>2 DEF AnswersInv, CallInv, LockFree
  <2> QED
    BY <2>1, <2>2
<1> QED
  BY <1>1, AnswersInvInit, PTL DEF AnswersSpec

\* A call returns nothing older than what was settled when it began, nor
\* anything that never was, and a key is computed once per path at a time; of
\* what the store, the tables, the lock and the pages of clear() do in between,
\* callers see no more (cache.py 189-236, 324-477; cache_redis.py 190-237).
THEOREM CacheKeepsPromise == AnswersSpec => KeepsPromise
<1>1. AnswersInv /\ [Next /\ Record]_answersVars => [Promise!Next]_(Promise!promiseVars)
  BY StepKeepsPromise
<1> QED
  BY <1>1, AnswersInvariant, PromiseInit, PTL DEF AnswersSpec, KeepsPromise, Promise!Spec
=============================================================================
