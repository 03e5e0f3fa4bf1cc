--------------------------- MODULE BulkheadProofs ---------------------------
(***************************************************************************)
(* Proofs about Bulkhead for any threads, tasks, limit and deadline.       *)
(***************************************************************************)
EXTENDS Bulkhead, TLAPS, FiniteSetTheorems

\* The assumption on the configuration is cited by its name alone.
USE DEF LegalConfig

-----------------------------------------------------------------------------
(* How a step of one caller changes the two sets of permit holders.        *)

\* The holders can be counted.
LEMMA HoldersFinite ==
    /\ IsFiniteSet(SyncHolders) /\ Cardinality(SyncHolders) \in Nat
    /\ IsFiniteSet(AsyncHolders) /\ Cardinality(AsyncHolders) \in Nat
<1>1. SyncHolders \in SUBSET Threads /\ AsyncHolders \in SUBSET Tasks
  BY DEF SyncHolders, AsyncHolders
<1>2. IsFiniteSet(SyncHolders) /\ IsFiniteSet(AsyncHolders)
  BY <1>1, BulkheadAssumption, FS_Subset
<1> QED
  BY <1>2, FS_CardinalityType

Labels == {"idle", "asking", "waiting", "running", "rejected"}

\* A caller that stays on its side of the permit disturbs neither set.
LEMMA HoldersSame ==
    ASSUME TypeOK, NEW c \in Callers, NEW label \in Labels, Goto(c, label),
           pc[c] = "running" <=> label = "running"
    PROVE  /\ SyncHolders' = SyncHolders
           /\ AsyncHolders' = AsyncHolders
BY DEF TypeOK, Goto, SyncHolders, AsyncHolders, Callers

\* A thread that takes a permit joins the threads' holders only.
LEMMA SyncJoins ==
    ASSUME TypeOK, NEW t \in Threads, pc[t] # "running", Goto(t, "running")
    PROVE  /\ Cardinality(SyncHolders') = Cardinality(SyncHolders) + 1
           /\ AsyncHolders' = AsyncHolders
<1>1. SyncHolders' = SyncHolders \cup {t} /\ t \notin SyncHolders
  BY DEF TypeOK, Goto, SyncHolders, Callers
<1>2. AsyncHolders' = AsyncHolders
  BY BulkheadAssumption DEF TypeOK, Goto, AsyncHolders, Callers
<1> QED
  BY <1>1, <1>2, HoldersFinite, FS_AddElement

\* A thread that releases its permit leaves the threads' holders only.
LEMMA SyncLeaves ==
    ASSUME TypeOK, NEW t \in Threads, pc[t] = "running", Goto(t, "idle")
    PROVE  /\ Cardinality(SyncHolders') = Cardinality(SyncHolders) - 1
           /\ AsyncHolders' = AsyncHolders
<1>1. SyncHolders' = SyncHolders \ {t} /\ t \in SyncHolders
  BY DEF TypeOK, Goto, SyncHolders, Callers
<1>2. AsyncHolders' = AsyncHolders
  BY BulkheadAssumption DEF TypeOK, Goto, AsyncHolders, Callers
<1> QED
  BY <1>1, <1>2, HoldersFinite, FS_RemoveElement

\* The same for a task.
LEMMA AsyncJoins ==
    ASSUME TypeOK, NEW t \in Tasks, pc[t] # "running", Goto(t, "running")
    PROVE  /\ Cardinality(AsyncHolders') = Cardinality(AsyncHolders) + 1
           /\ SyncHolders' = SyncHolders
<1>1. AsyncHolders' = AsyncHolders \cup {t} /\ t \notin AsyncHolders
  BY DEF TypeOK, Goto, AsyncHolders, Callers
<1>2. SyncHolders' = SyncHolders
  BY BulkheadAssumption DEF TypeOK, Goto, SyncHolders, Callers
<1> QED
  BY <1>1, <1>2, HoldersFinite, FS_AddElement

LEMMA AsyncLeaves ==
    ASSUME TypeOK, NEW t \in Tasks, pc[t] = "running", Goto(t, "idle")
    PROVE  /\ Cardinality(AsyncHolders') = Cardinality(AsyncHolders) - 1
           /\ SyncHolders' = SyncHolders
<1>1. AsyncHolders' = AsyncHolders \ {t} /\ t \in AsyncHolders
  BY DEF TypeOK, Goto, AsyncHolders, Callers
<1>2. SyncHolders' = SyncHolders
  BY BulkheadAssumption DEF TypeOK, Goto, SyncHolders, Callers
<1> QED
  BY <1>1, <1>2, HoldersFinite, FS_RemoveElement

-----------------------------------------------------------------------------
(* The inductive invariant: permits, event and wake-ups together.          *)

Inv == TypeOK /\ PermitsExact /\ WakeExact /\ NoLostWakeup

LEMMA InvInit == Init => Inv
<1> SUFFICES ASSUME Init PROVE Inv
  OBVIOUS
<1>1. SyncHolders = {} /\ AsyncHolders = {} /\ Waiters = {}
  BY DEF Init, SyncHolders, AsyncHolders, Waiters, Callers
<1>2. Cardinality(SyncHolders) = 0 /\ Cardinality(AsyncHolders) = 0
  BY <1>1, FS_EmptySet
<1>3. TypeOK
  BY <1>1, BulkheadAssumption DEF Init, TypeOK
<1> QED
  BY <1>1, <1>2, <1>3, BulkheadAssumption
     DEF Init, Inv, PermitsExact, WakeExact, NoLostWakeup

\* What the counts say about the two permit variables.
LEMMA PermitBounds ==
    ASSUME Inv
    PROVE  /\ sync_sem \in Nat /\ async_n \in Nat /\ MaxConcurrent \in Nat \ {0}
           /\ sync_sem = MaxConcurrent - Cardinality(SyncHolders)
           /\ async_n = MaxConcurrent - Cardinality(AsyncHolders)
BY BulkheadAssumption, HoldersFinite DEF Inv, TypeOK, PermitsExact

\* A forgotten deadline is still a number of ticks.
LEMMA AnsweredType ==
    ASSUME TypeOK, NEW c \in Callers, Answered(c)
    PROVE  patience' \in [Callers -> 0..MaxWait]
<1>1. 0 \in 0..MaxWait
  BY BulkheadAssumption
<1> QED
  BY <1>1 DEF TypeOK, Answered

\* A step of one caller that moves no permit and wakes nobody.
LEMMA QuietStep ==
    ASSUME Inv, NEW c \in Callers, NEW label \in Labels \ {"waiting"},
           Goto(c, label), pc[c] = "running" <=> label = "running",
           woken' = woken \ {c}, patience' \in [Callers -> 0..MaxWait],
           UNCHANGED <<sync_sem, async_n, async_wake>>
    PROVE  Inv'
<1>1. /\ SyncHolders' = SyncHolders
      /\ AsyncHolders' = AsyncHolders
  BY HoldersSame DEF Inv
<1>2. Waiters' = Waiters \ {c}
  BY DEF Inv, TypeOK, Goto, Waiters, Callers
<1>3. TypeOK'
  BY <1>2 DEF Inv, TypeOK, Goto, Labels, Callers
<1> QED
  BY <1>1, <1>2, <1>3 DEF Inv, PermitsExact, WakeExact, NoLostWakeup

LEMMA SyncKeepsInv ==
    ASSUME Inv, NEW t \in Threads, SyncStep(t)
    PROVE  Inv'
<1>1. t \in Callers /\ t \notin Tasks
  BY BulkheadAssumption DEF Callers
<1>2. woken \ {t} = woken
  BY <1>1 DEF Inv, TypeOK, Waiters
<1>3. CASE SyncTake(t)
  <2>1. /\ Cardinality(SyncHolders') = Cardinality(SyncHolders) + 1
        /\ AsyncHolders' = AsyncHolders
    BY <1>3, SyncJoins DEF SyncTake, Inv
  <2>2. Waiters' = Waiters
    BY <1>1, <1>3 DEF SyncTake, Goto, Waiters, Inv, TypeOK, Callers
  <2>3. sync_sem' = sync_sem - 1 /\ sync_sem' \in 0..MaxConcurrent
    BY <1>3, BulkheadAssumption DEF SyncTake, Inv, TypeOK
  <2>4. TypeOK'
    BY <1>1, <1>3, <2>2, <2>3, AnsweredType DEF SyncTake, Inv, TypeOK, Goto
  <2>5. PermitsExact'
    BY <1>3, <2>1, <2>3, PermitBounds, HoldersFinite DEF SyncTake, PermitsExact
  <2> QED
    BY <1>3, <2>2, <2>4, <2>5 DEF SyncTake, Inv, WakeExact, NoLostWakeup
<1>4. CASE SyncRefuse(t)
  BY <1>1, <1>2, <1>4, AnsweredType, QuietStep
     DEF SyncRefuse, Labels, Inv
<1>5. CASE SyncRelease(t)
  <2>1. /\ Cardinality(SyncHolders') = Cardinality(SyncHolders) - 1
        /\ AsyncHolders' = AsyncHolders
    BY <1>5, SyncLeaves DEF SyncRelease, Inv
  <2>2. Waiters' = Waiters
    BY <1>1, <1>5 DEF SyncRelease, Goto, Waiters, Inv, TypeOK, Callers
  <2>3. sync_sem' = sync_sem + 1
    BY <1>5 DEF SyncRelease, ReleasedPermits
  <2>4. t \in SyncHolders
    BY <1>5 DEF SyncRelease, SyncHolders
  <2>5. Cardinality(SyncHolders) > 0
    BY <2>4, HoldersFinite, FS_EmptySet
  <2>6. sync_sem' \in 0..MaxConcurrent
    BY <2>3, <2>5, PermitBounds, HoldersFinite
  <2>7. TypeOK'
    BY <1>5, <2>2, <2>6 DEF SyncRelease, Inv, TypeOK, Goto
  <2>8. PermitsExact'
    BY <1>5, <2>1, <2>3, PermitBounds, HoldersFinite
       DEF SyncRelease, PermitsExact
  <2> QED
    BY <1>5, <2>2, <2>7, <2>8 DEF SyncRelease, Inv, WakeExact, NoLostWakeup
<1> QED
  BY <1>3, <1>4, <1>5 DEF SyncStep
LEMMA AsyncTakeKeepsInv ==
    ASSUME Inv, NEW t \in Tasks, AsyncTake(t)
    PROVE  Inv'
<1>1. t \in Callers /\ pc[t] # "running"
  BY DEF Callers, AsyncTake, InSection
<1>2. /\ Cardinality(AsyncHolders') = Cardinality(AsyncHolders) + 1
      /\ SyncHolders' = SyncHolders
  BY <1>1, AsyncJoins DEF AsyncTake, Inv
<1>3. Waiters' = Waiters \ {t}
  BY <1>1 DEF AsyncTake, Goto, Waiters, Inv, TypeOK
<1>4. /\ async_n' = async_n - 1
      /\ async_n \in 1..MaxConcurrent
      /\ async_n' \in 0..MaxConcurrent
  BY BulkheadAssumption DEF AsyncTake, PermitFree, Inv, TypeOK
<1>5. /\ async_wake' \in BOOLEAN
      /\ async_wake' <=> async_n' > 0
  <2>1. async_wake = TRUE
    BY <1>4 DEF Inv, TypeOK, WakeExact
  <2>2. async_wake' = IF async_n' = 0 THEN FALSE ELSE TRUE
    BY <1>4, <2>1 DEF AsyncTake, WakeAfterTake
  <2>3. CASE async_n' = 0
    BY <2>2, <2>3
  <2>4. CASE async_n' # 0
    BY <1>4, <2>2, <2>4
  <2> QED
    BY <2>3, <2>4
<1>6. TypeOK'
  BY <1>1, <1>3, <1>4, <1>5, AnsweredType DEF AsyncTake, Inv, TypeOK, Goto
<1>7. PermitsExact'
  BY <1>2, <1>4, PermitBounds, HoldersFinite DEF AsyncTake, PermitsExact
<1>8. NoLostWakeup'
  BY <1>3, <1>4 DEF AsyncTake, Inv, NoLostWakeup
<1> QED
  BY <1>5, <1>6, <1>7, <1>8 DEF Inv, WakeExact

\* A release sets the event and wakes everybody.
LEMMA AsyncReleaseKeepsInv ==
    ASSUME Inv, NEW t \in Tasks, AsyncRelease(t)
    PROVE  Inv'
<1>1. t \in Callers /\ t \in AsyncHolders
  BY DEF Callers, AsyncRelease, AsyncHolders
<1>2. /\ Cardinality(AsyncHolders') = Cardinality(AsyncHolders) - 1
      /\ SyncHolders' = SyncHolders
  BY AsyncLeaves DEF AsyncRelease, Inv
<1>3. Waiters' = Waiters
  BY <1>1 DEF AsyncRelease, Goto, Waiters, Inv, TypeOK
<1>4. Cardinality(AsyncHolders) > 0
  BY <1>1, HoldersFinite, FS_EmptySet
<1>5. async_n' = async_n + 1 /\ async_n' \in 1..MaxConcurrent
  BY <1>4, PermitBounds, HoldersFinite DEF AsyncRelease, ReleasedPermits
<1>6. woken' = Waiters
  BY DEF AsyncRelease, WokenByRelease, Inv, TypeOK
<1>7. TypeOK'
  BY <1>1, <1>3, <1>5, <1>6 DEF AsyncRelease, Inv, TypeOK, Goto
<1>8. PermitsExact'
  BY <1>2, <1>5, PermitBounds, HoldersFinite DEF AsyncRelease, PermitsExact
<1>9. WakeExact' /\ NoLostWakeup'
  BY <1>3, <1>5, <1>6 DEF AsyncRelease, WakeExact, NoLostWakeup
<1> QED
  BY <1>7, <1>8, <1>9 DEF Inv

\* A task goes to sleep only on a clear event, when no permit is free.
LEMMA AsyncWaitKeepsInv ==
    ASSUME Inv, NEW t \in Tasks, AsyncWait(t)
    PROVE  Inv'
<1>1. t \in Callers /\ pc[t] # "running"
  BY DEF Callers, AsyncWait, InSection
<1>2. SyncHolders' = SyncHolders /\ AsyncHolders' = AsyncHolders
  BY <1>1, HoldersSame DEF AsyncWait, Inv, Labels
<1>3. Waiters' = Waiters \cup {t}
  BY <1>1 DEF AsyncWait, Goto, Waiters, Inv, TypeOK
<1>4. async_n = 0 /\ async_n' = 0
  BY PermitBounds DEF AsyncWait, PermitFree
<1>5. TypeOK'
  BY <1>1, <1>3 DEF AsyncWait, PatienceOfRound, Inv, TypeOK, Goto
<1> QED
  BY <1>2, <1>4, <1>5
     DEF AsyncWait, Inv, PermitsExact, WakeExact, NoLostWakeup

LEMMA AsyncKeepsInv ==
    ASSUME Inv, NEW t \in Tasks, AsyncStep(t)
    PROVE  Inv'
<1>1. t \in Callers
  BY DEF Callers
<1>2. CASE AsyncRefuse(t)
  BY <1>1, <1>2, AnsweredType, QuietStep
     DEF AsyncRefuse, InSection, Labels, Inv
<1>3. CASE CancelWait(t)
  BY <1>1, <1>3, AnsweredType, QuietStep DEF CancelWait, Labels, Inv
<1> QED
  BY <1>2, <1>3, AsyncTakeKeepsInv, AsyncReleaseKeepsInv, AsyncWaitKeepsInv
     DEF AsyncStep, AsyncSection

\* Arriving and raising move no permit.
LEMMA CallerKeepsInv ==
    ASSUME Inv, NEW c \in Callers,
           Ask(c) \/ RaiseRejected(c)
    PROVE  Inv'
<1>1. woken \ {c} = woken
  BY DEF Ask, RaiseRejected, Inv, TypeOK, Waiters
<1>2. CASE Ask(c)
  <2>1. patience' \in [Callers -> 0..MaxWait]
    BY <1>2, BulkheadAssumption DEF Ask, Inv, TypeOK
  <2> QED
    BY <1>1, <1>2, <2>1, QuietStep DEF Ask, Labels
<1>3. CASE RaiseRejected(c)
  BY <1>1, <1>3, QuietStep DEF RaiseRejected, Labels, Inv, TypeOK
<1> QED
  BY <1>2, <1>3

LEMMA InvStep == Inv /\ [Next]_vars => Inv'
<1> SUFFICES ASSUME Inv, [Next]_vars PROVE Inv'
  OBVIOUS
<1>1. CASE Tick \/ UNCHANGED vars
  <2>1. /\ UNCHANGED <<sync_sem, async_n, async_wake, pc, woken>>
        /\ patience' \in [Callers -> 0..MaxWait]
    BY <1>1, BulkheadAssumption DEF Tick, vars, Inv, TypeOK
  <2>2. /\ SyncHolders' = SyncHolders /\ AsyncHolders' = AsyncHolders
        /\ Waiters' = Waiters
    BY <2>1 DEF SyncHolders, AsyncHolders, Waiters
  <2> QED
    BY <2>1, <2>2 DEF Inv, TypeOK, PermitsExact, WakeExact, NoLostWakeup
<1> QED
  BY <1>1, CallerKeepsInv, SyncKeepsInv, AsyncKeepsInv DEF Next

\* Types, for every limit, deadline and set of callers.
THEOREM TypeCorrect == Spec => []TypeOK
<1>1. Inv => TypeOK
  BY DEF Inv
<1> QED
  BY <1>1, InvInit, InvStep, PTL DEF Spec

\* No permit is lost or invented on either path, whatever ends a call.
THEOREM PermitsAlwaysExact == Spec => []PermitsExact
<1>1. Inv => PermitsExact
  BY DEF Inv
<1> QED
  BY <1>1, InvInit, InvStep, PTL DEF Spec

\* The event that tasks wait for is set exactly while a permit is free: none of
\* them spins on an event left set.
THEOREM EventAlwaysExact == Spec => []WakeExact
<1>1. Inv => WakeExact
  BY DEF Inv
<1> QED
  BY <1>1, InvInit, InvStep, PTL DEF Spec

\* No wake-up is lost: a free permit and a sleeping task never go together,
\* even if woken tasks are cancelled.
THEOREM WakeupsNeverLost == Spec => []NoLostWakeup
<1>1. Inv => NoLostWakeup
  BY DEF Inv
<1> QED
  BY <1>1, InvInit, InvStep, PTL DEF Spec
-----------------------------------------------------------------------------
(* Both paths implement the abstract pool of permits.                      *)

\* The stage each label stands for.
LEMMA StageOfLabels ==
    /\ StageOf("idle") = "outside"
    /\ StageOf("asking") = "asking"
    /\ StageOf("waiting") = "asking"
    /\ StageOf("rejected") = "refused"
    /\ StageOf("running") = "inside"
    /\ \A label \in Labels : StageOf(label) = "inside" <=> label = "running"
BY DEF StageOf, Labels

SyncStage == [t \in Threads |-> StageOf(pc[t])]
AsyncStage == [t \in Tasks |-> StageOf(pc[t])]

\* A step of a caller of one path is a move of the path's pool, and the other
\* path's pool does not see it.
LEMMA SyncMoves ==
    ASSUME TypeOK, NEW c \in Threads, NEW label, Goto(c, label)
    PROVE  /\ SyncPool!Move(c, StageOf(pc[c]), StageOf(label))
           /\ SyncStage' = [SyncStage EXCEPT ![c] = StageOf(label)]
           /\ SyncStage[c] = StageOf(pc[c])
           /\ SyncStage \in [Threads -> {StageOf(pc[t]) : t \in Threads}]
           /\ UNCHANGED AsyncStage
<1>1. c \in Callers /\ c \notin Tasks
  BY BulkheadAssumption DEF Callers
<1>2. SyncStage' = [SyncStage EXCEPT ![c] = StageOf(label)]
  BY <1>1 DEF TypeOK, Goto, SyncStage, Callers
<1>3. AsyncStage' = AsyncStage
  BY <1>1 DEF TypeOK, Goto, AsyncStage, Callers
<1> QED
  BY <1>2, <1>3 DEF SyncPool!Move, SyncStage

\* Being inside the pool is holding a permit, and the pool counts alike.
LEMMA SyncInsideIsHolding ==
    ASSUME TypeOK
    PROVE  /\ SyncPool!Inside = SyncHolders
           /\ SyncPool!Cardinality(SyncPool!Inside) = Cardinality(SyncHolders)
<1>1. SyncPool!Inside = SyncHolders
  BY StageOfLabels DEF TypeOK, SyncPool!Inside, SyncHolders, Callers, Labels
<1>2. SyncPool!Cardinality(SyncHolders) = Cardinality(SyncHolders)
  BY DEF SyncPool!Cardinality, Cardinality
<1> QED
  BY <1>1, <1>2

\* A caller's arrival and its rejection, seen from its pool.
LEMMA SyncCallerImplements ==
    ASSUME Inv, NEW c \in Threads, Ask(c) \/ RaiseRejected(c)
    PROVE  /\ [SyncPool!Next]_SyncStage
           /\ UNCHANGED AsyncStage
<1> USE DEF Inv
<1>1. CASE Ask(c)
  <2>1. SyncPool!Move(c, "outside", "asking") /\ UNCHANGED AsyncStage
    BY <1>1, SyncMoves, StageOfLabels DEF Ask
  <2> QED
    BY <2>1 DEF SyncPool!Next, SyncPool!Ask
<1>2. CASE RaiseRejected(c)
  <2>1. SyncPool!Move(c, "refused", "outside") /\ UNCHANGED AsyncStage
    BY <1>2, SyncMoves, StageOfLabels DEF RaiseRejected
  <2> QED
    BY <2>1 DEF SyncPool!Next, SyncPool!Return
<1> QED
  BY <1>1, <1>2

\* A step of a caller of one path is a move of the path's pool, and the other
\* path's pool does not see it.
LEMMA AsyncMoves ==
    ASSUME TypeOK, NEW c \in Tasks, NEW label, Goto(c, label)
    PROVE  /\ AsyncPool!Move(c, StageOf(pc[c]), StageOf(label))
           /\ AsyncStage' = [AsyncStage EXCEPT ![c] = StageOf(label)]
           /\ AsyncStage[c] = StageOf(pc[c])
           /\ AsyncStage \in [Tasks -> {StageOf(pc[t]) : t \in Tasks}]
           /\ UNCHANGED SyncStage
<1>1. c \in Callers /\ c \notin Threads
  BY BulkheadAssumption DEF Callers
<1>2. AsyncStage' = [AsyncStage EXCEPT ![c] = StageOf(label)]
  BY <1>1 DEF TypeOK, Goto, AsyncStage, Callers
<1>3. SyncStage' = SyncStage
  BY <1>1 DEF TypeOK, Goto, SyncStage, Callers
<1> QED
  BY <1>2, <1>3 DEF AsyncPool!Move, AsyncStage

\* Being inside the pool is holding a permit, and the pool counts alike.
LEMMA AsyncInsideIsHolding ==
    ASSUME TypeOK
    PROVE  /\ AsyncPool!Inside = AsyncHolders
           /\ AsyncPool!Cardinality(AsyncPool!Inside) = Cardinality(AsyncHolders)
<1>1. AsyncPool!Inside = AsyncHolders
  BY StageOfLabels DEF TypeOK, AsyncPool!Inside, AsyncHolders, Callers, Labels
<1>2. AsyncPool!Cardinality(AsyncHolders) = Cardinality(AsyncHolders)
  BY DEF AsyncPool!Cardinality, Cardinality
<1> QED
  BY <1>1, <1>2

\* A caller's arrival and its rejection, seen from its pool.
LEMMA AsyncCallerImplements ==
    ASSUME Inv, NEW c \in Tasks, Ask(c) \/ RaiseRejected(c)
    PROVE  /\ [AsyncPool!Next]_AsyncStage
           /\ UNCHANGED SyncStage
<1> USE DEF Inv
<1>1. CASE Ask(c)
  <2>1. AsyncPool!Move(c, "outside", "asking") /\ UNCHANGED SyncStage
    BY <1>1, AsyncMoves, StageOfLabels DEF Ask
  <2> QED
    BY <2>1 DEF AsyncPool!Next, AsyncPool!Ask
<1>2. CASE RaiseRejected(c)
  <2>1. AsyncPool!Move(c, "refused", "outside") /\ UNCHANGED SyncStage
    BY <1>2, AsyncMoves, StageOfLabels DEF RaiseRejected
  <2> QED
    BY <2>1 DEF AsyncPool!Next, AsyncPool!Return
<1> QED
  BY <1>1, <1>2

\* A thread enters while there is room and is refused while there is none.
LEMMA SyncStepImplements ==
    ASSUME Inv, NEW t \in Threads, SyncStep(t)
    PROVE  [SyncPool!Next]_SyncStage /\ UNCHANGED AsyncStage
<1> USE DEF Inv
<1>1. SyncPool!Cardinality(SyncPool!Inside) = Cardinality(SyncHolders)
  BY SyncInsideIsHolding
<1>2. CASE SyncTake(t)
  <2>1. SyncPool!Move(t, "asking", "inside") /\ UNCHANGED AsyncStage
    BY <1>2, SyncMoves, StageOfLabels DEF SyncTake
  <2>2. SyncPool!Cardinality(SyncPool!Inside) < MaxConcurrent
    BY <1>1, <1>2, PermitBounds, HoldersFinite DEF SyncTake
  <2> QED
    BY <2>1, <2>2 DEF SyncPool!Next, SyncPool!Enter
<1>3. CASE SyncRefuse(t)
  <2>1. SyncPool!Move(t, "asking", "refused") /\ UNCHANGED AsyncStage
    BY <1>3, SyncMoves, StageOfLabels DEF SyncRefuse
  <2>2. SyncPool!Cardinality(SyncPool!Inside) = MaxConcurrent
    BY <1>1, <1>3, PermitBounds, HoldersFinite DEF SyncRefuse
  <2> QED
    BY <2>1, <2>2 DEF SyncPool!Next, SyncPool!Refuse
<1>4. CASE SyncRelease(t)
  <2>1. SyncPool!Move(t, "inside", "outside") /\ UNCHANGED AsyncStage
    BY <1>4, SyncMoves, StageOfLabels DEF SyncRelease
  <2> QED
    BY <2>1 DEF SyncPool!Next, SyncPool!Leave
<1> QED
  BY <1>2, <1>3, <1>4 DEF SyncStep

\* A task likewise, and waiting for the event is part of asking.
LEMMA AsyncStepImplements ==
    ASSUME Inv, NEW t \in Tasks, AsyncStep(t)
    PROVE  [AsyncPool!Next]_AsyncStage /\ UNCHANGED SyncStage
<1> USE DEF Inv
<1>1. AsyncPool!Cardinality(AsyncPool!Inside) = Cardinality(AsyncHolders)
  BY AsyncInsideIsHolding
<1>2. InSection(t) => StageOf(pc[t]) = "asking"
  BY StageOfLabels DEF InSection
<1>3. CASE AsyncTake(t)
  <2>1. AsyncPool!Move(t, "asking", "inside") /\ UNCHANGED SyncStage
    BY <1>2, <1>3, AsyncMoves, StageOfLabels DEF AsyncTake
  <2>2. AsyncPool!Cardinality(AsyncPool!Inside) < MaxConcurrent
    BY <1>1, <1>3, PermitBounds, HoldersFinite DEF AsyncTake, PermitFree
  <2> QED
    BY <2>1, <2>2 DEF AsyncPool!Next, AsyncPool!Enter
<1>4. CASE AsyncRefuse(t)
  <2>1. AsyncPool!Move(t, "asking", "refused") /\ UNCHANGED SyncStage
    BY <1>2, <1>4, AsyncMoves, StageOfLabels DEF AsyncRefuse
  <2>2. AsyncPool!Cardinality(AsyncPool!Inside) = MaxConcurrent
    BY <1>1, <1>4, PermitBounds, HoldersFinite DEF AsyncRefuse, PermitFree
  <2> QED
    BY <2>1, <2>2 DEF AsyncPool!Next, AsyncPool!Refuse
<1>5. CASE AsyncWait(t)
  <2>1. Goto(t, "waiting") /\ StageOf("waiting") = StageOf(pc[t])
    BY <1>2, <1>5, StageOfLabels DEF AsyncWait
  <2>2. UNCHANGED AsyncStage /\ UNCHANGED SyncStage
    BY <2>1, AsyncMoves
  <2> QED
    BY <2>2
<1>6. CASE CancelWait(t)
  <2>1. AsyncPool!Move(t, "asking", "outside") /\ UNCHANGED SyncStage
    BY <1>6, AsyncMoves, StageOfLabels DEF CancelWait
  <2> QED
    BY <2>1 DEF AsyncPool!Next, AsyncPool!Abandon
<1>7. CASE AsyncRelease(t)
  <2>1. AsyncPool!Move(t, "inside", "outside") /\ UNCHANGED SyncStage
    BY <1>7, AsyncMoves, StageOfLabels DEF AsyncRelease
  <2> QED
    BY <2>1 DEF AsyncPool!Next, AsyncPool!Leave
<1> QED
  BY <1>3, <1>4, <1>5, <1>6, <1>7 DEF AsyncStep, AsyncSection

LEMMA PoolSteps ==
    Inv /\ [Next]_vars => [SyncPool!Next]_SyncStage /\ [AsyncPool!Next]_AsyncStage
<1> SUFFICES ASSUME Inv, [Next]_vars
             PROVE  [SyncPool!Next]_SyncStage /\ [AsyncPool!Next]_AsyncStage
  OBVIOUS
<1>1. CASE Tick \/ UNCHANGED vars
  <2>1. UNCHANGED pc
    BY <1>1 DEF Tick, vars
  <2> QED
    BY <2>1 DEF SyncStage, AsyncStage
<1>2. ASSUME NEW c \in Callers, Ask(c) \/ RaiseRejected(c)
      PROVE  [SyncPool!Next]_SyncStage /\ [AsyncPool!Next]_AsyncStage
  BY <1>2, SyncCallerImplements, AsyncCallerImplements DEF Callers
<1> QED
  BY <1>1, <1>2, SyncStepImplements, AsyncStepImplements DEF Next

\* The bulkhead implements the pool of permits on both of its paths: entry
\* only while there is room, rejection only while there is none.
THEOREM BulkheadImplementsPools ==
    Spec => ImplementsPools
<1>1. Init => SyncPool!Init /\ AsyncPool!Init
  BY StageOfLabels DEF Init, SyncPool!Init, AsyncPool!Init, Callers
<1>2. Inv /\ [Next]_vars =>
        /\ [SyncPool!Next]_([t \in Threads |-> StageOf(pc[t])])
        /\ [AsyncPool!Next]_([t \in Tasks |-> StageOf(pc[t])])
  BY PoolSteps DEF SyncStage, AsyncStage
<1> QED
  BY <1>1, <1>2, InvInit, InvStep, PTL
     DEF Spec, ImplementsPools, SyncPool!Spec, AsyncPool!Spec
=============================================================================
