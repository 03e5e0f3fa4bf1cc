------------------------------ MODULE Bulkhead ------------------------------
(***************************************************************************)
(* One Bulkhead instance (src/pysilience/bulkhead.py).  Threads use         *)
(* execute() and a threading.Semaphore; Tasks of one event loop use         *)
(* execute_async() and a counter with an asyncio.Event.  The two limits     *)
(* are independent, as the module docstring says.                           *)
(*                                                                         *)
(* Atomicity.  No `async with self._async_mu` section suspends, so within   *)
(* one loop each is atomic, and so is the way from a wake-up into the next  *)
(* section.  The semaphore is the standard library's.  Time is a countdown  *)
(* per caller: patience[c] ticks are left until its deadline.               *)
(***************************************************************************)
EXTENDS Integers, FiniteSets

CONSTANTS
    Threads, Tasks,     \* callers of execute() and of execute_async()
    MaxConcurrent,      \* max_concurrent
    MaxWait             \* max_wait, in ticks; 0 never blocks

\* What BulkheadConfig.__post_init__ enforces.
LegalConfig == MaxConcurrent \in Nat \ {0} /\ MaxWait \in Nat

ASSUME BulkheadAssumption ==
    /\ IsFiniteSet(Threads) /\ IsFiniteSet(Tasks)
    /\ Threads \cap Tasks = {}
    /\ LegalConfig

VARIABLES
    sync_sem,           \* value of _sync_sem
    async_n,            \* _async_n
    async_wake,         \* _async_wake.is_set()
    pc,                 \* where each caller is
    patience,           \* ticks until the caller's deadline
    woken               \* tasks whose Event.wait() has been granted

vars == <<sync_sem, async_n, async_wake, pc, patience, woken>>

Callers == Threads \cup Tasks

Init ==
    /\ sync_sem = MaxConcurrent
    /\ async_n = MaxConcurrent
    /\ async_wake = TRUE
    /\ pc = [c \in Callers |-> "idle"]
    /\ patience = [c \in Callers |-> 0]
    /\ woken = {}

Goto(c, label) == pc' = [pc EXCEPT ![c] = label]

\* The deadline is a local of the acquisition and ends with it.
Answered(c) == patience' = [patience EXCEPT ![c] = 0]

SyncHolders == {t \in Threads : pc[t] = "running"}
AsyncHolders == {t \in Tasks : pc[t] = "running"}
Waiters == {t \in Tasks : pc[t] = "waiting"}

-----------------------------------------------------------------------------
\* A call starts and fixes its deadline.
Ask(c) ==
    /\ pc[c] = "idle"
    /\ Goto(c, "asking")
    /\ patience' = [patience EXCEPT ![c] = MaxWait]
    /\ UNCHANGED <<sync_sem, async_n, async_wake, woken>>

(* _sync_acquire: Semaphore.acquire, blocking until the timeout            *)

SyncTake(t) ==
    /\ pc[t] = "asking"
    /\ sync_sem > 0
    /\ sync_sem' = sync_sem - 1
    /\ Goto(t, "running")
    /\ Answered(t)
    /\ UNCHANGED <<async_n, async_wake, woken>>

SyncRefuse(t) ==
    /\ pc[t] = "asking"
    /\ sync_sem = 0
    /\ patience[t] = 0
    /\ Goto(t, "rejected")
    /\ Answered(t)
    /\ UNCHANGED <<sync_sem, async_n, async_wake, woken>>

(* _async_acquire: one round of its loop per step                          *)

\* The loop's section is entered on arrival, after a wake-up, and after
\* wait_for has timed out.
InSection(t) ==
    \/ pc[t] = "asking"
    \/ pc[t] = "waiting" /\ (t \in woken \/ patience[t] = 0)

\* Mutation: the event stays set when the last permit goes.
WakeAfterTakeUncleared == async_wake

WakeAfterTake == IF async_n - 1 = 0 THEN FALSE ELSE async_wake

\* Mutation: off by one in the test for a free permit.
PermitFreeOffByOne == async_n >= 0

PermitFree == async_n > 0

AsyncTake(t) ==
    /\ InSection(t)
    /\ PermitFree
    /\ async_n' = async_n - 1
    /\ async_wake' = WakeAfterTake
    /\ Goto(t, "running")
    /\ Answered(t)
    /\ woken' = woken \ {t}
    /\ UNCHANGED sync_sem

AsyncRefuse(t) ==
    /\ InSection(t)
    /\ ~PermitFree
    /\ patience[t] = 0
    /\ Goto(t, "rejected")
    /\ Answered(t)
    /\ woken' = woken \ {t}
    /\ UNCHANGED <<sync_sem, async_n, async_wake>>

\* Mutation: the deadline is recomputed in every round of the loop.
PatienceOfRoundRenewed(t) == [patience EXCEPT ![t] = MaxWait]

PatienceOfRound(t) == patience

\* Event.wait() returns at once if the event is set.
AsyncWait(t) ==
    /\ InSection(t)
    /\ ~PermitFree
    /\ patience[t] > 0
    /\ Goto(t, "waiting")
    /\ woken' = IF async_wake THEN woken \cup {t} ELSE woken \ {t}
    /\ patience' = PatienceOfRound(t)
    /\ UNCHANGED <<sync_sem, async_n, async_wake>>

\* The task is cancelled inside wait_for, woken or not; it holds nothing.
CancelWait(t) ==
    /\ pc[t] = "waiting"
    /\ Goto(t, "idle")
    /\ Answered(t)
    /\ woken' = woken \ {t}
    /\ UNCHANGED <<sync_sem, async_n, async_wake>>

-----------------------------------------------------------------------------
(* A rejection is raised, or the operation ends.  The events emitted on the  *)
(* way touch nothing here: listeners may not raise, and no lock is held.     *)

RaiseRejected(c) ==
    /\ pc[c] = "rejected"
    /\ Goto(c, "idle")
    /\ UNCHANGED <<sync_sem, async_n, async_wake, patience, woken>>

\* A return, an Exception, or a BaseException such as a cancellation.
Endings == {"returned", "raised", "uncaught"}

\* Mutation: the release is in `except Exception` and `else`, not in `finally`.
ReleasedPermitsUnlessUncaught(ending) == IF ending = "uncaught" THEN 0 ELSE 1

ReleasedPermits(ending) == 1

SyncRelease(t) ==
    /\ pc[t] = "running"
    /\ \E ending \in Endings : sync_sem' = sync_sem + ReleasedPermits(ending)
    /\ Goto(t, "idle")
    /\ UNCHANGED <<async_n, async_wake, patience, woken>>

\* Mutation: the release wakes one waiter, as a semaphore's would.
WokenByReleaseOne ==
    IF Waiters \ woken = {} THEN woken
    ELSE woken \cup {CHOOSE t \in Waiters \ woken : TRUE}

\* Event.set() grants every pending wait().
WokenByRelease == woken \cup Waiters

AsyncRelease(t) ==
    /\ pc[t] = "running"
    /\ \E ending \in Endings : async_n' = async_n + ReleasedPermits(ending)
    /\ async_wake' = TRUE
    /\ woken' = WokenByRelease
    /\ Goto(t, "idle")
    /\ UNCHANGED <<sync_sem, patience>>

Tick ==
    /\ \E c \in Callers : patience[c] > 0
    /\ patience' =
         [c \in Callers |-> IF patience[c] > 0 THEN patience[c] - 1 ELSE 0]
    /\ UNCHANGED <<sync_sem, async_n, async_wake, pc, woken>>

SyncStep(t) == SyncTake(t) \/ SyncRefuse(t) \/ SyncRelease(t)

AsyncSection(t) == AsyncTake(t) \/ AsyncRefuse(t) \/ AsyncWait(t)
AsyncStep(t) == AsyncSection(t) \/ CancelWait(t) \/ AsyncRelease(t)

Next ==
    \/ Tick
    \/ \E c \in Callers : Ask(c) \/ RaiseRejected(c)
    \/ \E t \in Threads : SyncStep(t)
    \/ \E t \in Tasks : AsyncStep(t)

Spec == Init /\ [][Next]_vars

\* Time passes, the event loop runs every ready task, and a blocked acquire
\* returns when it can.  Nothing is assumed of the guarded operations.
FairSpec ==
    /\ Spec
    /\ WF_vars(Tick)
    /\ \A t \in Tasks : WF_vars(AsyncSection(t))
    /\ \A t \in Threads : WF_vars(SyncTake(t) \/ SyncRefuse(t))

-----------------------------------------------------------------------------
\* Every variable has its type; only tasks in Event.wait() are woken.
TypeOK ==
    /\ sync_sem \in 0..MaxConcurrent
    /\ async_n \in 0..MaxConcurrent
    /\ async_wake \in BOOLEAN
    /\ pc \in [Callers -> {"idle", "asking", "waiting", "running", "rejected"}]
    /\ patience \in [Callers -> 0..MaxWait]
    /\ woken \subseteq Waiters

\* No permit is lost or invented, on either path, however calls end: by a
\* return, an exception, a cancellation or a rejection (199-227, 266-293).
PermitsExact ==
    /\ sync_sem + Cardinality(SyncHolders) = MaxConcurrent
    /\ async_n + Cardinality(AsyncHolders) = MaxConcurrent

\* The event is set exactly while there are free permits: waiting tasks
\* neither spin on a stale event nor sleep past a release (166-170, 234-255).
WakeExact == async_wake <=> async_n > 0

\* No lost wake-up: while a permit is free, every waiting task has been woken,
\* so that one cancelled on its way to the permit leaves others to take it.
NoLostWakeup == async_n > 0 => Waiters \subseteq woken

\* Every call that asks is answered, with a permit or a rejection: waking and
\* losing the race for the permit again and again ends at the deadline.
EveryAskAnswered ==
    \A c \in Callers : pc[c] \in {"asking", "waiting"}
                         ~> pc[c] \notin {"asking", "waiting"}

StageOf(label) == CASE label = "idle"                   -> "outside"
                    [] label \in {"asking", "waiting"}  -> "asking"
                    [] label = "running"                -> "inside"
                    [] label = "rejected"               -> "refused"

SyncPool == INSTANCE PermitPool WITH
    Clients <- Threads, Capacity <- MaxConcurrent,
    stage <- [t \in Threads |-> StageOf(pc[t])]
AsyncPool == INSTANCE PermitPool WITH
    Clients <- Tasks, Capacity <- MaxConcurrent,
    stage <- [t \in Tasks |-> StageOf(pc[t])]

\* Each path lets a caller in only while fewer than max_concurrent are inside,
\* and turns one away only while all permits are held (186-203, 229-250).
ImplementsPools == SyncPool!Spec /\ AsyncPool!Spec
=============================================================================
