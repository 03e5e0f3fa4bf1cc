------------------------ MODULE CircuitBreakerProofs ------------------------
(***************************************************************************)
(* Proofs about CircuitBreaker for every number of callers, window size,   *)
(* threshold, permit count and wait.                                       *)
(***************************************************************************)
EXTENDS CircuitBreaker, TLAPS, FiniteSetTheorems, FunctionTheorems,
        SequenceTheorems

\* The assumption on the configuration is cited by its name alone.
USE DEF LegalConfig

-----------------------------------------------------------------------------
(* Counting failures in a sequence of outcomes.                            *)

FailureIndices(results) == {i \in DOMAIN results : ~results[i]}

\* The failures of a sequence form a finite set, so that they can be counted.
LEMMA FailuresFinite ==
    ASSUME NEW results \in Seq(BOOLEAN)
    PROVE  /\ IsFiniteSet(FailureIndices(results))
           /\ Failures(results) \in Nat
<1>1. FailureIndices(results) \in SUBSET (1..Len(results))
  BY DEF FailureIndices
<1>2. IsFiniteSet(1..Len(results))
  BY FS_Interval
<1>3. IsFiniteSet(FailureIndices(results))
  BY <1>1, <1>2, FS_Subset
<1> QED
  BY <1>3, FS_CardinalityType DEF Failures, FailureIndices

\* The empty window has no failures.
LEMMA FailuresEmpty == Failures(<< >>) = 0
<1>1. FailureIndices(<< >>) = {}
  BY DEF FailureIndices
<1> QED
  BY <1>1, FS_EmptySet DEF Failures, FailureIndices

\* Appending an outcome adds one failure exactly when the outcome is one.
LEMMA FailuresAppend ==
    ASSUME NEW results \in Seq(BOOLEAN), NEW success \in BOOLEAN
    PROVE  Failures(Append(results, success))
             = Failures(results) + (IF success THEN 0 ELSE 1)
<1> DEFINE n == Len(results) + 1
           app == Append(results, success)
<1>1. /\ DOMAIN app = 1..n
      /\ app[n] = success
      /\ \A i \in 1..Len(results) : app[i] = results[i]
  OBVIOUS
<1>2. /\ Len(results) \in Nat
      /\ DOMAIN results = 1..Len(results)
  OBVIOUS
<1>3. FailureIndices(app) =
        IF success THEN FailureIndices(results)
                   ELSE FailureIndices(results) \cup {n}
  BY <1>1, <1>2 DEF FailureIndices
<1>4. n \notin FailureIndices(results)
  BY <1>2 DEF FailureIndices
<1>5. /\ IsFiniteSet(FailureIndices(results))
      /\ Failures(results) = Cardinality(FailureIndices(results))
      /\ Failures(app) = Cardinality(FailureIndices(app))
      /\ Failures(results) \in Nat
  BY FailuresFinite DEF Failures, FailureIndices
<1>6. CASE success
  BY <1>3, <1>5, <1>6
<1>7. CASE ~success
  <2>1. Cardinality(FailureIndices(results) \cup {n})
          = Cardinality(FailureIndices(results)) + 1
    BY <1>4, <1>5, FS_AddElement
  <2> QED
    BY <2>1, <1>3, <1>5, <1>7
<1> QED
  BY <1>6, <1>7

\* Dropping the oldest outcome removes one failure exactly when it was one.
LEMMA FailuresTail ==
    ASSUME NEW results \in Seq(BOOLEAN), results # << >>
    PROVE  Failures(Tail(results))
             = Failures(results) - (IF results[1] THEN 0 ELSE 1)
<1> DEFINE rest == Tail(results)
           shifted == [i \in FailureIndices(rest) |-> i + 1]
<1>1. /\ rest \in Seq(BOOLEAN)
      /\ Len(rest) = Len(results) - 1
      /\ \A i \in 1..Len(rest) : rest[i] = results[i + 1]
      /\ Len(results) \in Nat \ {0}
  BY HeadTailProperties, EmptySeq
<1>2. /\ DOMAIN rest = 1..Len(rest)
      /\ DOMAIN results = 1..Len(results)
  BY <1>1
<1>3. shifted \in Bijection(FailureIndices(rest), FailureIndices(results) \ {1})
  <2>1. \A i \in FailureIndices(rest) :
          i \in Nat /\ i + 1 \in FailureIndices(results) \ {1}
    BY <1>1, <1>2 DEF FailureIndices
  <2>2. shifted \in [FailureIndices(rest) -> FailureIndices(results) \ {1}]
    BY <2>1
  <2>3. \A i, j \in FailureIndices(rest) : shifted[i] = shifted[j] => i = j
    BY <2>1
  <2>4. ASSUME NEW j \in FailureIndices(results) \ {1}
        PROVE  \E i \in FailureIndices(rest) : shifted[i] = j
    <3>1. j - 1 \in FailureIndices(rest) /\ (j - 1) + 1 = j
      BY <1>1, <1>2 DEF FailureIndices
    <3> QED
      BY <3>1
  <2> HIDE DEF shifted
  <2> QED
    BY <2>2, <2>3, <2>4, Fun_IsBij
<1>4. Cardinality(FailureIndices(rest)) =
        Cardinality(FailureIndices(results) \ {1})
  BY <1>1, <1>3, FailuresFinite, FS_Bijection DEF ExistsBijection
<1>5. /\ IsFiniteSet(FailureIndices(results))
      /\ Failures(results) = Cardinality(FailureIndices(results))
      /\ Failures(rest) = Cardinality(FailureIndices(rest))
      /\ Failures(results) \in Nat
  BY FailuresFinite DEF Failures, FailureIndices
<1>6. 1 \in FailureIndices(results) <=> ~results[1]
  BY <1>1, <1>2 DEF FailureIndices
<1>7. Cardinality(FailureIndices(results) \ {1}) =
        IF 1 \in FailureIndices(results)
          THEN Cardinality(FailureIndices(results)) - 1
          ELSE Cardinality(FailureIndices(results))
  BY <1>5, FS_RemoveElement
<1> QED
  BY <1>4, <1>5, <1>6, <1>7
-----------------------------------------------------------------------------
(* Types and the counter beside the window.                                *)

\* The steps of the specification, by the part of the code they belong to.
AcquireStep(c) == AcquireClosed(c) \/ AcquireOpenElapsed(c)
                    \/ AcquireHalfOpen(c) \/ Reject(c) \/ RaiseRejected(c)

\* One recording keeps the window a bounded sequence of outcomes and the
\* counter equal to its failures, evicted outcomes included (492-500).
LEMMA WindowRecordExact ==
    ASSUME TypeOK, FailureCountExact, NEW success \in BOOLEAN,
           WindowRecord(success)
    PROVE  /\ window' \in Seq(BOOLEAN)
           /\ Len(window') \in 1..SlidingWindowSize
           /\ failure_count' \in Int
           /\ failure_count' = Failures(window')
<1> DEFINE full == Len(window) = SlidingWindowSize
           kept == IF full THEN Tail(window) ELSE window
<1>1. /\ window \in Seq(BOOLEAN)
      /\ Len(window) \in 0..SlidingWindowSize
      /\ SlidingWindowSize \in Nat \ {0}
      /\ failure_count \in Int
      /\ failure_count = Failures(window)
  BY ConfigAssumption, LenProperties DEF TypeOK, FailureCountExact
<1>2. full => window # << >>
  BY <1>1, EmptySeq
<1>3. /\ kept \in Seq(BOOLEAN)
      /\ Len(kept) \in 0..(SlidingWindowSize - 1)
  <2>1. CASE full
    BY <1>1, <1>2, <2>1, HeadTailProperties
  <2>2. CASE ~full
    BY <1>1, <2>2
  <2> QED
    BY <2>1, <2>2
<1>4. Failures(kept)
        = failure_count - (IF full /\ ~window[1] THEN 1 ELSE 0)
  <2>1. CASE full
    BY <1>1, <1>2, <2>1, FailuresTail
  <2>2. CASE ~full
    BY <1>1, <2>2
  <2> QED
    BY <2>1, <2>2
<1>5. Failures(Append(kept, success))
        = Failures(kept) + (IF success THEN 0 ELSE 1)
  BY <1>3, FailuresAppend
<1>6. /\ window' = Append(kept, success)
      /\ failure_count' = failure_count - (IF full /\ ~window[1] THEN 1 ELSE 0)
                            + (IF success THEN 0 ELSE 1)
  BY DEF WindowRecord, WindowFull, EvictedFailure
<1>7. /\ window' \in Seq(BOOLEAN)
      /\ Len(window') \in 1..SlidingWindowSize
  BY <1>1, <1>3, <1>6, AppendProperties
<1>8. failure_count' = Failures(window')
  BY <1>4, <1>5, <1>6
<1> QED
  BY <1>1, <1>6, <1>7, <1>8

\* The types and the exact counter are inductive together: recording a window
\* that is full needs to know what is evicted and how it was counted.
WindowInv == TypeOK /\ FailureCountExact

LEMMA WindowInvInit == Init => WindowInv
<1> SUFFICES ASSUME Init PROVE WindowInv
  OBVIOUS
<1>1. FailureCountExact
  BY FailuresEmpty DEF Init, FailureCountExact
<1>2. TypeOK
  BY ConfigAssumption, EmptySeq DEF Init, TypeOK, States, Labels, Reports
<1> QED
  BY <1>1, <1>2 DEF WindowInv

\* A caller that leaves a lock section with a transition to report.
LEMMA OweTyped ==
    ASSUME TypeOK, NEW c \in Callers, NEW label \in {"announcing", "reporting"},
           NEW from, NEW to, <<from, to>> \in Edges,
           Goto(c, label), Owe(c, from, to)
    PROVE  /\ pc' \in [Callers -> Labels]
           /\ transitions' \in [Callers -> Reports]
           /\ \A d \in Callers :
                transitions'[d] # {} <=> pc'[d] \in {"announcing", "reporting"}
<1>1. /\ {<<from, to>>} \in Reports
      /\ {<<from, to>>} # {}
      /\ label \in Labels
  BY DEF Reports, Labels
<1> QED
  BY <1>1 DEF TypeOK, Goto, Owe

\* A caller that goes from one label without a report to another.
LEMMA GotoTyped ==
    ASSUME TypeOK, NEW c \in Callers, pc[c] \in {"idle", "rejecting", "running"},
           NEW label \in {"idle", "rejecting", "running"},
           Goto(c, label), UNCHANGED transitions
    PROVE  /\ pc' \in [Callers -> Labels]
           /\ transitions' \in [Callers -> Reports]
           /\ \A d \in Callers :
                transitions'[d] # {} <=> pc'[d] \in {"announcing", "reporting"}
<1>1. label \in Labels
  BY DEF Labels
<1> QED
  BY <1>1 DEF TypeOK, Goto

\* Asking for permission leaves the window alone and keeps the types.
LEMMA AcquireKeepsWindowInv ==
    ASSUME WindowInv, NEW c \in Callers, AcquireStep(c)
    PROVE  WindowInv'
<1> USE DEF WindowInv, TypeOK, FailureCountExact, lockVars, States
<1>1. CASE AcquireClosed(c)
  BY <1>1, GotoTyped DEF AcquireClosed
<1>2. CASE AcquireOpenElapsed(c)
  <2>1. <<"OPEN", "HALF_OPEN">> \in Edges
    BY DEF Edges
  <2>2. << >> \in Seq(BOOLEAN)
    BY EmptySeq
  <2>3. PermittedCalls - 1 \in 0..(PermittedCalls - 1)
    BY ConfigAssumption
  <2> QED
    BY <1>2, <2>1, <2>2, <2>3, OweTyped DEF AcquireOpenElapsed, FirstPermits
<1>3. CASE AcquireHalfOpen(c)
  BY <1>3, GotoTyped, ConfigAssumption DEF AcquireHalfOpen, PermitLeft
<1>4. CASE Reject(c)
  BY <1>4, GotoTyped DEF Reject
<1>5. CASE RaiseRejected(c)
  BY <1>5, GotoTyped DEF RaiseRejected
<1> QED
  BY <1>1, <1>2, <1>3, <1>4, <1>5 DEF AcquireStep

\* Reporting a transition changes only the listener's view.
LEMMA EmitKeepsWindowInv ==
    ASSUME WindowInv, NEW c \in Callers, EmitTransitions(c)
    PROVE  WindowInv'
<1>1. PICK edge \in transitions[c] :
        /\ pc[c] \in {"announcing", "reporting"}
        /\ Emit(edge)
        /\ transitions' = [transitions EXCEPT ![c] = {}]
        /\ Goto(c, IF pc[c] = "announcing" THEN "running" ELSE "idle")
        /\ UNCHANGED <<lockVars, called_in>>
  BY DEF EmitTransitions
<1>2. tally' \in [States -> Int]
  BY <1>1 DEF WindowInv, TypeOK, Emit
<1>3. {} \in Reports
  BY DEF Reports
<1> QED
  BY <1>1, <1>2, <1>3
     DEF WindowInv, TypeOK, FailureCountExact, lockVars, Goto, Labels

\* A verdict, recorded, dropped or never given, keeps the types and the count.
LEMMA RecordKeepsWindowInv ==
    ASSUME WindowInv, NEW c \in Callers, NEW success \in BOOLEAN,
           \/ RecordClosed(c, success)
           \/ RecordProbe(c, success)
           \/ DropStale(c)
           \/ FinishUnrecorded(c)
    PROVE  WindowInv'
<1> USE DEF WindowInv, FailureCountExact, lockVars, States
<1>1. CASE RecordClosed(c, success)
  <2>1. /\ window' \in Seq(BOOLEAN)
        /\ Len(window') \in 1..SlidingWindowSize
        /\ failure_count' \in Int
        /\ failure_count' = Failures(window')
    BY <1>1, WindowRecordExact DEF RecordClosed
  <2>2. Len(window') <= SlidingWindowSize
    BY <2>1, ConfigAssumption
  <2>3. <<"CLOSED", "OPEN">> \in Edges /\ 0 \in 0..WaitDuration
    BY ConfigAssumption DEF Edges
  <2>4. CASE LeaveOwing(c, "CLOSED", "OPEN") /\ state' = "OPEN"
                                            /\ sinceOpened' = 0
    BY <1>1, <2>1, <2>2, <2>3, <2>4, OweTyped
       DEF RecordClosed, LeaveOwing, TypeOK
  <2>5. CASE Leave(c) /\ UNCHANGED <<state, sinceOpened>>
    BY <1>1, <2>1, <2>2, <2>5, GotoTyped DEF RecordClosed, Leave, TypeOK
  <2> QED
    BY <1>1, <2>4, <2>5 DEF RecordClosed
<1>2. CASE RecordProbe(c, success)
  <2>1. half_open_results' \in Seq(BOOLEAN)
    BY <1>2, AppendProperties DEF RecordProbe, TypeOK
  <2>2. /\ <<"HALF_OPEN", "OPEN">> \in Edges
        /\ <<"HALF_OPEN", "CLOSED">> \in Edges
        /\ 0 \in 0..WaitDuration
    BY ConfigAssumption DEF Edges
  <2>3. /\ << >> \in Seq(BOOLEAN)
        /\ Len(<< >>) <= SlidingWindowSize
        /\ Failures(<< >>) = 0
    BY ConfigAssumption, EmptySeq, FailuresEmpty
  <2>4. CASE Leave(c) /\ UNCHANGED <<state, window, failure_count, sinceOpened>>
    BY <1>2, <2>1, <2>4, GotoTyped DEF RecordProbe, Leave, TypeOK
  <2>5. CASE ProbeReopens(c)
    BY <1>2, <2>1, <2>2, <2>5, OweTyped
       DEF RecordProbe, ProbeReopens, LeaveOwing, TypeOK
  <2>6. CASE ProbeCloses(c)
    BY <1>2, <2>1, <2>2, <2>3, <2>6, OweTyped
       DEF RecordProbe, ProbeCloses, LeaveOwing, TypeOK
  <2> QED
    BY <1>2, <2>4, <2>5, <2>6 DEF RecordProbe
<1>3. CASE DropStale(c)
  BY <1>3, GotoTyped DEF DropStale, Leave, TypeOK
<1>4. CASE FinishUnrecorded(c)
  BY <1>4, GotoTyped DEF FinishUnrecorded, Leave, TypeOK
<1> QED
  BY <1>1, <1>2, <1>3, <1>4

\* reset() empties the window and its counter together.
LEMMA ResetKeepsWindowInv ==
    ASSUME WindowInv, NEW c \in Callers, Reset(c)
    PROVE  WindowInv'
<1> USE DEF WindowInv, FailureCountExact
<1>1. /\ << >> \in Seq(BOOLEAN)
      /\ Len(<< >>) <= SlidingWindowSize
      /\ Failures(<< >>) = 0
      /\ 0 \in 0..(PermittedCalls - 1)
      /\ "CLOSED" \in States
  BY ConfigAssumption, EmptySeq, FailuresEmpty DEF States
<1>2. CASE state # "CLOSED"
  <2>1. <<state, "CLOSED">> \in Edges
    BY <1>2 DEF TypeOK, States, Edges
  <2> QED
    BY <1>1, <1>2, <2>1, OweTyped DEF Reset, ReportReset, LeaveOwing, TypeOK
<1>3. CASE state = "CLOSED"
  BY <1>1, <1>3, GotoTyped DEF Reset, ReportReset, Leave, TypeOK
<1> QED
  BY <1>2, <1>3

LEMMA WindowInvStep == WindowInv /\ [Next]_vars => WindowInv'
<1> SUFFICES ASSUME WindowInv, [Next]_vars PROVE WindowInv'
  OBVIOUS
<1>1. CASE Tick
  BY <1>1, ConfigAssumption DEF Tick, WindowInv, TypeOK, FailureCountExact
<1>2. ASSUME NEW c \in Callers, AcquireStep(c) PROVE WindowInv'
  BY <1>2, AcquireKeepsWindowInv
<1>3. ASSUME NEW c \in Callers, EmitTransitions(c) PROVE WindowInv'
  BY <1>3, EmitKeepsWindowInv
<1>4. ASSUME NEW c \in Callers, FinishUnrecorded(c) \/ RecordOutcome(c)
      PROVE WindowInv'
  BY <1>4, RecordKeepsWindowInv DEF RecordOutcome
<1>5. ASSUME NEW c \in Callers, Reset(c) PROVE WindowInv'
  BY <1>5, ResetKeepsWindowInv
<1>6. CASE UNCHANGED vars
  BY <1>6 DEF vars, WindowInv, TypeOK, FailureCountExact
<1> QED
  BY <1>1, <1>2, <1>3, <1>4, <1>5, <1>6 DEF Next, Execute, AcquireStep

\* Every reachable state is well typed, for every configuration.
THEOREM TypeCorrect == Spec => []TypeOK
<1>1. WindowInv => TypeOK
  BY DEF WindowInv
<1> QED
  BY <1>1, WindowInvInit, WindowInvStep, PTL DEF Spec

\* The failure counter kept beside the deque always equals the number of
\* failures in it, whatever the interleaving (260-278, 443-500).
THEOREM FailureCountAlwaysExact == Spec => []FailureCountExact
<1>1. WindowInv => FailureCountExact
  BY DEF WindowInv
<1> QED
  BY <1>1, WindowInvInit, WindowInvStep, PTL DEF Spec
-----------------------------------------------------------------------------
(* The window and the state.                                               *)

\* Only a recorded outcome, a closing verdict and reset() touch the window.
LEMMA ThresholdStep ==
    ASSUME WindowInv, ClosedBelowThreshold, [Next]_vars
    PROVE  ClosedBelowThreshold'
<1> USE DEF ClosedBelowThreshold
<1>1. CASE UNCHANGED <<state, window, failure_count>>
  BY <1>1
<1>2. CASE state' # "CLOSED"
  BY <1>2
<1>3. CASE window' = << >>
  BY <1>3, ConfigAssumption, EmptySeq
<1>4. ASSUME NEW c \in Callers, NEW success \in BOOLEAN, RecordClosed(c, success)
      PROVE  ClosedBelowThreshold'
  BY <1>2, <1>4 DEF RecordClosed, LeaveOwing, Trips
<1>5. ASSUME NEW c \in Callers, AcquireStep(c)
      PROVE  UNCHANGED <<state, window, failure_count>> \/ state' # "CLOSED"
  BY <1>5 DEF AcquireStep, AcquireClosed, AcquireOpenElapsed, AcquireHalfOpen,
              Reject, RaiseRejected, lockVars
<1>6. ASSUME NEW c \in Callers, NEW success \in BOOLEAN, RecordProbe(c, success)
      PROVE  \/ UNCHANGED <<state, window, failure_count>>
             \/ state' # "CLOSED"
             \/ window' = << >>
  BY <1>6 DEF RecordProbe, ProbeReopens, ProbeCloses
<1>7. ASSUME NEW c \in Callers,
             \/ EmitTransitions(c)
             \/ FinishUnrecorded(c)
             \/ DropStale(c)
      PROVE  UNCHANGED <<state, window, failure_count>>
  BY <1>7 DEF EmitTransitions, FinishUnrecorded, DropStale, lockVars
<1>8. ASSUME NEW c \in Callers, Reset(c) PROVE window' = << >>
  BY <1>8 DEF Reset
<1>9. Tick \/ UNCHANGED vars => UNCHANGED <<state, window, failure_count>>
  BY DEF Tick, vars
<1> HIDE DEF ClosedBelowThreshold
<1> QED
  BY <1>1, <1>2, <1>3, <1>4, <1>5, <1>6, <1>7, <1>8, <1>9
     DEF Next, Execute, AcquireStep, RecordOutcome

\* A closed breaker never rests at or above its threshold: whichever call
\* fills or changes the window trips it in the same lock section (455-460).
THEOREM ClosedStaysBelowThreshold == Spec => []ClosedBelowThreshold
<1>1. Init => ClosedBelowThreshold
  BY ConfigAssumption, EmptySeq DEF Init, ClosedBelowThreshold
<1> QED
  BY <1>1, WindowInvInit, WindowInvStep, ThresholdStep, PTL DEF Spec

-----------------------------------------------------------------------------
(* Half-open episodes, in a breaker nobody resets.                         *)

\* Adding and removing one probe.
LEMMA ProbesFinite ==
    IsFiniteSet(Probes) /\ Cardinality(Probes) \in Nat
<1>1. Probes \in SUBSET Callers
  BY DEF Probes
<1>2. IsFiniteSet(Probes)
  BY <1>1, EnvironmentAssumption, FS_Subset
<1> QED
  BY <1>2, FS_CardinalityType

\* If every probe's outcome is recorded, no permit is lost: the judgement
\* comes when, and only when, they have all come back.
NoPermitLost ==
    state = "HALF_OPEN" /\ Outcomes \cap {"ignored", "uncaught"} = {} =>
        /\ half_open_allowed + Cardinality(Probes) + Len(half_open_results)
             = PermittedCalls
        /\ Len(half_open_results) < PermittedCalls

\* The inductive invariant of an episode.
EpisodeInv == TypeOK /\ ProbeBudget /\ NoPermitLost

\* A step after which the probes, the state, the permits and the verdicts are
\* as before.
LEMMA EpisodeUndisturbed ==
    ASSUME EpisodeInv, UNCHANGED <<state, half_open_results, half_open_allowed>>,
           Probes' = Probes
    PROVE  ProbeBudget' /\ NoPermitLost'
BY DEF EpisodeInv, ProbeBudget, NoPermitLost

\* Permission: the first probe finds none in flight, and each further one
\* takes its permit from the pool.
LEMMA AcquireKeepsBudget ==
    ASSUME EpisodeInv, NEW c \in Callers, AcquireStep(c)
    PROVE  ProbeBudget' /\ NoPermitLost'
<1> USE DEF EpisodeInv, TypeOK, Goto, lockVars
<1>1. CASE AcquireClosed(c) \/ Reject(c) \/ RaiseRejected(c)
  <2>1. Probes' = Probes
    BY <1>1 DEF AcquireClosed, Reject, RaiseRejected, Probes
  <2> QED
    BY <1>1, <2>1, EpisodeUndisturbed
       DEF AcquireClosed, Reject, RaiseRejected
<1>2. CASE AcquireOpenElapsed(c)
  <2>1. Probes = {}
    BY <1>2 DEF AcquireOpenElapsed, ProbeBudget
  <2>2. Probes' = {c}
    BY <1>2, <2>1 DEF AcquireOpenElapsed, Probes
  <2>3. Cardinality(Probes') = 1
    BY <2>2, FS_Singleton
  <2>4. /\ half_open_allowed' = PermittedCalls - 1
        /\ Len(half_open_results') = 0
        /\ state' = "HALF_OPEN"
    BY <1>2, EmptySeq DEF AcquireOpenElapsed, FirstPermits
  <2> QED
    BY <2>3, <2>4, ConfigAssumption DEF ProbeBudget, NoPermitLost
<1>3. CASE AcquireHalfOpen(c)
  <2>1. Probes' = Probes \cup {c} /\ c \notin Probes
    BY <1>3 DEF AcquireHalfOpen, Probes
  <2>2. Cardinality(Probes') = Cardinality(Probes) + 1
    BY <2>1, ProbesFinite, FS_AddElement
  <2>3. Len(half_open_results) \in Nat
    BY LenProperties
  <2>4. /\ state = "HALF_OPEN" /\ state' = "HALF_OPEN"
        /\ half_open_results' = half_open_results
        /\ half_open_allowed' = half_open_allowed - 1
        /\ half_open_allowed \in Nat /\ PermittedCalls \in Nat
    BY <1>3, ConfigAssumption DEF AcquireHalfOpen, PermitLeft
  <2>5. ProbeBudget'
    BY <2>2, <2>3, <2>4, ProbesFinite DEF ProbeBudget
  <2>6. NoPermitLost'
    BY <2>2, <2>3, <2>4, ProbesFinite DEF NoPermitLost
  <2> QED
    BY <2>5, <2>6
<1> QED
  BY <1>1, <1>2, <1>3 DEF AcquireStep
\* Reporting a transition moves a probe from one side of its permit's life to
\* the other.
LEMMA EmitKeepsBudget ==
    ASSUME EpisodeInv, NEW c \in Callers, EmitTransitions(c)
    PROVE  ProbeBudget' /\ NoPermitLost'
<1>1. /\ pc[c] \in {"announcing", "reporting"}
      /\ Goto(c, IF pc[c] = "announcing" THEN "running" ELSE "idle")
      /\ UNCHANGED <<lockVars, called_in>>
  BY DEF EmitTransitions
<1>2. Probes' = Probes
  BY <1>1 DEF Goto, Probes, EpisodeInv, TypeOK
<1> QED
  BY <1>1, <1>2, EpisodeUndisturbed DEF lockVars

\* A call that ends takes itself, and nobody else, out of the probes.
LEMMA LeaverIsNoProbe ==
    ASSUME TypeOK, NEW c \in Callers, pc[c] = "running",
           \/ Leave(c)
           \/ \E from, to \in States : LeaveOwing(c, from, to)
    PROVE  Probes' = Probes \ {c}
BY DEF TypeOK, Leave, LeaveOwing, Goto, Probes

\* What a verdict finds: the probe that gives it, and, if it ends the episode,
\* no other probe and no permit.
LEMMA VerdictFacts ==
    ASSUME EpisodeInv, NEW c \in Callers, NEW success \in BOOLEAN,
           RecordProbe(c, success)
    PROVE  /\ Probes' = Probes \ {c}
           /\ Cardinality(Probes') = Cardinality(Probes) - 1
           /\ Len(half_open_results') = Len(half_open_results) + 1
           /\ half_open_allowed' = half_open_allowed
           /\ \/ /\ state' = "HALF_OPEN"
                 /\ Len(half_open_results') < PermittedCalls
              \/ /\ state' \in {"OPEN", "CLOSED"}
                 /\ half_open_allowed = 0
                 /\ Len(half_open_results) = PermittedCalls - 1
                 /\ Probes = {c}
<1>1. /\ c \in Probes
      /\ pc[c] = "running"
      /\ state = "HALF_OPEN"
      /\ half_open_results' = Append(half_open_results, success)
      /\ half_open_allowed' = half_open_allowed
  BY DEF RecordProbe, Probes
<1>2. \/ Leave(c) /\ state' = state /\ Len(half_open_results') < PermittedCalls
      \/ /\ \E from, to \in States : LeaveOwing(c, from, to)
         /\ state' \in {"OPEN", "CLOSED"}
         /\ ~(Len(half_open_results') < PermittedCalls)
  <2>1. Len(half_open_results') \in Nat /\ PermittedCalls \in Nat
    BY <1>1, LenProperties, AppendProperties, ConfigAssumption
       DEF EpisodeInv, TypeOK
  <2>2. \/ Leave(c) /\ state' = state /\ ~AllProbesIn(half_open_results')
        \/ /\ \E from, to \in States : LeaveOwing(c, from, to)
           /\ state' \in {"OPEN", "CLOSED"}
           /\ AllProbesIn(half_open_results')
    BY DEF RecordProbe, ProbeReopens, ProbeCloses, States
  <2> QED
    BY <2>1, <2>2 DEF AllProbesIn
<1>3. Probes' = Probes \ {c}
  BY <1>1, <1>2, LeaverIsNoProbe DEF EpisodeInv
<1>4. /\ Cardinality(Probes') = Cardinality(Probes) - 1
      /\ Cardinality(Probes) \in Nat \ {0}
  <2>1. Cardinality(Probes') = Cardinality(Probes) - 1
    BY <1>1, <1>3, ProbesFinite, FS_RemoveElement
  <2> QED
    BY <1>1, <2>1, ProbesFinite, FS_EmptySet
<1>5. /\ Len(half_open_results') = Len(half_open_results) + 1
      /\ Len(half_open_results) \in Nat
  BY <1>1, LenProperties, AppendProperties DEF EpisodeInv, TypeOK
<1>6. /\ half_open_allowed \in Nat
      /\ PermittedCalls \in Nat
      /\ half_open_allowed + Cardinality(Probes) + Len(half_open_results)
           <= PermittedCalls
  BY <1>1, ConfigAssumption DEF EpisodeInv, TypeOK, ProbeBudget
<1>7. ASSUME ~(Len(half_open_results') < PermittedCalls)
      PROVE  /\ half_open_allowed = 0
             /\ Len(half_open_results) = PermittedCalls - 1
             /\ Probes = {c}
  <2>1. /\ half_open_allowed = 0
        /\ Len(half_open_results) = PermittedCalls - 1
        /\ Cardinality(Probes) = 1
    BY <1>4, <1>5, <1>6, <1>7
  <2> QED
    BY <1>1, <2>1, ProbesFinite, FS_Singleton
<1> QED
  BY <1>1, <1>2, <1>3, <1>4, <1>5, <1>7

\* A verdict moves one from the probes to the results, or ends the episode.
LEMMA VerdictKeepsBudget ==
    ASSUME EpisodeInv, NEW c \in Callers, NEW success \in BOOLEAN,
           RecordProbe(c, success)
    PROVE  ProbeBudget' /\ NoPermitLost'
<1>1. /\ state = "HALF_OPEN"
      /\ half_open_allowed \in Nat
      /\ Len(half_open_results) \in Nat
      /\ Cardinality(Probes) \in Nat
  BY LenProperties, ProbesFinite, ConfigAssumption
     DEF RecordProbe, EpisodeInv, TypeOK
<1> QED
  BY <1>1, VerdictFacts DEF EpisodeInv, ProbeBudget, NoPermitLost

\* Every other end of a call: a lost permit can only shrink the sum.
LEMMA FinishKeepsBudget ==
    ASSUME EpisodeInv, NEW c \in Callers,
           \/ FinishUnrecorded(c)
           \/ DropStale(c)
           \/ \E success \in BOOLEAN : RecordClosed(c, success)
    PROVE  ProbeBudget' /\ NoPermitLost'
<1> USE DEF EpisodeInv
<1>1. CASE FinishUnrecorded(c)
  <2>1. Probes' = Probes \ {c}
    BY <1>1, LeaverIsNoProbe DEF FinishUnrecorded
  <2>2. Cardinality(Probes') <= Cardinality(Probes) /\ Cardinality(Probes') \in Nat
    <3>1. Probes \ {c} \in SUBSET Probes
      OBVIOUS
    <3> QED
      BY <2>1, <3>1, ProbesFinite, FS_Subset, FS_CardinalityType
  <2>3. half_open_allowed \in Nat /\ Len(half_open_results) \in Nat
    BY LenProperties, ConfigAssumption DEF TypeOK
  <2>4. /\ UNCHANGED <<state, half_open_results, half_open_allowed>>
        /\ Outcomes \cap {"ignored", "uncaught"} # {}
    BY <1>1 DEF FinishUnrecorded, lockVars
  <2>5. NoPermitLost'
    BY <2>4 DEF NoPermitLost
  <2>6. Probes' # {} => state' = "HALF_OPEN"
    BY <2>1, <2>4 DEF ProbeBudget
  <2>7. ASSUME state' = "HALF_OPEN"
        PROVE  half_open_allowed' + Cardinality(Probes')
                 + Len(half_open_results') <= PermittedCalls
    <3>1. half_open_allowed + Cardinality(Probes) + Len(half_open_results)
            <= PermittedCalls
      BY <2>4, <2>7 DEF ProbeBudget
    <3> QED
      BY <2>2, <2>3, <2>4, <3>1, ProbesFinite, ConfigAssumption
  <2> QED
    BY <2>5, <2>6, <2>7 DEF ProbeBudget
<1>2. CASE DropStale(c)
  <2>1. c \notin Probes
    BY <1>2 DEF DropStale, Probes, ProbeBudget
  <2>2. Probes' = Probes
    BY <1>2, <2>1, LeaverIsNoProbe DEF DropStale
  <2> QED
    BY <1>2, <2>2, EpisodeUndisturbed DEF DropStale, lockVars
<1>3. ASSUME NEW success \in BOOLEAN, RecordClosed(c, success)
      PROVE  ProbeBudget' /\ NoPermitLost'
  <2>1. state' # "HALF_OPEN" /\ Probes = {}
    BY <1>3 DEF RecordClosed, ProbeBudget
  <2>2. \/ Leave(c)
        \/ \E from, to \in States : LeaveOwing(c, from, to)
    BY <1>3 DEF RecordClosed, States
  <2>3. Probes' = {}
    BY <1>3, <2>1, <2>2, LeaverIsNoProbe DEF RecordClosed
  <2> QED
    BY <2>1, <2>3 DEF ProbeBudget, NoPermitLost
<1> QED
  BY <1>1, <1>2, <1>3

LEMMA EpisodeInvInit == Init => EpisodeInv
<1> SUFFICES ASSUME Init PROVE EpisodeInv
  OBVIOUS
<1>1. TypeOK
  BY WindowInvInit DEF WindowInv
<1>2. state = "CLOSED" /\ Probes = {}
  BY DEF Init, Probes
<1> QED
  BY <1>1, <1>2 DEF EpisodeInv, ProbeBudget, NoPermitLost

LEMMA EpisodeInvStep ==
    ASSUME ~ResetAllowed
    PROVE  WindowInv /\ EpisodeInv /\ [Next]_vars => EpisodeInv'
<1> SUFFICES ASSUME WindowInv, EpisodeInv, [Next]_vars PROVE EpisodeInv'
  OBVIOUS
<1>1. TypeOK'
  BY WindowInvStep DEF WindowInv
<1>2. CASE Tick \/ UNCHANGED vars
  <2>1. /\ UNCHANGED <<state, half_open_results, half_open_allowed>>
        /\ Probes' = Probes
    BY <1>2 DEF Tick, vars, Probes
  <2> QED
    BY <1>1, <2>1, EpisodeUndisturbed DEF EpisodeInv
<1>3. ASSUME NEW c \in Callers, Execute(c)
      PROVE  ProbeBudget' /\ NoPermitLost'
  <2>1. CASE AcquireStep(c)
    BY <2>1, AcquireKeepsBudget
  <2>2. CASE EmitTransitions(c)
    BY <2>2, EmitKeepsBudget
  <2>3. CASE RecordOutcome(c) \/ FinishUnrecorded(c)
    BY <2>3, VerdictKeepsBudget, FinishKeepsBudget DEF RecordOutcome
  <2> QED
    BY <1>3, <2>1, <2>2, <2>3 DEF Execute, AcquireStep
<1>4. ASSUME NEW c \in Callers PROVE ~Reset(c)
  BY DEF Reset
<1> QED
  BY <1>1, <1>2, <1>3, <1>4 DEF Next, EpisodeInv

\* Without reset(), the permits, the probes and the verdicts of a half-open
\* episode stay within the permitted number, for any mixture of outcomes, and
\* no probe outlives its episode (360-385, 465-490).
THEOREM ProbesWithinBudget ==
    ASSUME ~ResetAllowed
    PROVE  Spec => []ProbeBudget
<1>1. EpisodeInv => ProbeBudget
  BY DEF EpisodeInv
<1> QED
  BY <1>1, WindowInvInit, WindowInvStep, EpisodeInvInit, EpisodeInvStep, PTL
     DEF Spec

\* If moreover every outcome is recorded, a half-open breaker always has a
\* permit to give or a probe to wait for: it can be resolved.
THEOREM HalfOpenStaysResolvable ==
    ASSUME ~ResetAllowed, Outcomes \cap {"ignored", "uncaught"} = {}
    PROVE  Spec => []HalfOpenResolvable
<1>1. EpisodeInv => HalfOpenResolvable
  <2> SUFFICES ASSUME EpisodeInv, state = "HALF_OPEN", Probes = {}
               PROVE  half_open_allowed > 0
    BY DEF HalfOpenResolvable
  <2>1. /\ half_open_allowed \in Nat
        /\ Len(half_open_results) \in Nat
    BY LenProperties, ConfigAssumption DEF EpisodeInv, TypeOK
  <2>2. Cardinality(Probes) = 0
    BY FS_EmptySet
  <2> QED
    BY <2>1, <2>2, ConfigAssumption DEF EpisodeInv, NoPermitLost
<1> QED
  BY <1>1, WindowInvInit, WindowInvStep, EpisodeInvInit, EpisodeInvStep, PTL
     DEF Spec
-----------------------------------------------------------------------------
(* The judgement, and the abstract state machine.                          *)

\* Only a verdict takes a breaker that nobody resets out of HALF_OPEN.
LEMMA LeavingHalfOpen ==
    ASSUME ~ResetAllowed, [Next]_vars, state = "HALF_OPEN", state' # "HALF_OPEN"
    PROVE  \E c \in Callers, success \in BOOLEAN : RecordProbe(c, success)
<1>1. ASSUME NEW c \in Callers,
             \/ AcquireStep(c)
             \/ EmitTransitions(c)
             \/ FinishUnrecorded(c)
             \/ DropStale(c)
             \/ \E success \in BOOLEAN : RecordClosed(c, success)
      PROVE  FALSE
  BY <1>1 DEF AcquireStep, AcquireClosed, AcquireOpenElapsed, AcquireHalfOpen,
              Reject, RaiseRejected, EmitTransitions, FinishUnrecorded,
              DropStale, RecordClosed, lockVars
<1>2. ASSUME NEW c \in Callers, Reset(c) PROVE FALSE
  BY <1>2 DEF Reset
<1>3. ~Tick /\ ~UNCHANGED vars
  BY DEF Tick, vars
<1> QED
  BY <1>1, <1>2, <1>3 DEF Next, Execute, AcquireStep, RecordOutcome

\* A breaker nobody resets is judged by the last of its permitted probes
\* ("Once all probes complete the failure rate is re-evaluated", 15-17).
THEOREM AlwaysJudgedAfterAllProbes ==
    ASSUME ~ResetAllowed
    PROVE  Spec => JudgedAfterAllProbes
<1>1. ASSUME EpisodeInv, [Next]_vars
      PROVE  [Judged => /\ half_open_allowed = 0
                        /\ \A c \in Probes : pc'[c] # pc[c]]_vars
  <2> SUFFICES ASSUME Judged
               PROVE  /\ half_open_allowed = 0
                      /\ \A d \in Probes : pc'[d] # pc[d]
    OBVIOUS
  <2>1. PICK c \in Callers, success \in BOOLEAN : RecordProbe(c, success)
    BY <1>1, LeavingHalfOpen DEF Judged
  <2>2. half_open_allowed = 0 /\ Probes = {c}
    BY <1>1, <2>1, VerdictFacts DEF Judged
  <2>3. pc[c] = "running" /\ pc'[c] # "running"
    BY <1>1, <2>1 DEF EpisodeInv, TypeOK, RecordProbe, ProbeReopens,
                      ProbeCloses, Leave, LeaveOwing, Goto
  <2> QED
    BY <2>2, <2>3
<1> QED
  BY <1>1, WindowInvInit, WindowInvStep, EpisodeInvInit, EpisodeInvStep, PTL
     DEF Spec, JudgedAfterAllProbes

\* A step that the abstract machine does not see.
LEMMA ProtocolStutter ==
    ASSUME UNCHANGED <<state, half_open_results, half_open_allowed>>
    PROVE  UNCHANGED Protocol!protocolVars
BY DEF Protocol!protocolVars

\* Every step of the code is a step of the abstract machine or a stutter.
LEMMA ProtocolStep ==
    ASSUME ~ResetAllowed, EpisodeInv, [Next]_vars
    PROVE  [Protocol!Next]_(Protocol!protocolVars)
<1>1. /\ half_open_allowed \in 0..(PermittedCalls - 1)
      /\ Len(half_open_results) \in Nat
      /\ PermittedCalls \in Nat \ {0}
      /\ state \in States
  BY LenProperties, ConfigAssumption DEF EpisodeInv, TypeOK
<1>2. CASE UNCHANGED <<state, half_open_results, half_open_allowed>>
  BY <1>2, ProtocolStutter
<1>3. ASSUME NEW c \in Callers,
             \/ AcquireClosed(c)
             \/ Reject(c)
             \/ RaiseRejected(c)
             \/ EmitTransitions(c)
             \/ FinishUnrecorded(c)
             \/ DropStale(c)
      PROVE  UNCHANGED <<state, half_open_results, half_open_allowed>>
  BY <1>3 DEF AcquireClosed, Reject, RaiseRejected, EmitTransitions,
              FinishUnrecorded, DropStale, lockVars
<1>4. ASSUME NEW c \in Callers, AcquireOpenElapsed(c)
      PROVE  Protocol!FirstProbe
  <2>1. /\ state = "OPEN" /\ state' = "HALF_OPEN"
        /\ PermittedCalls - half_open_allowed' = 1
        /\ Len(half_open_results') = 0
    BY <1>1, <1>4, EmptySeq DEF AcquireOpenElapsed, FirstPermits
  <2> QED
    BY <2>1 DEF Protocol!FirstProbe
<1>5. ASSUME NEW c \in Callers, AcquireHalfOpen(c)
      PROVE  Protocol!Grant
  BY <1>1, <1>5 DEF AcquireHalfOpen, PermitLeft, Protocol!Grant
<1>6. ASSUME NEW c \in Callers, NEW success \in BOOLEAN, RecordClosed(c, success)
      PROVE  Protocol!Trip \/ UNCHANGED Protocol!protocolVars
  <2>1. /\ state = "CLOSED" /\ state' \in {"CLOSED", "OPEN"}
        /\ UNCHANGED <<half_open_results, half_open_allowed>>
    BY <1>6 DEF RecordClosed
  <2> QED
    BY <2>1 DEF Protocol!Trip, Protocol!protocolVars
<1>7. ASSUME NEW c \in Callers, NEW success \in BOOLEAN, RecordProbe(c, success)
      PROVE  Protocol!Verdict \/ Protocol!Decide
  <2>1. /\ state = "HALF_OPEN"
        /\ half_open_allowed' = half_open_allowed
        /\ Len(half_open_results') = Len(half_open_results) + 1
    BY <1>7, VerdictFacts DEF RecordProbe
  <2>2. CASE state' = "HALF_OPEN" /\ Len(half_open_results') < PermittedCalls
    <3>1. Cardinality(Probes) \in Nat \ {0}
      BY <1>7, ProbesFinite, FS_EmptySet DEF RecordProbe, Probes
    <3>2. half_open_allowed + Cardinality(Probes) + Len(half_open_results)
            <= PermittedCalls
      BY <2>1 DEF EpisodeInv, ProbeBudget
    <3>3. Len(half_open_results) < PermittedCalls - half_open_allowed
      BY <1>1, <3>1, <3>2
    <3> QED
      BY <1>1, <2>1, <2>2, <3>3 DEF Protocol!Verdict
  <2>3. CASE /\ state' \in {"OPEN", "CLOSED"}
             /\ half_open_allowed = 0
             /\ Len(half_open_results) = PermittedCalls - 1
    BY <1>1, <2>1, <2>3 DEF Protocol!Decide
  <2> QED
    BY <1>7, <2>2, <2>3, VerdictFacts
<1>8. ASSUME NEW c \in Callers PROVE ~Reset(c)
  BY DEF Reset
<1>9. Tick \/ UNCHANGED vars
        => UNCHANGED <<state, half_open_results, half_open_allowed>>
  BY DEF Tick, vars
<1> QED
  BY <1>2, <1>3, <1>4, <1>5, <1>6, <1>7, <1>8, <1>9
     DEF Next, Execute, RecordOutcome, Protocol!Next

\* The breaker, without reset(), implements the advertised state machine for
\* any callers, outcomes and configuration.
THEOREM BreakerImplementsProtocol ==
    ASSUME ~ResetAllowed
    PROVE  Spec => ImplementsProtocol
<1>1. Init => Protocol!Init
  BY DEF Init, Protocol!Init
<1>2. EpisodeInv /\ [Next]_vars => [Protocol!Next]_(Protocol!protocolVars)
  BY ProtocolStep
<1> QED
  BY <1>1, <1>2, WindowInvInit, WindowInvStep, EpisodeInvInit, EpisodeInvStep,
     PTL DEF Spec, ImplementsProtocol, Protocol!Spec

-----------------------------------------------------------------------------
(* What the listeners were told, and what they have yet to be told.         *)

\* The callers that owe a report of a transition into, or out of, a state.
Entering(s) == {c \in Callers : \E e \in transitions[c] : e[2] = s}
Leaving(s) == {c \in Callers : \E e \in transitions[c] : e[1] = s}

\* What a step may do to the state, the reports owed and the tally.
Quiet == UNCHANGED <<state, transitions, tally>>

Moves(c, from, to) ==
    /\ state = from /\ state' = to /\ <<from, to>> \in Edges
    /\ transitions[c] = {} /\ Owe(c, from, to) /\ UNCHANGED tally

Tells(c, e) ==
    /\ e \in Edges /\ transitions[c] = {e} /\ Emit(e)
    /\ transitions' = [transitions EXCEPT ![c] = {}] /\ UNCHANGED state

LEMMA ReportStep ==
    ASSUME TypeOK, [Next]_vars
    PROVE  \/ Quiet
           \/ \E c \in Callers : \/ \E from, to \in States : Moves(c, from, to)
                                 \/ \E e \in Edges : Tells(c, e)
<1> DEFINE Claim == \/ Quiet
                    \/ \E c \in Callers :
                         \/ \E from, to \in States : Moves(c, from, to)
                         \/ \E e \in Edges : Tells(c, e)
<1>1. \A c \in Callers : pc[c] \in {"idle", "rejecting", "running"} => transitions[c] = {}
  BY DEF TypeOK, Labels
<1>2. ASSUME NEW c \in Callers, AcquireStep(c) PROVE Claim
  <2>1. CASE AcquireOpenElapsed(c)
    <3>1. Moves(c, "OPEN", "HALF_OPEN")
      BY <1>1, <2>1 DEF AcquireOpenElapsed, Moves, Edges
    <3> QED
      BY <3>1 DEF States
  <2>2. CASE ~AcquireOpenElapsed(c)
    BY <1>2, <2>2 DEF AcquireStep, AcquireClosed, AcquireHalfOpen, Reject,
                      RaiseRejected, lockVars, Quiet
  <2> QED
    BY <2>1, <2>2
<1>3. ASSUME NEW c \in Callers, EmitTransitions(c) PROVE Claim
  <2>1. PICK e \in transitions[c] :
               /\ Emit(e) /\ transitions' = [transitions EXCEPT ![c] = {}]
               /\ UNCHANGED lockVars
    BY <1>3 DEF EmitTransitions
  <2>2. e \in Edges /\ transitions[c] = {e}
    BY <2>1 DEF TypeOK, Reports
  <2>3. Tells(c, e)
    BY <2>1, <2>2 DEF Tells, lockVars
  <2> QED
    BY <2>2, <2>3
<1>4. ASSUME NEW c \in Callers, FinishUnrecorded(c) \/ DropStale(c) PROVE Claim
  BY <1>4 DEF FinishUnrecorded, DropStale, Leave, lockVars, Quiet
<1>5. ASSUME NEW c \in Callers, NEW success, RecordClosed(c, success) PROVE Claim
  <2>1. CASE Trips(failure_count', Len(window'))
    <3>1. Moves(c, "CLOSED", "OPEN")
      BY <1>1, <1>5, <2>1 DEF RecordClosed, LeaveOwing, Moves, Edges
    <3> QED
      BY <3>1 DEF States
  <2>2. CASE ~Trips(failure_count', Len(window'))
    BY <1>5, <2>2 DEF RecordClosed, Leave, Quiet
  <2> QED
    BY <2>1, <2>2
<1>6. ASSUME NEW c \in Callers, NEW success, RecordProbe(c, success) PROVE Claim
  <2>1. pc[c] = "running" /\ state = "HALF_OPEN" /\ UNCHANGED tally
    BY <1>6 DEF RecordProbe
  <2>2. CASE ProbeReopens(c)
    <3>1. Moves(c, "HALF_OPEN", "OPEN")
      BY <1>1, <2>1, <2>2 DEF ProbeReopens, LeaveOwing, Moves, Edges
    <3> QED
      BY <3>1 DEF States
  <2>3. CASE ProbeCloses(c)
    <3>1. Moves(c, "HALF_OPEN", "CLOSED")
      BY <1>1, <2>1, <2>3 DEF ProbeCloses, LeaveOwing, Moves, Edges
    <3> QED
      BY <3>1 DEF States
  <2>4. CASE Leave(c) /\ UNCHANGED state
    BY <2>1, <2>4 DEF Leave, Quiet
  <2> QED
    BY <1>6, <2>2, <2>3, <2>4 DEF RecordProbe
<1>7. ASSUME NEW c \in Callers, Reset(c) PROVE Claim
  <2>1. pc[c] = "idle" /\ state' = "CLOSED" /\ UNCHANGED tally
    BY <1>7 DEF Reset
  <2>2. CASE state = "CLOSED"
    BY <1>7, <2>1, <2>2 DEF Reset, ReportReset, Leave, Quiet
  <2>3. CASE state # "CLOSED"
    <3>1. Moves(c, state, "CLOSED") /\ state \in States
      BY <1>1, <1>7, <2>1, <2>3
         DEF Reset, ReportReset, LeaveOwing, Moves, Edges, TypeOK, States
    <3> QED
      BY <3>1 DEF States
  <2> QED
    BY <2>2, <2>3
<1>8. CASE Tick \/ UNCHANGED vars
  BY <1>8 DEF Tick, vars, Quiet
<1> QED
  BY <1>2, <1>3, <1>4, <1>5, <1>6, <1>7, <1>8
     DEF Next, Execute, AcquireStep, RecordOutcome

\* Adding a caller to a set of them, or taking it out, counts for one.
LEMMA OneCaller ==
    ASSUME NEW S, S \subseteq Callers, NEW c \in Callers
    PROVE  /\ Cardinality(S) \in Nat
           /\ c \notin S => Cardinality(S \cup {c}) = Cardinality(S) + 1
           /\ c \in S => Cardinality(S \ {c}) = Cardinality(S) - 1
<1>1. IsFiniteSet(S)
  BY EnvironmentAssumption, FS_Subset
<1> QED
  BY <1>1, FS_CardinalityType, FS_AddElement, FS_RemoveElement

Balance(s) == tally[s] + Cardinality(Entering(s)) - Cardinality(Leaving(s))

LEMMA BalanceMoves ==
    ASSUME TypeOK, NEW c \in Callers, NEW from \in States, NEW to \in States,
           Moves(c, from, to), NEW s \in States
    PROVE  Balance(s)' = Balance(s) + (IF s = to THEN 1 ELSE 0)
                                    - (IF s = from THEN 1 ELSE 0)
<1>1. /\ transitions[c] = {} /\ tally' = tally
      /\ transitions' = [transitions EXCEPT ![c] = {<<from, to>>}]
  BY DEF Moves, Owe
<1>2. c \notin Entering(s) /\ c \notin Leaving(s)
  BY <1>1 DEF Entering, Leaving
<1> DEFINE e == <<from, to>>
<1>owed. e[1] = from /\ e[2] = to /\ transitions'[c] = {e}
      /\ \A d \in Callers \ {c} : transitions'[d] = transitions[d]
  BY <1>1 DEF TypeOK
<1> HIDE DEF e
<1>3. Entering(s)' = IF s = to THEN Entering(s) \cup {c} ELSE Entering(s)
  <2>1. c \in Entering(s)' <=> s = to
    BY <1>owed DEF Entering
  <2>2. \A d \in Callers \ {c} : d \in Entering(s)' <=> d \in Entering(s)
    BY <1>owed DEF Entering
  <2>3. Entering(s)' \subseteq Callers /\ Entering(s) \subseteq Callers
    BY DEF Entering
  <2> QED
    BY <1>2, <2>1, <2>2, <2>3
<1>4. Leaving(s)' = IF s = from THEN Leaving(s) \cup {c} ELSE Leaving(s)
  <2>1. c \in Leaving(s)' <=> s = from
    BY <1>owed DEF Leaving
  <2>2. \A d \in Callers \ {c} : d \in Leaving(s)' <=> d \in Leaving(s)
    BY <1>owed DEF Leaving
  <2>3. Leaving(s)' \subseteq Callers /\ Leaving(s) \subseteq Callers
    BY DEF Leaving
  <2> QED
    BY <1>2, <2>1, <2>2, <2>3
<1>5. Entering(s) \subseteq Callers /\ Leaving(s) \subseteq Callers
  BY DEF Entering, Leaving
<1>6. /\ Cardinality(Entering(s)) \in Nat /\ Cardinality(Leaving(s)) \in Nat
      /\ Cardinality(Entering(s)')
           = Cardinality(Entering(s)) + (IF s = to THEN 1 ELSE 0)
      /\ Cardinality(Leaving(s)')
           = Cardinality(Leaving(s)) + (IF s = from THEN 1 ELSE 0)
  <2>1. /\ Cardinality(Entering(s)) \in Nat
        /\ Cardinality(Entering(s) \cup {c}) = Cardinality(Entering(s)) + 1
    BY <1>2, <1>5, OneCaller
  <2>2. /\ Cardinality(Leaving(s)) \in Nat
        /\ Cardinality(Leaving(s) \cup {c}) = Cardinality(Leaving(s)) + 1
    BY <1>2, <1>5, OneCaller
  <2> QED
    BY <1>3, <1>4, <2>1, <2>2
<1>7. tally[s] \in Int
  BY DEF TypeOK
<1> QED
  BY <1>1, <1>6, <1>7 DEF Balance

LEMMA BalanceTells ==
    ASSUME TypeOK, NEW c \in Callers, NEW e \in Edges, Tells(c, e), NEW s \in States
    PROVE  Balance(s)' = Balance(s)
<1>1. /\ transitions[c] = {e} /\ transitions' = [transitions EXCEPT ![c] = {}]
      /\ e[1] # e[2]
  BY DEF Tells, Edges
<1>2. (c \in Entering(s) <=> e[2] = s) /\ (c \in Leaving(s) <=> e[1] = s)
  BY <1>1 DEF Entering, Leaving
<1>3. Entering(s)' = IF e[2] = s THEN Entering(s) \ {c} ELSE Entering(s)
  BY <1>1, <1>2 DEF Entering, TypeOK
<1>4. Leaving(s)' = IF e[1] = s THEN Leaving(s) \ {c} ELSE Leaving(s)
  BY <1>1, <1>2 DEF Leaving, TypeOK
<1>5. Entering(s) \subseteq Callers /\ Leaving(s) \subseteq Callers
  BY DEF Entering, Leaving
<1>6. /\ Cardinality(Entering(s)) \in Nat /\ Cardinality(Leaving(s)) \in Nat
      /\ Cardinality(Entering(s)')
           = Cardinality(Entering(s)) - (IF e[2] = s THEN 1 ELSE 0)
      /\ Cardinality(Leaving(s)')
           = Cardinality(Leaving(s)) - (IF e[1] = s THEN 1 ELSE 0)
  <2>1. /\ Cardinality(Entering(s)) \in Nat
        /\ e[2] = s => Cardinality(Entering(s) \ {c}) = Cardinality(Entering(s)) - 1
    BY <1>2, <1>5, OneCaller
  <2>2. /\ Cardinality(Leaving(s)) \in Nat
        /\ e[1] = s => Cardinality(Leaving(s) \ {c}) = Cardinality(Leaving(s)) - 1
    BY <1>2, <1>5, OneCaller
  <2> QED
    BY <1>3, <1>4, <2>1, <2>2
<1>7. tally[s] \in Int
  BY DEF TypeOK
<1>8. tally'[s] = tally[s] + (IF s = e[2] THEN 1 ELSE 0) - (IF s = e[1] THEN 1 ELSE 0)
  BY DEF Tells, Emit
<1> QED
  BY <1>6, <1>7, <1>8 DEF Balance

\* No transition is lost or told twice: what the listeners were told, with the
\* reports still owed, is the state, whatever order the reports arrive in.
THEOREM TallyAlwaysExact == Spec => []TallyExact
<1> DEFINE Exact == \A s \in States : Balance(s) = IF state = s THEN 1 ELSE 0
<1>1. Exact <=> TallyExact
  BY DEF TallyExact, Balance, Entering, Leaving
<1>2. Init => Exact
  <2> SUFFICES ASSUME Init, NEW s \in States
               PROVE  Balance(s) = IF state = s THEN 1 ELSE 0
    OBVIOUS
  <2>1. Entering(s) = {} /\ Leaving(s) = {}
    BY DEF Init, Entering, Leaving
  <2>2. Cardinality(Entering(s)) = 0 /\ Cardinality(Leaving(s)) = 0
    BY <2>1, FS_EmptySet
  <2> QED
    BY <2>2 DEF Init, Balance
<1>3. TypeOK /\ Exact /\ [Next]_vars => Exact'
  <2> SUFFICES ASSUME TypeOK, Exact, [Next]_vars, NEW s \in States
               PROVE  Balance(s)' = IF state' = s THEN 1 ELSE 0
    BY DEF States
  <2>1. CASE Quiet
    BY <2>1 DEF Quiet, Balance, Entering, Leaving
  <2>2. ASSUME NEW c \in Callers, NEW from \in States, NEW to \in States,
               Moves(c, from, to)
        PROVE  Balance(s)' = IF state' = s THEN 1 ELSE 0
    <3>1. state = from /\ state' = to /\ from # to
      BY <2>2 DEF Moves, Edges
    <3>2. Balance(s)' = Balance(s) + (IF s = to THEN 1 ELSE 0)
                                   - (IF s = from THEN 1 ELSE 0)
      BY <2>2, BalanceMoves
    <3> QED
      BY <3>1, <3>2
  <2>3. ASSUME NEW c \in Callers, NEW e \in Edges, Tells(c, e)
        PROVE  Balance(s)' = IF state' = s THEN 1 ELSE 0
    <3>1. Balance(s)' = Balance(s) /\ state' = state
      BY <2>3, BalanceTells DEF Tells
    <3> QED
      BY <3>1
  <2> QED
    BY <2>1, <2>2, <2>3, ReportStep
<1> HIDE DEF Exact
<1> QED
  BY <1>1, <1>2, <1>3, TypeCorrect, PTL DEF Spec
=============================================================================
