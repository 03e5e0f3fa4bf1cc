--------------------------- MODULE CircuitBreaker ---------------------------
(***************************************************************************)
(* One CircuitBreaker instance (src/pysilience/circuitbreaker.py) shared by *)
(* concurrent callers: threads in execute(), tasks in execute_async(), or   *)
(* both.  Every `with self._lock` section is one atomic action; everything  *)
(* between two sections (the guarded function, the listeners) interleaves.  *)
(*                                                                         *)
(* Abstractions.  Exceptions are reduced to what _on_complete tells apart   *)
(* (Outcomes).  time.monotonic() - _opened_at is the tick counter           *)
(* sinceOpened, saturated at the only value it is compared with.  The rate  *)
(* is compared as an exact fraction.  SUCCESS, ERROR and IGNORED_ERROR      *)
(* events change no state and are left out; STATE_TRANSITION events are     *)
(* kept, because they leave the lock section that caused them.              *)
(***************************************************************************)
EXTENDS Integers, Sequences, FiniteSets

CONSTANTS
    Callers,            \* threads or tasks that share the breaker
    SlidingWindowSize,  \* sliding_window_size
    MinimumCalls,       \* minimum_number_of_calls
    PermittedCalls,     \* permitted_number_of_calls_in_half_open_state
    WaitDuration,       \* wait_duration_in_open_state, in ticks
    ThresholdNum,       \* failure_rate_threshold = ThresholdNum / ThresholdDen
    ThresholdDen,
    Outcomes,           \* how a guarded call may end
    ResetAllowed        \* whether callers may also call reset()

\* What CircuitBreakerConfig.__post_init__ enforces.
LegalConfig ==
    /\ SlidingWindowSize \in Nat \ {0}
    /\ MinimumCalls \in 1..SlidingWindowSize
    /\ PermittedCalls \in Nat \ {0}
    /\ WaitDuration \in Nat
    /\ ThresholdDen \in Nat \ {0}
    /\ ThresholdNum \in 1..ThresholdDen

ASSUME ConfigAssumption == LegalConfig

\* "recorded"/"unrecorded": an Exception inside/outside record_exceptions;
\* "ignored": one in ignore_exceptions; "uncaught": a BaseException that is no
\* Exception (asyncio.CancelledError, KeyboardInterrupt).
ASSUME EnvironmentAssumption ==
    /\ IsFiniteSet(Callers)
    /\ Outcomes \subseteq
         {"success", "recorded", "unrecorded", "ignored", "uncaught"}
    /\ ResetAllowed \in BOOLEAN

VARIABLES
    state,              \* _state
    window,             \* _window: TRUE is a success, oldest first
    failure_count,      \* _failure_count
    half_open_results,  \* _half_open_results
    half_open_allowed,  \* _half_open_allowed
    sinceOpened,        \* ticks since _opened_at, at most WaitDuration
    pc,                 \* where each caller is
    called_in,          \* the state each running call was admitted in
    transitions,        \* the transition each caller has yet to report
    tally               \* per state, entries minus exits a listener was told

lockVars == <<state, window, failure_count, half_open_results,
              half_open_allowed, sinceOpened>>
vars == <<state, window, failure_count, half_open_results, half_open_allowed,
          sinceOpened, pc, called_in, transitions, tally>>

States == {"CLOSED", "OPEN", "HALF_OPEN"}

\* An outcome sequence of n calls with f failures is at or above the threshold.
AtThreshold(f, n) == f * ThresholdDen >= ThresholdNum * n

Failures(results) == Cardinality({i \in DOMAIN results : ~results[i]})

\* Calls that hold a half-open permit and have not given their verdict.
Probes == {c \in Callers : /\ called_in[c] = "HALF_OPEN"
                           /\ pc[c] \in {"announcing", "running"}}

Init ==
    /\ state = "CLOSED"
    /\ window = << >>
    /\ failure_count = 0
    /\ half_open_results = << >>
    /\ half_open_allowed = 0
    /\ sinceOpened = WaitDuration
    /\ pc = [c \in Callers |-> "idle"]
    /\ called_in = [c \in Callers |-> "CLOSED"]
    /\ transitions = [c \in Callers |-> {}]
    /\ tally = [s \in States |-> IF s = "CLOSED" THEN 1 ELSE 0]

Goto(c, label) == pc' = [pc EXCEPT ![c] = label]
Owe(c, from, to) == transitions' = [transitions EXCEPT ![c] = {<<from, to>>}]

-----------------------------------------------------------------------------
(* _acquire_permission *)

AcquireClosed(c) ==
    /\ pc[c] = "idle"
    /\ state = "CLOSED"
    /\ Goto(c, "running")
    /\ called_in' = [called_in EXCEPT ![c] = "CLOSED"]
    /\ UNCHANGED <<lockVars, transitions, tally>>

\* Mutation: the probe that opens the episode is not counted.
FirstPermitsUncounted == PermittedCalls

\* The call that opens the episode takes the first permit itself.
FirstPermits == PermittedCalls - 1

\* The first call after the wait makes the transition and is the first probe.
AcquireOpenElapsed(c) ==
    /\ pc[c] = "idle"
    /\ state = "OPEN"
    /\ sinceOpened >= WaitDuration
    /\ state' = "HALF_OPEN"
    /\ half_open_results' = << >>
    /\ half_open_allowed' = FirstPermits
    /\ Goto(c, "announcing")
    /\ called_in' = [called_in EXCEPT ![c] = "HALF_OPEN"]
    /\ Owe(c, "OPEN", "HALF_OPEN")
    /\ UNCHANGED <<window, failure_count, sinceOpened, tally>>

\* Mutation: off by one in the permit check.
PermitLeftOffByOne == half_open_allowed >= 0

PermitLeft == half_open_allowed > 0

AcquireHalfOpen(c) ==
    /\ pc[c] = "idle"
    /\ state = "HALF_OPEN"
    /\ PermitLeft
    /\ half_open_allowed' = half_open_allowed - 1
    /\ Goto(c, "running")
    /\ called_in' = [called_in EXCEPT ![c] = "HALF_OPEN"]
    /\ UNCHANGED <<state, window, failure_count, half_open_results,
                   sinceOpened, transitions, tally>>

Reject(c) ==
    /\ pc[c] = "idle"
    /\ \/ state = "OPEN" /\ sinceOpened < WaitDuration
       \/ state = "HALF_OPEN" /\ ~PermitLeft
    /\ Goto(c, "rejecting")
    /\ UNCHANGED <<lockVars, called_in, transitions, tally>>

\* The REJECTED event is emitted, and the error raised, outside the lock.
RaiseRejected(c) ==
    /\ pc[c] = "rejecting"
    /\ Goto(c, "idle")
    /\ UNCHANGED <<lockVars, called_in, transitions, tally>>

-----------------------------------------------------------------------------
(* The transition events: in execute() before the function runs, and at the *)
(* end of _on_complete() and reset(), always outside the lock.              *)

Emit(edge) ==
    tally' = [s \in States |->
                tally[s] + (IF s = edge[2] THEN 1 ELSE 0)
                         - (IF s = edge[1] THEN 1 ELSE 0)]

EmitTransitions(c) ==
    \E edge \in transitions[c] :
        /\ pc[c] \in {"announcing", "reporting"}
        /\ Emit(edge)
        /\ transitions' = [transitions EXCEPT ![c] = {}]
        /\ Goto(c, IF pc[c] = "announcing" THEN "running" ELSE "idle")
        /\ UNCHANGED <<lockVars, called_in>>

-----------------------------------------------------------------------------
(* The guarded call ends: _on_complete and _record_outcome                  *)

\* The caller's last lock section without, or with, a transition to report.
Leave(c) ==
    /\ Goto(c, "idle")
    /\ called_in' = [called_in EXCEPT ![c] = "CLOSED"]
    /\ UNCHANGED transitions

LeaveOwing(c, from, to) ==
    /\ Goto(c, "reporting")
    /\ called_in' = [called_in EXCEPT ![c] = "CLOSED"]
    /\ Owe(c, from, to)

WindowFull == Len(window) = SlidingWindowSize

\* Mutation: the newest outcome is inspected instead of the oldest.
EvictedFailureNewest ==
    IF WindowFull /\ ~window[Len(window)] THEN 1 ELSE 0

\* The failure, if it is one, that the full deque is about to drop.
EvictedFailure == IF WindowFull /\ ~window[1] THEN 1 ELSE 0

\* _window_record
WindowRecord(success) ==
    /\ window' = Append(IF WindowFull THEN Tail(window) ELSE window, success)
    /\ failure_count' =
         failure_count - EvictedFailure + (IF success THEN 0 ELSE 1)

\* An ignored exception returns before _record_outcome, and a BaseException
\* passes `except Exception`: neither reaches the lock.
FinishUnrecorded(c) ==
    /\ pc[c] = "running"
    /\ Outcomes \cap {"ignored", "uncaught"} # {}
    /\ Leave(c)
    /\ UNCHANGED <<lockVars, tally>>

\* Mutation: the rate must exceed the threshold.
TripsAbove(failures, total) ==
    total >= MinimumCalls /\ failures * ThresholdDen > ThresholdNum * total

\* Enough calls were recorded, and the rate meets or exceeds the threshold.
Trips(failures, total) ==
    total >= MinimumCalls /\ AtThreshold(failures, total)

RecordClosed(c, success) ==
    /\ pc[c] = "running"
    /\ called_in[c] = "CLOSED"
    /\ state = "CLOSED"
    /\ WindowRecord(success)
    /\ IF Trips(failure_count', Len(window'))
         THEN /\ state' = "OPEN"
              /\ sinceOpened' = 0
              /\ LeaveOwing(c, "CLOSED", "OPEN")
         ELSE /\ Leave(c)
              /\ UNCHANGED <<state, sinceOpened>>
    /\ UNCHANGED <<half_open_results, half_open_allowed, tally>>

\* A probe's verdict; the one that completes the set decides.
ProbeReopens(c) ==
    /\ state' = "OPEN"
    /\ sinceOpened' = 0
    /\ LeaveOwing(c, "HALF_OPEN", "OPEN")
    /\ UNCHANGED <<window, failure_count>>

\* Mutation: the window is emptied without its counter.
ProbeClosesKeepingCount(c) ==
    /\ state' = "CLOSED"
    /\ window' = << >>
    /\ LeaveOwing(c, "HALF_OPEN", "CLOSED")
    /\ UNCHANGED <<failure_count, sinceOpened>>

ProbeCloses(c) ==
    /\ state' = "CLOSED"
    /\ window' = << >>
    /\ failure_count' = 0
    /\ LeaveOwing(c, "HALF_OPEN", "CLOSED")
    /\ UNCHANGED sinceOpened

\* Mutation: waits for one verdict more than there are permits.
AllProbesInLate(results) == Len(results) > PermittedCalls

\* Mutation: judges as soon as the failures alone decide.
AllProbesInFailFast(results) ==
    \/ Len(results) >= PermittedCalls
    \/ AtThreshold(Failures(results), PermittedCalls)

AllProbesIn(results) == Len(results) >= PermittedCalls

RecordProbe(c, success) ==
    /\ pc[c] = "running"
    /\ called_in[c] = "HALF_OPEN"
    /\ state = "HALF_OPEN"
    /\ half_open_results' = Append(half_open_results, success)
    /\ IF ~AllProbesIn(half_open_results')
         THEN /\ Leave(c)
              /\ UNCHANGED <<state, window, failure_count, sinceOpened>>
         ELSE IF AtThreshold(Failures(half_open_results'),
                             Len(half_open_results'))
                THEN ProbeReopens(c)
                ELSE ProbeCloses(c)
    /\ UNCHANGED <<half_open_allowed, tally>>

\* The breaker has left the state the call was admitted in.
DropStale(c) ==
    /\ pc[c] = "running"
    /\ called_in[c] # state
    /\ Leave(c)
    /\ UNCHANGED <<lockVars, tally>>

\* Only a recorded exception is a failure; an unrecorded one is a success.
RecordOutcome(c) ==
    \E outcome \in Outcomes \ {"ignored", "uncaught"} :
        LET success == outcome # "recorded"
        IN  \/ RecordClosed(c, success)
            \/ RecordProbe(c, success)
            \/ DropStale(c)

-----------------------------------------------------------------------------
\* Mutation: the old state is read after it has been overwritten.
ReportResetFromNew(c) ==
    IF state' # "CLOSED" THEN LeaveOwing(c, state', "CLOSED") ELSE Leave(c)

\* A reset of a closed breaker reports nothing.
ReportReset(c) ==
    IF state # "CLOSED" THEN LeaveOwing(c, state, "CLOSED") ELSE Leave(c)

Reset(c) ==
    /\ ResetAllowed
    /\ pc[c] = "idle"
    /\ state' = "CLOSED"
    /\ window' = << >>
    /\ failure_count' = 0
    /\ half_open_results' = << >>
    /\ half_open_allowed' = 0
    /\ ReportReset(c)
    /\ UNCHANGED <<sinceOpened, tally>>

Tick ==
    /\ sinceOpened < WaitDuration
    /\ sinceOpened' = sinceOpened + 1
    /\ UNCHANGED <<state, window, failure_count, half_open_results,
                   half_open_allowed, pc, called_in, transitions, tally>>

\* Everything execute() does for one caller.
Execute(c) ==
    \/ AcquireClosed(c)
    \/ AcquireOpenElapsed(c)
    \/ AcquireHalfOpen(c)
    \/ Reject(c)
    \/ RaiseRejected(c)
    \/ EmitTransitions(c)
    \/ FinishUnrecorded(c)
    \/ RecordOutcome(c)

Next == Tick \/ \E c \in Callers : Execute(c) \/ Reset(c)

Spec == Init /\ [][Next]_vars

\* Callers keep calling and their functions return; time passes.
FairSpec ==
    /\ Spec
    /\ WF_vars(Tick)
    /\ \A c \in Callers : WF_vars(Execute(c))

-----------------------------------------------------------------------------
Labels == {"idle", "rejecting", "announcing", "running", "reporting"}
Edges == {<<"CLOSED", "OPEN">>, <<"OPEN", "HALF_OPEN">>, <<"OPEN", "CLOSED">>,
          <<"HALF_OPEN", "OPEN">>, <<"HALF_OPEN", "CLOSED">>}
Reports == {{}} \cup {{e} : e \in Edges}

\* Every variable has its type, and a caller owes a report exactly where the
\* code holds a non-empty list of transitions (280-284, 440).
TypeOK ==
    /\ state \in States
    /\ window \in Seq(BOOLEAN)
    /\ Len(window) <= SlidingWindowSize
    /\ failure_count \in Int
    /\ half_open_results \in Seq(BOOLEAN)
    /\ half_open_allowed \in 0..(PermittedCalls - 1)
    /\ sinceOpened \in 0..WaitDuration
    /\ pc \in [Callers -> Labels]
    /\ called_in \in [Callers -> {"CLOSED", "HALF_OPEN"}]
    /\ transitions \in [Callers -> Reports]
    /\ tally \in [States -> Int]
    /\ \A c \in Callers :
         transitions[c] # {} <=> pc[c] \in {"announcing", "reporting"}

\* The counter kept beside the deque never drifts from it, whatever evictions,
\* closings and resets interleave with the recording (260-278, 492-500).
FailureCountExact == failure_count = Failures(window)

\* A closed breaker never rests on a window that should have opened it: the
\* rate is evaluated in the same section that changes the window (455-460).
ClosedBelowThreshold ==
    state = "CLOSED" /\ Len(window) >= MinimumCalls
        => ~AtThreshold(failure_count, Len(window))

\* Permits left, probes in flight and verdicts given never exceed the
\* permitted number, in one half-open episode (360-385, 465-473).  They may
\* fall short: a probe that ends unrecorded gives its permit to nobody.
ProbeBudget ==
    /\ state = "HALF_OPEN" =>
         half_open_allowed + Cardinality(Probes) + Len(half_open_results)
             <= PermittedCalls
    /\ Probes # {} => state = "HALF_OPEN"

\* A half-open breaker can still be resolved: a permit is left, or a probe
\* that will give a verdict is in flight.
HalfOpenResolvable ==
    state = "HALF_OPEN" => half_open_allowed > 0 \/ Probes # {}

\* What a listener has been told, together with the reports still owed by the
\* callers that made a transition, is the breaker's state: no transition is
\* lost or reported twice, though reports may overtake one another.
TallyExact ==
    \A s \in States :
        tally[s]
          + Cardinality({c \in Callers : \E e \in transitions[c] : e[2] = s})
          - Cardinality({c \in Callers : \E e \in transitions[c] : e[1] = s})
          = IF state = s THEN 1 ELSE 0

\* The half-open breaker is judged only when no permit is left and the judge
\* is the last probe ("Once all probes complete", 15-17).  reset() also
\* leaves HALF_OPEN, but it empties the results.
Judged == /\ state = "HALF_OPEN"
          /\ state' # "HALF_OPEN"
          /\ half_open_results' # << >>
JudgedAfterAllProbes ==
    [][Judged => /\ half_open_allowed = 0
                 /\ \A c \in Probes : pc'[c] # pc[c]]_vars

\* A half-open breaker is eventually judged.
HalfOpenResolves == state = "HALF_OPEN" ~> state # "HALF_OPEN"

\* If guarded calls eventually stop failing, the breaker eventually closes
\* for good: a success that opens it (455-460) is the last.
Failing(c) == pc[c] = "running" /\ RecordOutcome(c) /\ called_in[c] = state
              /\ \/ failure_count' > failure_count
                 \/ Failures(half_open_results') > Failures(half_open_results)
Recovers ==
    <>[][~\E c \in Callers : Failing(c)]_vars => <>[](state = "CLOSED")

(* The abstract state machine, seen through the lock-protected variables.  *)
Protocol == INSTANCE BreakerProtocol WITH
    Permitted <- PermittedCalls,
    phase     <- state,
    granted   <- IF state = "HALF_OPEN"
                   THEN PermittedCalls - half_open_allowed ELSE 0,
    verdicts  <- IF state = "HALF_OPEN"
                   THEN Len(half_open_results) ELSE 0

\* The code, without reset(), implements the advertised state machine: in
\* particular every half-open episode is decided by exactly the permitted
\* number of probes (15-17).
ImplementsProtocol == Protocol!Spec
=============================================================================
