---------------------------- MODULE CacheAnswers ----------------------------
(***************************************************************************)
(* Cache next to a record of what it gives its callers, and of what it owes *)
(* them: how old the data may be, given the invalidations that were over    *)
(* when the call began.  The record changes nothing in the cache.          *)
(***************************************************************************)
EXTENDS Cache

VARIABLES
    settled,    \* per key, `floor` as it was when no clear() was under way
    least,      \* per caller, what was settled of its key when its call began
    result      \* per caller, the version its latest call returns

recordVars == <<settled, least, result>>
answersVars == <<cacheVars, recordVars>>

NoRequest == [working |-> FALSE]
NoAnswer == -1

\* What a look-up that hits returns.
ValueFound(k) == IF backend = "memory" THEN EntryOf(k).value ELSE database[k].value

Computed(c) == SyncStore(c) \/ AsyncStore(c) \/ StoreRemotely(c)

\* What the step stores, and the caller returns.
ValueComputed(c) ==
    CHOOSE v \in 0..MaxVersion : \E k \in Keys : Compute(c, k, v) /\ Keep(k, v)

Begins(c) == call[c] = Idle /\ call'[c] # Idle

Record ==
    /\ settled' = IF LockFree' THEN floor' ELSE settled
    /\ least' = [c \in Callers |->
                   IF Begins(c) THEN settled[call'[c].key] ELSE least[c]]
    /\ result' = [c \in Callers |->
                    IF Begins(c) THEN NoAnswer
                    ELSE IF ReturnHit(c) THEN ValueFound(call[c].key)
                    ELSE IF Computed(c) THEN ValueComputed(c)
                    ELSE result[c]]

AnswersInit ==
    /\ Init
    /\ settled = floor
    /\ least = [c \in Callers |-> 0]
    /\ result = [c \in Callers |-> NoAnswer]

AnswersSpec == AnswersInit /\ [][Next /\ Record]_answersVars

-----------------------------------------------------------------------------
(* What this amounts to for the callers.                                   *)

\* The key is reserved for the caller.
OwnsKey(c) == call[c].at \in {"computing", "written"}

RequestOf(c) ==
    IF call[c] = Idle THEN NoRequest
    ELSE [working |-> OwnsKey(c), key |-> call[c].key, least |-> least[c]]

\* A task that has still to release its key has not returned yet.
AnswerOf(c) == IF call[c].at = "written" THEN NoAnswer ELSE result[c]

Requests == [c \in Callers |-> RequestOf(c)]
Answers == [c \in Callers |-> AnswerOf(c)]

Promise == INSTANCE MemoPromise WITH
    Groups <- {Threads, Tasks}, request <- Requests, answer <- Answers

\* The cache keeps its promise on either backend: whatever is evicted, expires,
\* is invalidated or written by others between a wake-up and the next look, a
\* call returns nothing older than what was settled when it began, nor anything
\* that never was, and a key is computed once per path at a time.
KeepsPromise == Promise!Spec
=============================================================================
