---------------------------- MODULE MemoPromise ----------------------------
(***************************************************************************)
(* What a cache promises its clients.  A request is answered with data that *)
(* was current at some time since it was made, or is at least as recent as  *)
(* the last undisturbed invalidation that was over by then; of each group   *)
(* of clients, one at a time works out the value of a key; a request that   *)
(* fails gives no answer.  Of stores, tables, locks, sleeping and waking it *)
(* says nothing.                                                           *)
(***************************************************************************)
EXTENDS Integers

CONSTANTS
    Groups,     \* the clients, by the way they call the cache
    Keys

VARIABLES
    request,    \* per client, its request: for what, and how old it may be
    answer,     \* per client, the version its latest request was answered with
    source,     \* per key, the version of the data
    floor,      \* per key, the oldest version that invalidations will leave
    settled     \* per key, what `floor` was when the latest of them was over

promiseVars == <<request, answer, source, floor, settled>>

Clients == UNION Groups

NoRequest == [working |-> FALSE]
NoAnswer == -1

Requesting(c) == request[c] # NoRequest
Working(c, k) == Requesting(c) /\ request[c].working /\ request[c].key = k

Init ==
    /\ request = [c \in Clients |-> NoRequest]
    /\ answer = [c \in Clients |-> NoAnswer]
    /\ source = [k \in Keys |-> 0]
    /\ floor = source
    /\ settled = source

Ask(c, k) ==
    /\ ~Requesting(c)
    /\ request' = [request EXCEPT ![c] =
                     [working |-> FALSE, key |-> k, least |-> settled[k]]]
    /\ answer' = [answer EXCEPT ![c] = NoAnswer]
    /\ UNCHANGED <<source, floor, settled>>

\* Nobody of the client's group is working on the key.
Work(c) ==
    /\ Requesting(c) /\ ~request[c].working
    /\ \A g \in Groups : c \in g =>
         \A d \in g : ~Working(d, request[c].key)
    /\ request' = [request EXCEPT ![c] = [request[c] EXCEPT !.working = TRUE]]
    /\ UNCHANGED <<answer, source, floor, settled>>

Leave(c) ==
    /\ Requesting(c)
    /\ request' = [request EXCEPT ![c] = NoRequest]
    /\ UNCHANGED <<source, floor, settled>>

\* By whatever way the value came to it.
Answer(c) ==
    /\ Leave(c)
    /\ \E version \in request[c].least..source[request[c].key] :
         answer' = [answer EXCEPT ![c] = version]

Fail(c) == Leave(c) /\ UNCHANGED answer

\* Keys that somebody is working on are left alone.  It may take its time.
Invalidate(keys) ==
    /\ settled = floor
    /\ floor' = [k \in Keys |->
                   IF k \in keys /\ \A c \in Clients : ~Working(c, k)
                     THEN source[k] ELSE floor[k]]
    /\ settled' \in {settled, floor'}
    /\ UNCHANGED <<request, answer, source>>

InvalidationOver == settled' = floor /\ UNCHANGED <<request, answer, source, floor>>

Change(k) ==
    /\ source' = [source EXCEPT ![k] = source[k] + 1]
    /\ UNCHANGED <<request, answer, floor, settled>>

Next ==
    \/ \E c \in Clients, k \in Keys : Ask(c, k)
    \/ \E c \in Clients : Work(c) \/ Answer(c) \/ Fail(c)
    \/ \E keys \in SUBSET Keys : Invalidate(keys)
    \/ \E k \in Keys : Change(k)
    \/ InvalidationOver

Spec == Init /\ [][Next]_promiseVars
=============================================================================
