---------------------------- MODULE RegistryProofs ----------------------------
(***************************************************************************)
(* Proofs about Registry, for any kinds, names and instances and lists of  *)
(* any length: the accounts of what the tool has been attached to, of what *)
(* its sweep has still to visit and of what an event has told it agree.    *)
(***************************************************************************)
EXTENDS Registry, TLAPS, FiniteSetTheorems, SequenceTheorems

Listeners == {"tool", "raises"}

\* How often the tool is among the first n listeners of a list.
ToolsIn(s, n) == Cardinality({m \in 1..n : s[m] = "tool"})

\* How many pairs of a set are of instance i.
PairsOf(pairs, i) == Cardinality({pair \in pairs : pair[2] = i})

-----------------------------------------------------------------------------
(* Counting.                                                               *)

LEMMA NoTools == ASSUME NEW s PROVE ToolsIn(s, 0) = 0
<1>1. {m \in 1..0 : s[m] = "tool"} = {}
  OBVIOUS
<1> QED
  BY <1>1, FS_EmptySet DEF ToolsIn

LEMMA OneMore ==
    ASSUME NEW s, NEW n \in Nat
    PROVE  /\ ToolsIn(s, n) \in Nat
           /\ s[n + 1] = "tool" => ToolsIn(s, n + 1) = ToolsIn(s, n) + 1
           /\ s[n + 1] # "tool" => ToolsIn(s, n + 1) = ToolsIn(s, n)
<1> DEFINE S == {m \in 1..n : s[m] = "tool"}
           T == {m \in 1..(n + 1) : s[m] = "tool"}
<1>1. IsFiniteSet(1..n) /\ S \in SUBSET (1..n)
  BY FS_Interval
<1>2. IsFiniteSet(S) /\ n + 1 \notin S
  BY <1>1, FS_Subset
<1>3. Cardinality(S) \in Nat
  BY <1>2, FS_CardinalityType
<1>4. CASE s[n + 1] = "tool"
  <2>1. T = S \cup {n + 1}
    BY <1>4
  <2>2. Cardinality(S \cup {n + 1}) = Cardinality(S) + 1
    BY <1>2, FS_AddElement
  <2> QED
    BY <1>3, <1>4, <2>1, <2>2 DEF ToolsIn
<1>5. CASE s[n + 1] # "tool"
  <2>1. T = S
    BY <1>5
  <2> QED
    BY <1>3, <1>5, <2>1 DEF ToolsIn
<1> QED
  BY <1>4, <1>5

\* A listener more at the end is one more to count, and changes nothing for
\* those who have not come that far.
LEMMA Attached ==
    ASSUME NEW s \in Seq(Listeners), NEW l \in Listeners
    PROVE  /\ Append(s, l) \in Seq(Listeners) /\ Len(Append(s, l)) = Len(s) + 1
           /\ ToolsIn(s, Len(s)) \in Nat
           /\ ToolsIn(Append(s, l), Len(s) + 1)
                = ToolsIn(s, Len(s)) + (IF l = "tool" THEN 1 ELSE 0)
           /\ \A n \in 0..Len(s) : ToolsIn(Append(s, l), n) = ToolsIn(s, n)
<1> DEFINE t == Append(s, l)
<1>1. /\ t \in Seq(Listeners) /\ Len(t) = Len(s) + 1 /\ t[Len(s) + 1] = l
      /\ \A n \in 1..Len(s) : t[n] = s[n]
  BY AppendProperties
<1> HIDE DEF t
<1>2. ASSUME NEW n \in 0..Len(s)
      PROVE  ToolsIn(t, n) = ToolsIn(s, n)
  <2>1. \A m \in 1..n : t[m] = s[m]
    BY <1>1
  <2>2. {m \in 1..n : t[m] = "tool"} = {m \in 1..n : s[m] = "tool"}
    BY <2>1
  <2> QED
    BY <2>2 DEF ToolsIn
<1>3. Len(s) \in Nat /\ Len(s) \in 0..Len(s)
  OBVIOUS
<1>4. /\ ToolsIn(t, Len(s)) \in Nat
      /\ l = "tool" => ToolsIn(t, Len(s) + 1) = ToolsIn(t, Len(s)) + 1
      /\ l # "tool" => ToolsIn(t, Len(s) + 1) = ToolsIn(t, Len(s))
  BY <1>1, <1>3, OneMore
<1>5. ToolsIn(t, Len(s)) = ToolsIn(s, Len(s))
  BY <1>2, <1>3
<1> QED
  BY <1>1, <1>2, <1>4, <1>5 DEF t

\* A visited pair is no more to be visited.
LEMMA Visited ==
    ASSUME NEW pairs, IsFiniteSet(pairs), NEW pair \in pairs
    PROVE  /\ IsFiniteSet(pairs \ {pair})
           /\ \A i : /\ PairsOf(pairs, i) \in Nat /\ PairsOf(pairs \ {pair}, i) \in Nat
                     /\ PairsOf(pairs, i) = PairsOf(pairs \ {pair}, i)
                                            + (IF pair[2] = i THEN 1 ELSE 0)
<1>1. IsFiniteSet(pairs \ {pair})
  BY FS_RemoveElement
<1>2. ASSUME NEW i
      PROVE  /\ PairsOf(pairs, i) \in Nat /\ PairsOf(pairs \ {pair}, i) \in Nat
             /\ PairsOf(pairs, i) = PairsOf(pairs \ {pair}, i)
                                    + (IF pair[2] = i THEN 1 ELSE 0)
  <2> DEFINE S == {q \in pairs : q[2] = i}
             T == {q \in pairs \ {pair} : q[2] = i}
  <2>1. IsFiniteSet(S) /\ IsFiniteSet(T)
    <3>1. S \in SUBSET pairs /\ T \in SUBSET (pairs \ {pair})
      OBVIOUS
    <3> QED
      BY <1>1, <3>1, FS_Subset
  <2>2. Cardinality(S) \in Nat /\ Cardinality(T) \in Nat
    BY <2>1, FS_CardinalityType
  <2>3. CASE pair[2] = i
    <3>1. S = T \cup {pair} /\ pair \notin T
      BY <2>3
    <3>2. Cardinality(T \cup {pair}) = Cardinality(T) + 1
      BY <2>1, <3>1, FS_AddElement
    <3> QED
      BY <2>2, <2>3, <3>1, <3>2 DEF PairsOf
  <2>4. CASE pair[2] # i
    <3>1. S = T
      BY <2>4
    <3> QED
      BY <2>2, <2>4, <3>1 DEF PairsOf
  <2> QED
    BY <2>3, <2>4
<1> QED
  BY <1>1, <1>2

-----------------------------------------------------------------------------
(* The invariant.                                                          *)

RegistryTypes ==
    /\ instances \in [Places -> Instances \cup {"none"}]
    /\ listeners \in [Instances -> Seq(Listeners)]
    /\ sweep \in [begun : BOOLEAN, left : SUBSET (Places \X Instances)]
    /\ IsFiniteSet(sweep.left)
    /\ owed \in [Instances -> Nat]

\* What the sweep owes an instance is attached or yet to be.
SweepInv ==
    \A i \in Instances :
        /\ owed[i] = ToolsIn(listeners[i], Len(listeners[i])) + PairsOf(sweep.left, i)
        /\ ~sweep.begun => ToolsIn(listeners[i], Len(listeners[i])) = 0

Events == [at : {"idle", "walking", "told"}, of : Instances \cup {"none"},
           next : Nat \ {0}, heard : Nat, afterSweep : BOOLEAN]

\* An event has told the tool as often as it met it in the list; told to the
\* end of a list that a finished sweep has left, that is all.
EventInv ==
    /\ event \in Events
    /\ ~sweep.begun => sweep.left = {}
    /\ event.afterSweep => sweep.begun /\ sweep.left = {}
    /\ event.at # "idle" => event.of \in Instances
    /\ event.at = "walking" =>
         /\ event.next <= Len(listeners[event.of]) + 1
         /\ event.heard = ToolsIn(listeners[event.of], event.next - 1)
    /\ event.at = "told" /\ event.afterSweep => event.heard = owed[event.of]

Inv == RegistryTypes /\ SweepInv /\ EventInv

LEMMA InvInit == RegistryInit => Inv
<1> SUFFICES ASSUME RegistryInit PROVE Inv
  OBVIOUS
<1>1. \A i : PairsOf({}, i) = 0
  <2>1. \A i : {pair \in {} : pair[2] = i} = {}
    OBVIOUS
  <2> QED
    BY <2>1, FS_EmptySet DEF PairsOf
<1>2. RegistryTypes
  BY FS_EmptySet, EmptySeq DEF RegistryInit, RegistryTypes
<1>3. SweepInv
  BY <1>1, NoTools, EmptySeq DEF RegistryInit, SweepInv
<1>4. EventInv
  BY DEF RegistryInit, EventInv, Events, Quiet
<1> QED
  BY <1>2, <1>3, <1>4 DEF Inv

\* A sweep begins: it owes what its snapshot holds.
LEMMA BeginSweepKeeps == ASSUME Inv, BeginSweep PROVE Inv'
<1> DEFINE places == {q \in Places : Found(q)}
           snapshot == {<<p, instances[p]>> : p \in places}
<1>1. /\ ~sweep.begun /\ sweep' = [begun |-> TRUE, left |-> snapshot]
      /\ owed' = [i \in Instances |-> PairsOf(snapshot, i)]
      /\ UNCHANGED <<instances, listeners, event>>
  BY DEF BeginSweep, PairsOf
<1>2. snapshot \in SUBSET (Places \X Instances)
  BY DEF Inv, RegistryTypes, Found
<1>3. IsFiniteSet(snapshot)
  <2> DEFINE pairing == [p \in places |-> <<p, instances[p]>>]
  <2>1. IsFiniteSet(Places) /\ places \in SUBSET Places
    BY RegistryAssumption, FS_Product DEF Places
  <2>2. IsFiniteSet(places)
    BY <2>1, FS_Subset
  <2>3. pairing \in Surjection(places, snapshot)
    BY DEF Surjection
  <2> QED
    BY <2>2, <2>3, FS_Surjection
<1> HIDE DEF snapshot
<1>4. ASSUME NEW i \in Instances
      PROVE  PairsOf(snapshot, i) \in Nat
  <2>1. {pair \in snapshot : pair[2] = i} \in SUBSET snapshot
    OBVIOUS
  <2>2. IsFiniteSet({pair \in snapshot : pair[2] = i})
    BY <1>3, <2>1, FS_Subset
  <2> QED
    BY <2>2, FS_CardinalityType DEF PairsOf
<1>5. RegistryTypes'
  BY <1>1, <1>2, <1>3, <1>4 DEF Inv, RegistryTypes
<1>6. SweepInv'
  <2>1. \A i \in Instances : ToolsIn(listeners[i], Len(listeners[i])) = 0
    BY <1>1 DEF Inv, SweepInv
  <2> QED
    BY <1>1, <1>4, <2>1 DEF SweepInv
<1>7. EventInv'
  BY <1>1 DEF Inv, EventInv
<1> QED
  BY <1>5, <1>6, <1>7 DEF Inv

\* Attaching a listener.
Attaches(i, l) == listeners' = [listeners EXCEPT ![i] = Append(listeners[i], l)]

LEMMA AttachedTypes ==
    ASSUME RegistryTypes, NEW i \in Instances, NEW l \in Listeners, Attaches(i, l)
    PROVE  /\ listeners' \in [Instances -> Seq(Listeners)]
           /\ \A j \in Instances :
                /\ ToolsIn(listeners[j], Len(listeners[j])) \in Nat
                /\ ToolsIn(listeners'[j], Len(listeners'[j]))
                     = ToolsIn(listeners[j], Len(listeners[j]))
                       + (IF j = i /\ l = "tool" THEN 1 ELSE 0)
                /\ Len(listeners[j]) \in Nat /\ Len(listeners[j]) <= Len(listeners'[j])
                /\ \A n \in 0..Len(listeners[j]) :
                     ToolsIn(listeners'[j], n) = ToolsIn(listeners[j], n)
<1>1. /\ \A j \in Instances : listeners[j] \in Seq(Listeners)
      /\ listeners' = [listeners EXCEPT ![i] = Append(listeners[i], l)]
      /\ listeners \in [Instances -> Seq(Listeners)]
  BY DEF RegistryTypes, Attaches
<1>2. listeners' \in [Instances -> Seq(Listeners)]
  BY <1>1, Attached
<1>3. ASSUME NEW j \in Instances
      PROVE  /\ ToolsIn(listeners[j], Len(listeners[j])) \in Nat
             /\ ToolsIn(listeners'[j], Len(listeners'[j]))
                  = ToolsIn(listeners[j], Len(listeners[j]))
                    + (IF j = i /\ l = "tool" THEN 1 ELSE 0)
             /\ Len(listeners[j]) \in Nat /\ Len(listeners[j]) <= Len(listeners'[j])
             /\ \A n \in 0..Len(listeners[j]) :
                  ToolsIn(listeners'[j], n) = ToolsIn(listeners[j], n)
  <2>1. Len(listeners[j]) \in Nat /\ ToolsIn(listeners[j], Len(listeners[j])) \in Nat
    BY <1>1, OneMore
  <2>2. CASE j = i
    <3>1. listeners'[j] = Append(listeners[j], l)
      BY <1>1, <2>2
    <3> QED
      BY <1>1, <2>1, <2>2, <3>1, Attached
  <2>3. CASE j # i
    <3>1. listeners'[j] = listeners[j]
      BY <1>1, <2>3
    <3> QED
      BY <2>1, <2>3, <3>1
  <2> QED
    BY <2>2, <2>3
<1> QED
  BY <1>2, <1>3

\* The part of EventInv about a walk, when lists only grow at their ends.
LEMMA WalkGoesOn ==
    ASSUME Inv, UNCHANGED <<event, owed>>,
           \A j \in Instances :
             /\ Len(listeners[j]) \in Nat /\ Len(listeners'[j]) \in Nat
             /\ Len(listeners[j]) <= Len(listeners'[j])
             /\ \A n \in 0..Len(listeners[j]) :
                  ToolsIn(listeners'[j], n) = ToolsIn(listeners[j], n),
           sweep.begun => sweep'.begun, sweep.left = {} => sweep'.left = {},
           ~sweep'.begun => sweep'.left = {}
    PROVE  EventInv'
<1>1. EventInv
  BY DEF Inv
<1>2. ASSUME event.at = "walking"
      PROVE  /\ event.next <= Len(listeners'[event.of]) + 1
             /\ event.heard = ToolsIn(listeners'[event.of], event.next - 1)
  <2> DEFINE i == event.of
             n == event.next - 1
  <2>1. /\ i \in Instances /\ n \in Nat /\ event.next = n + 1
        /\ n + 1 <= Len(listeners[i]) + 1 /\ event.heard = ToolsIn(listeners[i], n)
    BY <1>1, <1>2 DEF EventInv, Events
  <2> HIDE DEF i, n
  <2>2. n \in 0..Len(listeners[i]) /\ n + 1 <= Len(listeners'[i]) + 1
    BY <2>1
  <2> QED
    BY <2>1, <2>2 DEF i, n
<1> QED
  BY <1>1, <1>2 DEF EventInv

LEMMA VisitKeeps == ASSUME Inv, NEW pair \in sweep.left, Visit(pair) PROVE Inv'
<1> DEFINE i == pair[2]
           left == sweep.left
<1>1. /\ sweep' = [sweep EXCEPT !.left = left \ {pair}]
      /\ Attaches(i, "tool")
      /\ UNCHANGED <<instances, owed, event>>
  BY DEF Visit, Yields, Attaches
<1>2. RegistryTypes /\ SweepInv /\ EventInv
  BY DEF Inv
<1>3. i \in Instances /\ IsFiniteSet(left) /\ sweep.begun /\ left # {}
      /\ sweep'.begun = sweep.begun /\ sweep'.left = left \ {pair}
  BY <1>1, <1>2 DEF RegistryTypes, EventInv
<1>4. /\ IsFiniteSet(left \ {pair})
      /\ \A j : /\ PairsOf(left, j) \in Nat /\ PairsOf(left \ {pair}, j) \in Nat
                /\ PairsOf(left, j) = PairsOf(left \ {pair}, j)
                                      + (IF i = j THEN 1 ELSE 0)
  BY <1>3, Visited
<1>5. "tool" \in Listeners
  BY DEF Listeners
<1>6. /\ listeners' \in [Instances -> Seq(Listeners)]
      /\ \A j \in Instances :
           /\ ToolsIn(listeners[j], Len(listeners[j])) \in Nat
           /\ ToolsIn(listeners'[j], Len(listeners'[j]))
                = ToolsIn(listeners[j], Len(listeners[j])) + (IF j = i THEN 1 ELSE 0)
           /\ Len(listeners[j]) \in Nat /\ Len(listeners[j]) <= Len(listeners'[j])
           /\ \A n \in 0..Len(listeners[j]) :
                ToolsIn(listeners'[j], n) = ToolsIn(listeners[j], n)
  <2> HIDE DEF i
  <2> QED
    BY <1>1, <1>2, <1>3, <1>5, AttachedTypes
<1>7. RegistryTypes'
  BY <1>1, <1>2, <1>3, <1>4, <1>6 DEF RegistryTypes
<1>8. SweepInv'
  <2>1. ASSUME NEW j \in Instances
        PROVE  owed[j] = ToolsIn(listeners'[j], Len(listeners'[j]))
                         + PairsOf(left \ {pair}, j)
    <3>1. owed[j] = ToolsIn(listeners[j], Len(listeners[j])) + PairsOf(left, j)
      BY <1>2 DEF SweepInv
    <3>2. /\ ToolsIn(listeners[j], Len(listeners[j])) \in Nat
          /\ ToolsIn(listeners'[j], Len(listeners'[j]))
               = ToolsIn(listeners[j], Len(listeners[j])) + (IF j = i THEN 1 ELSE 0)
      BY <1>6
    <3>3. /\ PairsOf(left, j) \in Nat /\ PairsOf(left \ {pair}, j) \in Nat
          /\ PairsOf(left, j) = PairsOf(left \ {pair}, j) + (IF i = j THEN 1 ELSE 0)
      BY <1>4
    <3> HIDE DEF i, left
    <3> QED
      BY <3>1, <3>2, <3>3
  <2> QED
    BY <1>1, <1>3, <2>1 DEF SweepInv
<1>9. EventInv'
  <2>1. \A j \in Instances : Len(listeners'[j]) \in Nat
    BY <1>6
  <2> QED
    BY <1>1, <1>3, <1>6, <2>1, WalkGoesOn
<1> QED
  BY <1>7, <1>8, <1>9 DEF Inv

LEMMA OnEventKeeps == ASSUME Inv, NEW i \in Instances, OnEvent(i) PROVE Inv'
<1>1. /\ Attaches(i, "raises")
      /\ UNCHANGED <<instances, sweep, owed, event>>
  BY DEF OnEvent, Attaches
<1>2. RegistryTypes /\ SweepInv /\ EventInv /\ "raises" \in Listeners
  BY DEF Inv, Listeners
<1>3. /\ listeners' \in [Instances -> Seq(Listeners)]
      /\ \A j \in Instances :
           /\ ToolsIn(listeners[j], Len(listeners[j])) \in Nat
           /\ ToolsIn(listeners'[j], Len(listeners'[j]))
                = ToolsIn(listeners[j], Len(listeners[j]))
           /\ Len(listeners[j]) \in Nat /\ Len(listeners[j]) <= Len(listeners'[j])
           /\ \A n \in 0..Len(listeners[j]) :
                ToolsIn(listeners'[j], n) = ToolsIn(listeners[j], n)
  BY <1>1, <1>2, AttachedTypes
<1>4. RegistryTypes'
  BY <1>1, <1>2, <1>3 DEF RegistryTypes
<1>5. SweepInv'
  BY <1>1, <1>2, <1>3 DEF SweepInv
<1>6. EventInv'
  <2>1. \A j \in Instances : Len(listeners'[j]) \in Nat
    BY <1>3
  <2>2. ~sweep.begun => sweep.left = {}
    BY <1>2 DEF EventInv
  <2> QED
    BY <1>1, <1>3, <2>1, <2>2, WalkGoesOn
<1> QED
  BY <1>4, <1>5, <1>6 DEF Inv

\* The lists stay, and the event goes on.
LEMMA EventGoesOn ==
    ASSUME EventInv, UNCHANGED <<listeners, sweep, owed>>, event' \in Events,
           event'.of \in Instances,
           event'.afterSweep => sweep.begun /\ sweep.left = {},
           event'.at = "walking" =>
             /\ event'.next <= Len(listeners[event'.of]) + 1
             /\ event'.heard = ToolsIn(listeners[event'.of], event'.next - 1),
           event'.at = "told" /\ event'.afterSweep => event'.heard = owed[event'.of]
    PROVE  EventInv'
BY DEF EventInv

LEMMA EmitKeeps == ASSUME Inv, NEW i \in Instances, Emit(i) PROVE EventInv'
<1>1. /\ event' = [at |-> "walking", of |-> i, next |-> 1, heard |-> 0,
                   afterSweep |-> (sweep.begun /\ sweep.left = {})]
      /\ UNCHANGED <<listeners, sweep, owed>>
  BY DEF Emit, Quiet
<1>2. Len(listeners[i]) \in Nat /\ EventInv
  BY DEF Inv, RegistryTypes
<1>3. ToolsIn(listeners[i], 1 - 1) = 0
  BY NoTools
<1>4. /\ event'.at = "walking" /\ event'.of = i /\ event'.next = 1 /\ event'.heard = 0
      /\ event'.afterSweep = (sweep.begun /\ sweep.left = {}) /\ event' \in Events
  BY <1>1 DEF Events
<1>5. /\ event'.next <= Len(listeners[event'.of]) + 1
      /\ event'.heard = ToolsIn(listeners[event'.of], event'.next - 1)
      /\ event'.at # "told"
  BY <1>2, <1>3, <1>4
<1> QED
  BY <1>1, <1>2, <1>4, <1>5, EventGoesOn

LEMMA CallListenerKeeps == ASSUME Inv, CallListener PROVE EventInv'
<1> DEFINE i == event.of
           s == listeners[i]
           n == event.next - 1
<1>1. EventInv /\ event.at = "walking" /\ event.next <= Len(s)
      /\ UNCHANGED <<listeners, sweep, owed>>
  BY DEF Inv, CallListener
<1>2. /\ i \in Instances /\ n \in Nat /\ event.next = n + 1 /\ Len(s) \in Nat
      /\ event.heard = ToolsIn(s, n)
  BY <1>1 DEF Inv, EventInv, Events, RegistryTypes
<1>3. event' = [event EXCEPT !.at = "walking", !.next = event.next + 1,
                             !.heard = IF s[event.next] = "tool" THEN event.heard + 1
                                       ELSE event.heard]
  BY DEF CallListener, StopsLoop
<1>4. /\ event'.at = "walking" /\ event'.of = i /\ event'.next = event.next + 1
      /\ event'.afterSweep = event.afterSweep
      /\ event'.heard = IF s[event.next] = "tool" THEN event.heard + 1 ELSE event.heard
      /\ event' \in Events
  <2>1. event \in Events
    BY <1>1 DEF EventInv
  <2> HIDE DEF i, s, n
  <2>2. /\ event.next + 1 \in Nat \ {0}
        /\ (IF s[event.next] = "tool" THEN event.heard + 1 ELSE event.heard) \in Nat
    BY <2>1 DEF Events
  <2> QED
    BY <1>3, <2>1, <2>2 DEF Events, i
<1>5. event'.heard = ToolsIn(s, event'.next - 1)
  <2>1. (event.next + 1) - 1 = n + 1
    BY <1>2
  <2>2. /\ s[n + 1] = "tool" => ToolsIn(s, n + 1) = ToolsIn(s, n) + 1
        /\ s[n + 1] # "tool" => ToolsIn(s, n + 1) = ToolsIn(s, n)
    BY <1>2, OneMore
  <2> HIDE DEF i, s, n
  <2> QED
    BY <1>2, <1>4, <2>1, <2>2
<1>6. event'.next <= Len(s) + 1
  BY <1>1, <1>2, <1>4
<1>7. /\ event'.next <= Len(listeners[event'.of]) + 1
      /\ event'.heard = ToolsIn(listeners[event'.of], event'.next - 1)
  BY <1>4, <1>5, <1>6
<1>8. event'.of \in Instances /\ event'.at # "told"
  BY <1>2, <1>4
<1>9. event'.afterSweep => sweep.begun /\ sweep.left = {}
  BY <1>1, <1>4 DEF EventInv
<1> HIDE DEF i, s, n
<1> QED
  BY <1>1, <1>4, <1>7, <1>8, <1>9, EventGoesOn

\* The end of the list is the end of the tool's count.
LEMMA AllToldKeeps == ASSUME Inv, AllTold PROVE EventInv'
<1> DEFINE i == event.of
           s == listeners[i]
<1>1. /\ EventInv /\ event.at = "walking" /\ event.next > Len(s)
      /\ event' = [event EXCEPT !.at = "told"]
      /\ UNCHANGED <<listeners, sweep, owed>>
  BY DEF Inv, AllTold
<1>2. /\ i \in Instances /\ Len(s) \in Nat /\ event.next \in Nat
      /\ event.next <= Len(s) + 1 /\ event.heard = ToolsIn(s, event.next - 1)
  BY <1>1 DEF Inv, EventInv, Events, RegistryTypes
<1>3. event.heard = ToolsIn(s, Len(s))
  <2>1. event.next - 1 = Len(s)
    BY <1>1, <1>2
  <2> QED
    BY <1>2, <2>1
<1>4. ASSUME event.afterSweep PROVE event.heard = owed[i]
  <2>1. {pair \in {} : pair[2] = i} = {}
    OBVIOUS
  <2>2. PairsOf(sweep.left, i) = 0
    BY <1>1, <1>4, <2>1, FS_EmptySet DEF EventInv, PairsOf
  <2>3. owed[i] = ToolsIn(s, Len(s)) + PairsOf(sweep.left, i) /\ owed[i] \in Nat
    BY <1>2 DEF Inv, SweepInv, RegistryTypes
  <2>4. ToolsIn(s, Len(s)) \in Nat
    BY <1>2, OneMore
  <2> QED
    BY <1>3, <2>2, <2>3, <2>4
<1>5. /\ event'.at = "told" /\ event'.of = i /\ event'.heard = event.heard
      /\ event'.afterSweep = event.afterSweep
      /\ event' \in Events
  BY <1>1 DEF EventInv, Events
<1>6. event'.afterSweep => event'.heard = owed[event'.of]
  BY <1>4, <1>5
<1>7. event'.of \in Instances /\ event'.at # "walking"
  BY <1>2, <1>5
<1>8. event'.afterSweep => sweep.begun /\ sweep.left = {}
  BY <1>1, <1>5 DEF EventInv
<1> HIDE DEF i, s
<1> QED
  BY <1>1, <1>5, <1>6, <1>7, <1>8, EventGoesOn

LEMMA InvStep == Inv /\ [RegistryNext]_registryVars => Inv'
<1> SUFFICES ASSUME Inv, [RegistryNext]_registryVars PROVE Inv'
  OBVIOUS
<1>1. RegistryTypes /\ SweepInv /\ EventInv
  BY DEF Inv
<1>2. ASSUME Changed, instances' \in [Places -> Instances \cup {"none"}]
      PROVE  Inv'
  BY <1>1, <1>2 DEF Changed, Inv, RegistryTypes, SweepInv, EventInv
<1>3. ASSUME NEW p \in Places, \/ Unregister(p)
                               \/ \E i \in Instances : RegisterInstance(p, i)
      PROVE  Inv'
  BY <1>1, <1>2, <1>3 DEF Unregister, RegisterInstance, RegistryTypes
<1>4. CASE ClearRegistry
  BY <1>2, <1>4 DEF ClearRegistry
<1>5. ASSUME UNCHANGED <<instances, listeners, sweep, owed>>, EventInv'
      PROVE  Inv'
  BY <1>1, <1>5 DEF Inv, RegistryTypes, SweepInv
<1>6. ASSUME NEW i \in Instances, Emit(i)
      PROVE  Inv'
  BY <1>5, <1>6, EmitKeeps DEF Emit
<1>7. CASE CallListener
  BY <1>5, <1>7, CallListenerKeeps DEF CallListener
<1>8. CASE AllTold
  BY <1>5, <1>8, AllToldKeeps DEF AllTold
<1>9. CASE EmitReturns
  <2>1. EventInv'
    BY <1>1, <1>9 DEF EmitReturns, EventInv, Events, Quiet
  <2> QED
    BY <1>5, <1>9, <2>1 DEF EmitReturns
<1>10. CASE UNCHANGED registryVars
  BY <1>1, <1>10 DEF registryVars, Inv, RegistryTypes, SweepInv, EventInv
<1> QED
  BY <1>3, <1>4, <1>6, <1>7, <1>8, <1>9, <1>10, BeginSweepKeeps, VisitKeeps,
     OnEventKeeps DEF RegistryNext

\* An event after the sweep tells the tool as often as the sweep's beginning
\* found the instance, whoever registers, removes, attaches or raises meanwhile
\* (registry.py:43-46, listeners.py:12-16).
THEOREM ToolAlwaysHearsOnce == RegistrySpec => []ToolHearsOnce
<1>1. Inv => ToolHearsOnce
  BY DEF Inv, EventInv, ToolHearsOnce
<1> QED
  BY <1>1, InvInit, InvStep, PTL DEF RegistrySpec
=============================================================================
