------------------------------- MODULE Registry -------------------------------
(***************************************************************************)
(* The registry of instances (src/pysilience/core/registry.py), the lists   *)
(* of listeners that each instance keeps, and notify_listeners              *)
(* (core/listeners.py).  A tool sweeps the instances of one kind and        *)
(* attaches its listener to each, while other threads create, replace and   *)
(* remove instances, attach listeners of their own and emit events.         *)
(***************************************************************************)
EXTENDS Naturals, Sequences, FiniteSets

CONSTANTS
    Kinds, Names,       \* what instances are registered under
    Instances,
    Swept,              \* the kind that the tool sweeps
    MaxListeners        \* bound: on_event() stops at a list of this length

\* A dictionary holds finitely many entries.
ASSUME RegistryAssumption == IsFiniteSet(Kinds) /\ IsFiniteSet(Names)

VARIABLES
    instances,  \* _instances: the instance under each <<kind, name>>, or "none"
    listeners,  \* per instance, its _event_listeners
    sweep,      \* the tool's iterator
    owed,       \* per instance, under how many names the sweep found it
    event       \* an event on its way to the listeners

registryVars == <<instances, listeners, sweep, owed, event>>

Places == Kinds \X Names

Quiet == [at |-> "idle", of |-> "none", next |-> 1, heard |-> 0, afterSweep |-> FALSE]

RegistryInit ==
    /\ instances = [p \in Places |-> "none"]
    /\ listeners = [i \in Instances |-> << >>]
    /\ sweep = [begun |-> FALSE, left |-> {}]
    /\ owed = [i \in Instances |-> 0]
    /\ event = Quiet

Changed == UNCHANGED <<listeners, sweep, owed, event>>

\* register(), also by the create_* factories: the last one under a name wins,
\* and an empty name is refused.
RegisterInstance(p, i) ==
    /\ p[2] # ""
    /\ instances' = [instances EXCEPT ![p] = i]
    /\ Changed

Unregister(p) == instances' = [instances EXCEPT ![p] = "none"] /\ Changed

ClearRegistry == instances' = [p \in Places |-> "none"] /\ Changed

-----------------------------------------------------------------------------
(* The sweep: for name, instance in iter_by_kind(kind): instance.on_event()  *)

Found(p) == p[1] = Swept /\ instances[p] # "none"

\* The first next() runs the generator up to its first pair.
BeginSweep ==
    /\ ~sweep.begun
    /\ LET snapshot == {<<p, instances[p]>> : p \in {q \in Places : Found(q)}}
       IN  /\ sweep' = [begun |-> TRUE, left |-> snapshot]
           /\ owed' = [i \in Instances |->
                         Cardinality({pair \in snapshot : pair[2] = i})]
    /\ UNCHANGED <<instances, listeners, event>>

\* Mutation: the generator walks the dictionary itself.
YieldsIfStillThere(pair) == instances[pair[1]] = pair[2]

\* What is yielded comes from the snapshot, whatever happened to it since.
Yields(pair) == TRUE

Visit(pair) ==
    /\ pair \in sweep.left
    /\ sweep' = [sweep EXCEPT !.left = @ \ {pair}]
    /\ listeners' = IF Yields(pair)
                      THEN [listeners EXCEPT ![pair[2]] = Append(@, "tool")]
                      ELSE listeners
    /\ UNCHANGED <<instances, owed, event>>

\* on_event() by anybody else, at any time: a listener that raises, as the
\* tool's shows what one that returns does.
OnEvent(i) ==
    /\ Len(listeners[i]) < MaxListeners
    /\ listeners' = [listeners EXCEPT ![i] = Append(@, "raises")]
    /\ UNCHANGED <<instances, sweep, owed, event>>

-----------------------------------------------------------------------------
(* notify_listeners: an index into the live list.                          *)

Emit(i) ==
    /\ event.at = "idle"
    /\ event' = [Quiet EXCEPT !.at = "walking", !.of = i,
                              !.afterSweep = sweep.begun /\ sweep.left = {}]
    /\ UNCHANGED <<instances, listeners, sweep, owed>>

\* Mutation: what a listener raises ends the loop.
EndsLoop(listener) == listener = "raises"

\* contextlib.suppress(Exception) is inside the loop.
StopsLoop(listener) == FALSE

CallListener ==
    /\ event.at = "walking"
    /\ event.next <= Len(listeners[event.of])
    /\ LET listener == listeners[event.of][event.next]
       IN  event' = [event EXCEPT
              !.at = IF StopsLoop(listener) THEN "told" ELSE "walking",
              !.next = @ + 1,
              !.heard = IF listener = "tool" THEN @ + 1 ELSE @]
    /\ UNCHANGED <<instances, listeners, sweep, owed>>

AllTold ==
    /\ event.at = "walking"
    /\ event.next > Len(listeners[event.of])
    /\ event' = [event EXCEPT !.at = "told"]
    /\ UNCHANGED <<instances, listeners, sweep, owed>>

EmitReturns ==
    /\ event.at = "told"
    /\ event' = Quiet
    /\ UNCHANGED <<instances, listeners, sweep, owed>>

RegistryNext ==
    \/ \E p \in Places, i \in Instances : RegisterInstance(p, i)
    \/ \E p \in Places : Unregister(p)
    \/ ClearRegistry
    \/ BeginSweep
    \/ \E pair \in sweep.left : Visit(pair)
    \/ \E i \in Instances : OnEvent(i) \/ Emit(i)
    \/ CallListener \/ AllTold \/ EmitReturns

RegistrySpec == RegistryInit /\ [][RegistryNext]_registryVars

-----------------------------------------------------------------------------
\* An event that begins after a tool's sweep reaches the tool once for every
\* name under which the sweep's beginning found the instance: not less, though
\* the instance was replaced or removed during the sweep (registry.py:43-46) or
\* another listener raises, and not more, though listeners are attached while
\* the event is on its way (listeners.py:12-16).
ToolHearsOnce ==
    event.at = "told" /\ event.afterSweep => event.heard = owed[event.of]
=============================================================================
