------------------------------- MODULE MCParts -------------------------------
(* Small instances of three parts that no caller of the others can disturb:  *)
(* the in-memory store, the tables of the serializers and the registry.  A    *)
(* behaviour exercises one of them, chosen at the start.                     *)
EXTENDS MemoryBackendLRU, MsgpackSerializer, JsonSerializer, Registry, TLC

VARIABLE part

\* A class with the two methods, and a subclass that spoils one of them.
Point == ("__pack__" :> "function") @@ ("__unpack__" :> "classmethod")
Spoilt == ("__pack__" :> "absent") @@ ("__unpack__" :> "staticmethod")
ClassesInOrder == ("Point" :> <<Point>>) @@ ("Subclass" :> <<Spoilt, Point>>)

vars == <<part, lruVars, msgpackVars, registryVars>>

Init ==
    /\ part \in {"store", "tables", "registry"}
    /\ LRUInit /\ MsgpackInit /\ RegistryInit

Next ==
    /\ UNCHANGED part
    /\ \/ part = "store" /\ LRUNext /\ UNCHANGED <<msgpackVars, registryVars>>
       \/ part = "tables" /\ MsgpackNext /\ UNCHANGED <<lruVars, registryVars>>
       \/ part = "registry" /\ RegistryNext /\ UNCHANGED <<lruVars, msgpackVars>>

Spec == Init /\ [][Next]_vars

\* What JsonSerializer.dumps accepts, of values without tuples and with strings
\* for keys, comes back as it was, however envelopes, dicts with their keys and
\* objects are nested (cache_serializer_json.py:49-76,
\* 106-115), and is refused, never taken for another value, when a type in it is
\* not registered any more.  Only a dict with just the two keys and a string for
\* the type is not told from an envelope.
JsonRoundTrips == part = "tables" => AllComeBack
=============================================================================
