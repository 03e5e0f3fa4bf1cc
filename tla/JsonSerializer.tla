--------------------------- MODULE JsonSerializer ---------------------------
(***************************************************************************)
(* JsonSerializer (src/pysilience/cache_serializer_json.py): what is native *)
(* to JSON is stored as it is, and every other object in an envelope, a     *)
(* dict of a type name and data, which loads recognises by its two keys.    *)
(* JSON text and its parser are abstracted to the value they stand for.     *)
(* The table of types may change between dumps and loads, by register and   *)
(* unregister or because another process reads the entry: it is an argument.*)
(***************************************************************************)

Str(s) == [str |-> s]
Null == [null |-> TRUE]
Dict(f) == [dict |-> f]
Object(type, data) == [type |-> type, data |-> data]

IsStr(v) == "str" \in DOMAIN v
IsDict(v) == "dict" \in DOMAIN v
IsObject(v) == "type" \in DOMAIN v

\* loads raises ValueError.
Invalid == [invalid |-> TRUE]

TypeKey == "__pysilience_type__"
DataKey == "data"

\* Names in _type_registry: one of a built-in type, and the user's.
BuiltIn == {"datetime"}
TypeNames == BuiltIn \cup {"Point", "Unknown"}
Tables == {BuiltIn \cup users : users \in SUBSET {"Point", "Unknown"}}
              \cup SUBSET {"Point"}

-----------------------------------------------------------------------------
(* dumps                                                                   *)

\* _envelope_encode, once the type is found.
Envelope(v) ==
    Dict([x \in {TypeKey, DataKey} |-> IF x = TypeKey THEN Str(v.type) ELSE v.data])

\* dumps returns and does not raise TypeError.
RECURSIVE Serializable(_, _)
Serializable(v, registered) ==
    /\ IsObject(v) => v.type \in registered /\ Serializable(v.data, registered)
    /\ IsDict(v) => \A x \in DOMAIN v.dict : Serializable(v.dict[x], registered)

\* The encoder is called for the data of an envelope again.
RECURSIVE JsonDumps(_)
JsonDumps(v) ==
    IF IsObject(v) THEN JsonDumps(Envelope(v))
    ELSE IF IsDict(v) THEN Dict([x \in DOMAIN v.dict |-> JsonDumps(v.dict[x])])
    ELSE v

-----------------------------------------------------------------------------
(* loads                                                                   *)

\* Mutation: other keys besides the two are overlooked.
HasEnvelopeKeysAtLeast(v) == {TypeKey, DataKey} \subseteq DOMAIN v.dict

HasEnvelopeKeys(v) == DOMAIN v.dict = {TypeKey, DataKey}

\* _envelope_decode
Decoded(v, registered) ==
    IF ~HasEnvelopeKeys(v) THEN v
    ELSE IF ~IsStr(v.dict[TypeKey]) THEN v
    ELSE IF v.dict[TypeKey].str \notin registered THEN Invalid
    ELSE Object(v.dict[TypeKey].str, v.dict[DataKey])

\* object_hook sees the innermost dicts first.
RECURSIVE JsonLoads(_, _)
JsonLoads(v, registered) ==
    IF ~IsDict(v) THEN v
    ELSE LET inner == [x \in DOMAIN v.dict |-> JsonLoads(v.dict[x], registered)]
         IN  IF \E x \in DOMAIN inner : inner[x] = Invalid THEN Invalid
             ELSE Decoded(Dict(inner), registered)

-----------------------------------------------------------------------------
(* Values of up to three levels.                                           *)

Atoms == {Str("Point"), Str("Unknown"), Null, Object("datetime", Str("2025"))}
KeySets == {{}, {TypeKey, DataKey}, {TypeKey, DataKey, "x"}}
DictsOf(values) == {Dict(f) : f \in UNION {[ks -> values] : ks \in KeySets}}
ObjectsOf(values) ==
    {Object(t, v) : t \in {"Point", "Unknown"}, v \in values}

Small == Atoms \cup DictsOf({Str("Point"), Null}) \cup ObjectsOf({Null})
Values == Small \cup DictsOf(Small) \cup ObjectsOf(Small)

\* A dict of the user's that nothing tells from an envelope.
RECURSIVE HoldsLookalike(_)
HoldsLookalike(v) ==
    \/ IsDict(v) /\ \/ DOMAIN v.dict = {TypeKey, DataKey} /\ IsStr(v.dict[TypeKey])
                    \/ \E x \in DOMAIN v.dict : HoldsLookalike(v.dict[x])
    \/ IsObject(v) /\ HoldsLookalike(v.data)

AllComeBack ==
    \A v \in {w \in Values : ~HoldsLookalike(w)}, registered \in Tables :
        JsonLoads(JsonDumps(v), registered) = IF Serializable(v, registered) THEN v ELSE Invalid
=============================================================================
