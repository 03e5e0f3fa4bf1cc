-------------------------- MODULE MsgpackSerializer --------------------------
(***************************************************************************)
(* MsgpackSerializer (src/pysilience/cache_serializer_msgpack.py): which    *)
(* type's handler writes and which reads an entry, while types are          *)
(* registered, moved to other ids and unregistered, and a new process takes *)
(* over the entries of an older one.  An entry of the shared database is    *)
(* the type that was packed and the extension code it was packed with; its  *)
(* bytes are left out.  Registration is one step: the tables have no lock.  *)
(***************************************************************************)
EXTENDS Integers, Sequences, Functions

CONSTANTS
    Types,
    Ids,            \* the ids that programs choose
    NoId,           \* type_id=None
    Mro             \* per type, what each class of its __mro__ has under the
                    \* two names, or "absent"

ASSUME IdAssumption == Ids \subseteq Int /\ NoId \notin Ids

VARIABLES
    ext_by_type,    \* _ext_by_type, a table of ids by type
    handlers_by_id, \* _handlers_by_id, the type whose handlers they are by id
    written,        \* the entries in the database, pairs of a type and a code
    givenUp         \* every <<type, id>> that a type had and has lost

msgpackVars == <<ext_by_type, handlers_by_id, written, givenUp>>

Empty == [x \in {} |-> x]
Set(table, x, y) == [z \in DOMAIN table \cup {x} |-> IF z = x THEN y ELSE table[z]]
Pop(table, x) == Restrict(table, DOMAIN table \ {x})

IdOf(t) == IF t \in DOMAIN ext_by_type THEN ext_by_type[t] ELSE NoId

Had(t) == {<<t, IdOf(t)>>} \ {<<t, NoId>>}

MsgpackInit ==
    /\ ext_by_type = Empty
    /\ handlers_by_id = Empty
    /\ written = {}
    /\ givenUp = {}

\* Mutation: an id that is taken is not refused.
TakenNever(id, t) == FALSE

\* The id has handlers, and its owner in the other table is another type.
Taken(id, t) ==
    id \in DOMAIN handlers_by_id /\ \E u \in Types \ {t} : IdOf(u) = id

\* Mutation: the handlers stay under the id that a type has left.
LeftHandlersKept(t, id) == handlers_by_id

\* A type that moves takes its handlers off the old id.
LeftHandlers(t, id) ==
    IF IdOf(t) # id THEN Pop(handlers_by_id, IdOf(t)) ELSE handlers_by_id

\* register_type(t, type_id=chosen): otherwise it raises ValueError and
\* changes nothing.
RegisterType(t, chosen) ==
    LET id == IF chosen # NoId THEN chosen ELSE IdOf(t)
    IN  /\ id # NoId
        /\ ~Taken(id, t)
        /\ ext_by_type' = Set(ext_by_type, t, id)
        /\ handlers_by_id' = Set(LeftHandlers(t, id), id, t)
        /\ givenUp' = givenUp \cup (Had(t) \ {<<t, id>>})
        /\ UNCHANGED written

\* The first class that has the name decides, whatever its bases have.
HasAs(t, name, kind) ==
    \E i \in DOMAIN Mro[t] : /\ Mro[t][i][name] = kind
                             /\ \A j \in 1..(i - 1) : Mro[t][j][name] = "absent"

\* The decorator: the class must have the two methods, each of its kind.
Register(t, id) ==
    /\ HasAs(t, "__pack__", "function")
    /\ HasAs(t, "__unpack__", "classmethod")
    /\ RegisterType(t, id)

UnregisterType(t) ==
    /\ ext_by_type' = Pop(ext_by_type, t)
    /\ handlers_by_id' = Pop(handlers_by_id, IdOf(t))
    /\ givenUp' = givenUp \cup Had(t)
    /\ UNCHANGED written

\* A new serializer over the same database, as after a restart.
Replace ==
    /\ ext_by_type' = Empty
    /\ handlers_by_id' = Empty
    /\ givenUp' = givenUp \cup UNION {Had(t) : t \in Types}
    /\ UNCHANGED written

\* msgpack has room for these codes only: packing fails for any other.
Codes == 0..127

\* dumps of a value of this very type.
Dumps(t) ==
    /\ t \in DOMAIN ext_by_type /\ ext_by_type[t] \in Codes
    /\ written' = written \cup {<<t, IdOf(t)>>}
    /\ UNCHANGED <<ext_by_type, handlers_by_id, givenUp>>

\* The type whose handler loads calls for a code; none is a ValueError.
ReaderOf(code) == IF code \in DOMAIN handlers_by_id THEN {handlers_by_id[code]} ELSE {}

MsgpackNext ==
    \/ \E t \in Types, id \in Ids \cup {NoId} : RegisterType(t, id)
    \/ \E t \in Types, id \in Ids : Register(t, id)
    \/ \E t \in Types : UnregisterType(t) \/ Dumps(t)
    \/ Replace

MsgpackSpec == MsgpackInit /\ [][MsgpackNext]_msgpackVars

-----------------------------------------------------------------------------
\* The two tables stay inverse to one another: register_type looks for the
\* owner of an id's handlers in the other table with next() and no default
\* (126-131), and _default looks for the handlers of a type's id without one
\* (184), so that either would raise the wrong exception.
TablesInverse ==
    /\ \A t \in DOMAIN ext_by_type :
         /\ ext_by_type[t] \in DOMAIN handlers_by_id
         /\ handlers_by_id[ext_by_type[t]] = t
    /\ \A id \in DOMAIN handlers_by_id :
         /\ handlers_by_id[id] \in DOMAIN ext_by_type
         /\ ext_by_type[handlers_by_id[id]] = id

\* An entry is read by the handler of the type that wrote it, or not at all
\* (112-116), unless that type has given up the id: by unregister_type, by
\* moving to another id or with the process.  Of a type and an id that it has
\* given up once nothing is said afterwards.
ReadByItsWriter ==
    \A entry \in written \ givenUp : ReaderOf(entry[2]) \subseteq {entry[1]}
=============================================================================
