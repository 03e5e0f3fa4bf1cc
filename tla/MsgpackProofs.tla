---------------------------- MODULE MsgpackProofs ----------------------------
(* Proofs about MsgpackSerializer, for any types, any ids and any classes.   *)
EXTENDS MsgpackSerializer, TLAPS

\* The tables are functions of types and ids, and only real ids are written.
Typed ==
    /\ ext_by_type \in [DOMAIN ext_by_type -> Ids]
    /\ DOMAIN ext_by_type \subseteq Types
    /\ handlers_by_id \in [DOMAIN handlers_by_id -> Types]
    /\ written \subseteq Types \X Ids

\* What makes ReadByItsWriter inductive: a type that has not given up the id
\* its entries were written with has it still.
StillHeld == \A entry \in written \ givenUp : IdOf(entry[1]) = entry[2]

Inv == Typed /\ TablesInverse /\ StillHeld

LEMMA InvImpliesRead == Inv => ReadByItsWriter
<1> SUFFICES ASSUME Inv, NEW entry \in written \ givenUp,
                    entry[2] \in DOMAIN handlers_by_id
             PROVE  handlers_by_id[entry[2]] = entry[1]
  BY DEF ReadByItsWriter, ReaderOf
<1>1. entry[1] \in Types /\ entry[2] \in Ids /\ IdOf(entry[1]) = entry[2]
  BY DEF Inv, Typed, StillHeld
<1>2. entry[1] \in DOMAIN ext_by_type /\ ext_by_type[entry[1]] = entry[2]
  BY <1>1, IdAssumption DEF IdOf
<1> QED
  BY <1>2 DEF Inv, TablesInverse

LEMMA InvInit == MsgpackInit => Inv
BY DEF MsgpackInit, Inv, Typed, TablesInverse, StillHeld, Empty

\* The only step that writes both tables.
LEMMA RegisterKeeps ==
    ASSUME Inv, NEW t \in Types, NEW chosen \in Ids \cup {NoId},
           RegisterType(t, chosen)
    PROVE  Inv'
<1> DEFINE id == IF chosen # NoId THEN chosen ELSE IdOf(t)
<1> USE IdAssumption
<1>1. /\ id \in Ids
      /\ ~Taken(id, t)
      /\ ext_by_type' = Set(ext_by_type, t, id)
      /\ handlers_by_id' = Set(LeftHandlers(t, id), id, t)
      /\ givenUp' = givenUp \cup (Had(t) \ {<<t, id>>})
      /\ written' = written
  BY DEF RegisterType, Inv, Typed, IdOf
<1> HIDE DEF id
<1>2. /\ DOMAIN ext_by_type' = DOMAIN ext_by_type \cup {t}
      /\ \A u \in DOMAIN ext_by_type' :
           ext_by_type'[u] = IF u = t THEN id ELSE ext_by_type[u]
  BY <1>1 DEF Set
<1>3. /\ IdOf(t)' = id
      /\ \A u \in Types \ {t} : IdOf(u)' = IdOf(u)
  BY <1>2 DEF IdOf
<1>4. /\ DOMAIN LeftHandlers(t, id) \cup {id}
           = IF IdOf(t) # id THEN (DOMAIN handlers_by_id \ {IdOf(t)}) \cup {id}
                             ELSE DOMAIN handlers_by_id \cup {id}
      /\ \A i \in DOMAIN LeftHandlers(t, id) :
           LeftHandlers(t, id)[i] = handlers_by_id[i]
  BY DEF LeftHandlers, Pop, Restrict
<1>5. /\ DOMAIN handlers_by_id' = DOMAIN LeftHandlers(t, id) \cup {id}
      /\ \A i \in DOMAIN handlers_by_id' :
           handlers_by_id'[i] = IF i = id THEN t ELSE handlers_by_id[i]
  BY <1>1, <1>4 DEF Set
<1>6. Typed'
  BY <1>1, <1>2, <1>4, <1>5 DEF Inv, Typed, Set
<1>7. \A u \in Types \ {t} : IdOf(u) # id
  BY <1>1 DEF Taken, Inv, Typed, TablesInverse, IdOf
<1>8. TablesInverse'
  <2>1. ASSUME NEW u \in DOMAIN ext_by_type'
        PROVE  /\ ext_by_type'[u] \in DOMAIN handlers_by_id'
               /\ handlers_by_id'[ext_by_type'[u]] = u
    <3>1. CASE u = t
      BY <3>1, <1>2, <1>5
    <3>2. CASE u # t
      <4>1. /\ u \in Types /\ ext_by_type'[u] = ext_by_type[u]
            /\ ext_by_type[u] \in DOMAIN handlers_by_id
            /\ handlers_by_id[ext_by_type[u]] = u
            /\ IdOf(u) = ext_by_type[u]
        BY <2>1, <3>2, <1>2 DEF Inv, Typed, TablesInverse, IdOf
      <4>2. ext_by_type[u] # id
        BY <4>1, <3>2, <1>7
      <4>3. ext_by_type[u] # IdOf(t)
        <5>1. CASE t \in DOMAIN ext_by_type
          BY <5>1, <4>1, <3>2 DEF IdOf, Inv, TablesInverse
        <5>2. CASE t \notin DOMAIN ext_by_type
          BY <5>2, <2>1, <3>2, <1>2 DEF IdOf, Inv, Typed
        <5> QED
          BY <5>1, <5>2
      <4> QED
        BY <4>1, <4>2, <4>3, <1>4, <1>5
    <3> QED
      BY <3>1, <3>2
  <2>2. ASSUME NEW i \in DOMAIN handlers_by_id'
        PROVE  /\ handlers_by_id'[i] \in DOMAIN ext_by_type'
               /\ ext_by_type'[handlers_by_id'[i]] = i
    <3>1. CASE i = id
      BY <3>1, <1>2, <1>5
    <3>2. CASE i # id
      <4>1. i \in DOMAIN handlers_by_id /\ (IdOf(t) # id => i # IdOf(t))
        BY <2>2, <3>2, <1>4, <1>5
      <4>2. /\ handlers_by_id[i] \in DOMAIN ext_by_type
            /\ ext_by_type[handlers_by_id[i]] = i
        BY <4>1 DEF Inv, TablesInverse
      <4>3. handlers_by_id[i] # t
        BY <4>1, <4>2, <3>2 DEF IdOf
      <4> QED
        BY <2>2, <3>2, <4>2, <4>3, <1>2, <1>5
    <3> QED
      BY <3>1, <3>2
  <2> QED
    BY <2>1, <2>2 DEF TablesInverse
<1>9. StillHeld'
  <2> SUFFICES ASSUME NEW entry \in written' \ givenUp'
               PROVE  IdOf(entry[1])' = entry[2]
    BY DEF StillHeld
  <2>1. entry \in Types \X Ids /\ IdOf(entry[1]) = entry[2]
    BY <1>1 DEF Inv, Typed, StillHeld
  <2>2. CASE entry[1] = t
    <3>1. entry = <<t, IdOf(t)>> /\ IdOf(t) \in Ids
      BY <2>1, <2>2
    <3>2. entry \in Had(t)
      BY <3>1 DEF Had
    <3> QED
      BY <3>1, <3>2, <1>1, <1>3
  <2>3. CASE entry[1] # t
    BY <2>1, <2>3, <1>3
  <2> QED
    BY <2>2, <2>3
<1> QED
  BY <1>6, <1>8, <1>9 DEF Inv

LEMMA UnregisterKeeps ==
    ASSUME Inv, NEW t \in Types, UnregisterType(t)
    PROVE  Inv'
<1> USE IdAssumption
<1>1. /\ DOMAIN ext_by_type' = DOMAIN ext_by_type \ {t}
      /\ \A u \in DOMAIN ext_by_type' : ext_by_type'[u] = ext_by_type[u]
      /\ DOMAIN handlers_by_id' = DOMAIN handlers_by_id \ {IdOf(t)}
      /\ \A i \in DOMAIN handlers_by_id' : handlers_by_id'[i] = handlers_by_id[i]
      /\ givenUp' = givenUp \cup Had(t)
      /\ written' = written
  BY DEF UnregisterType, Pop, Restrict
<1>2. \A u \in Types \ {t} : IdOf(u)' = IdOf(u)
  BY <1>1 DEF IdOf
<1>3. Typed'
  BY <1>1 DEF UnregisterType, Pop, Restrict, Inv, Typed
<1>4. TablesInverse'
  BY <1>1, <1>2 DEF Inv, Typed, TablesInverse, IdOf
<1>5. StillHeld'
  <2> SUFFICES ASSUME NEW entry \in written' \ givenUp'
               PROVE  IdOf(entry[1])' = entry[2]
    BY DEF StillHeld
  <2>1. entry \in Types \X Ids /\ IdOf(entry[1]) = entry[2] /\ entry \notin Had(t)
    BY <1>1 DEF Inv, Typed, StillHeld
  <2>2. entry[1] # t
    BY <2>1 DEF Had
  <2> QED
    BY <2>1, <2>2, <1>2
<1> QED
  BY <1>3, <1>4, <1>5 DEF Inv

LEMMA ReplaceKeeps == ASSUME Inv, Replace PROVE Inv'
<1>1. Typed' /\ TablesInverse'
  BY DEF Replace, Empty, Inv, Typed, TablesInverse
<1>2. ASSUME NEW entry \in written' \ givenUp' PROVE FALSE
  <2>1. entry \in Types \X Ids /\ IdOf(entry[1]) = entry[2]
    BY <1>2 DEF Replace, Inv, Typed, StillHeld
  <2>2. entry \in Had(entry[1])
    BY <2>1, IdAssumption DEF Had
  <2> QED
    BY <1>2, <2>1, <2>2 DEF Replace
<1> QED
  BY <1>1, <1>2 DEF Inv, StillHeld

LEMMA DumpsKeeps == ASSUME Inv, NEW t \in Types, Dumps(t) PROVE Inv'
BY DEF Dumps, Inv, Typed, TablesInverse, StillHeld, IdOf

LEMMA InvStep == Inv /\ [MsgpackNext]_msgpackVars => Inv'
<1> SUFFICES ASSUME Inv, [MsgpackNext]_msgpackVars
             PROVE  Inv'
  OBVIOUS
<1>1. ASSUME NEW t \in Types, NEW id \in Ids \cup {NoId}, RegisterType(t, id)
      PROVE  Inv'
  BY <1>1, RegisterKeeps
<1>2. ASSUME NEW t \in Types, NEW id \in Ids, Register(t, id)
      PROVE  Inv'
  BY <1>2, RegisterKeeps DEF Register
<1>3. ASSUME NEW t \in Types, UnregisterType(t) \/ Dumps(t)
      PROVE  Inv'
  BY <1>3, UnregisterKeeps, DumpsKeeps
<1>4. CASE Replace
  BY <1>4, ReplaceKeeps
<1>5. CASE UNCHANGED msgpackVars
  BY <1>5 DEF msgpackVars, Inv, Typed, TablesInverse, StillHeld, IdOf
<1> QED
  BY <1>1, <1>2, <1>3, <1>4, <1>5 DEF MsgpackNext

\* register_type and unregister_type keep the two tables inverse to one
\* another, for any types and ids (120-149).
THEOREM TablesAlwaysInverse == MsgpackSpec => []TablesInverse
<1>1. Inv => TablesInverse
  BY DEF Inv
<1> QED
  BY <1>1, InvInit, InvStep, PTL DEF MsgpackSpec

\* No entry is read by another type's handler unless its type gave up the id.
THEOREM AlwaysReadByItsWriter == MsgpackSpec => []ReadByItsWriter
BY InvImpliesRead, InvInit, InvStep, PTL DEF MsgpackSpec
=============================================================================
