---------------------------- MODULE RedisBackend ----------------------------
(***************************************************************************)
(* RedisBackend (src/pysilience/cache_redis.py) and the part of the shared  *)
(* database under its prefix.  Every command is one step of the server, and *)
(* clear() is several: commands of others come in between.                  *)
(*                                                                         *)
(* An entry is what its bytes decode to.  An entry that was signed with     *)
(* another secret, truncated, or written with types unknown here, has no    *)
(* such value: it is not readable, and loads raises ValueError for it.      *)
(***************************************************************************)
EXTENDS Integers

CONSTANTS
    Keys,
    Ttl,        \* ttl in ticks; 0 stands for None
    Second      \* ticks in a second, the unit of SETEX

VARIABLES
    database,   \* the entries that are there, by key
    clearing    \* the run of clear(), if one is under way

Off == [at |-> "off", unseen |-> {}, page |-> {}, last |-> FALSE, fresh |-> {}]

Present == DOMAIN database

\* int(max(ttl, 1)) seconds.
Lifetime == IF Ttl < Second THEN Second ELSE (Ttl \div Second) * Second

\* loads returns: for HmacPickleSerializer, the signature is there and is that
\* of this secret, and the payload is a pickle.
Decodes(entry) == entry.readable

\* get() returns a value exactly when this holds: _load turns what cannot be
\* decoded into a miss.
Answers(k) == k \in Present /\ Decodes(database[k])

\* `fresh` remembers what was written since clear() began.
SetEntry(k, v, readable) ==
    /\ database' = [j \in Present \cup {k} |->
                      IF j = k THEN [value |-> v, readable |-> readable, age |-> 0]
                               ELSE database[j]]
    /\ clearing' = IF clearing.at = "off" THEN clearing
                   ELSE [clearing EXCEPT !.fresh = clearing.fresh \cup {k}]

Put(k, v) == SetEntry(k, v, TRUE)

Only(keys) == database' = [k \in keys |-> database[k]]

\* What SCAN has still to return: keys that never left the database since it
\* began.  All others it may return or not.
StillUnseen(left) == [clearing EXCEPT !.unseen = clearing.unseen \cap left]

Delete(k) ==
    /\ Only(Present \ {k})
    /\ clearing' = StillUnseen(Present \ {k})

\* The server drops an entry at the end of its life.
GrowOlder ==
    LET alive == {k \in Present : Ttl = 0 \/ database[k].age + 1 < Lifetime}
    IN  /\ database' = [k \in alive |->
                          IF Ttl = 0 THEN database[k]
                          ELSE [database[k] EXCEPT !.age = database[k].age + 1]]
        /\ clearing' = StillUnseen(alive)

-----------------------------------------------------------------------------
(* clear(): SCAN and DEL, page by page, until SCAN returns cursor 0.       *)

BeginClear ==
    /\ clearing = Off
    /\ clearing' = [Off EXCEPT !.at = "scanning", !.unseen = Present]
    /\ UNCHANGED database

\* Mutation: an empty page is taken for the end.
EndsAtEmpty(page, last) == last \/ page = {}

Ends(page, last) == last

After(page, last) ==
    IF Ends(page, last) THEN Off
    ELSE [clearing EXCEPT !.at = "scanning", !.page = {}, !.last = FALSE,
                          !.unseen = clearing.unseen \ page]

\* A page may be empty before the last, and a key be returned more than once.
ScanPage(last) ==
    /\ clearing.at = "scanning"
    /\ \E page \in SUBSET Present :
         /\ last => clearing.unseen \subseteq page
         /\ clearing' = IF page = {} THEN After(page, last)
                        ELSE [clearing EXCEPT !.at = "deleting",
                                              !.page = page, !.last = last]
    /\ UNCHANGED database

DeletePage ==
    /\ clearing.at = "deleting"
    /\ Only(Present \ clearing.page)
    /\ clearing' = After(clearing.page, clearing.last)
=============================================================================
