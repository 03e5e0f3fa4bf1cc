----------------------------- MODULE PermitPool -----------------------------
(***************************************************************************)
(* What a bulkhead promises its clients: at most Capacity of them are       *)
(* inside, one is let in only while there is room, and one is refused only  *)
(* while there is none.                                                     *)
(***************************************************************************)
EXTENDS Integers, FiniteSets

CONSTANTS Clients, Capacity

VARIABLE stage    \* where each client is: outside, asking, inside, refused

Inside == {c \in Clients : stage[c] = "inside"}

Move(c, from, to) == stage[c] = from /\ stage' = [stage EXCEPT ![c] = to]

Init == stage = [c \in Clients |-> "outside"]

Ask(c) == Move(c, "outside", "asking")
Enter(c) == Move(c, "asking", "inside") /\ Cardinality(Inside) < Capacity
Refuse(c) == Move(c, "asking", "refused") /\ Cardinality(Inside) = Capacity
Abandon(c) == Move(c, "asking", "outside")
Leave(c) == Move(c, "inside", "outside")
Return(c) == Move(c, "refused", "outside")

Next == \E c \in Clients : \/ Ask(c) \/ Enter(c) \/ Refuse(c)
                           \/ Abandon(c) \/ Leave(c) \/ Return(c)

Spec == Init /\ [][Next]_stage
=============================================================================
