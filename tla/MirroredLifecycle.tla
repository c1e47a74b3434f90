--------------------------- MODULE MirroredLifecycle ---------------------------
(***************************************************************************)
(* What an order table and the activity ledger promise together: an order  *)
(* opens once and takes one final outcome; its ledger row opens only after *)
(* the order did, and closes only after the order closed.  With Strict the *)
(* ledger row closes with the order's own outcome.                         *)
(*                                                                         *)
(* PajOrders implements it with Strict = FALSE (a second webhook with the  *)
(* other outcome can reach the ledger first), UtilityBill with TRUE.       *)
(***************************************************************************)
CONSTANTS Orders, Strict

VARIABLES
    state,      \* [Orders -> the order table's view]
    mirror      \* [Orders -> the ledger's view]

Outcomes == {"confirmed", "failed"}
View == {"absent", "open"} \cup Outcomes

Init ==
    /\ state = [o \in Orders |-> "absent"]
    /\ mirror = [o \in Orders |-> "absent"]

Open(o) ==
    /\ state[o] = "absent"
    /\ state' = [state EXCEPT ![o] = "open"]
    /\ UNCHANGED mirror

Close(o, r) ==
    /\ state[o] = "open"
    /\ state' = [state EXCEPT ![o] = r]
    /\ UNCHANGED mirror

MirrorOpen(o) ==
    /\ state[o] # "absent"
    /\ mirror[o] = "absent"
    /\ mirror' = [mirror EXCEPT ![o] = "open"]
    /\ UNCHANGED state

MirrorClose(o, r) ==
    /\ state[o] \in Outcomes
    /\ mirror[o] = "open"
    /\ Strict => r = state[o]
    /\ mirror' = [mirror EXCEPT ![o] = r]
    /\ UNCHANGED state

Next == \E o \in Orders :
    \/ Open(o)
    \/ MirrorOpen(o)
    \/ \E r \in Outcomes : Close(o, r) \/ MirrorClose(o, r)

vars == <<state, mirror>>
Spec == Init /\ [][Next]_vars
=============================================================================
