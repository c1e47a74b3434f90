----------------------------- MODULE MCVendMenus ------------------------------
(* Instances of VendMenus for TLC. *)
EXTENDS VendMenus, TLC

CONSTANTS s1, s2, q1, q2

(* The first list of data has two plan types, the second has one. *)
MCBuckets == [v \in Lists |-> 3 - v]

(* Request slots are alike, and so are sessions. *)
MCSymmetry ==
    {f @@ g : f \in Permutations({q1, q2}), g \in Permutations({s1, s2})}
=============================================================================
