------------------------------ MODULE MCRampFlow ------------------------------
(* Instances of RampFlow for TLC: two sessions, each a sale or a purchase. *)
EXTENDS RampFlow, TLC

CONSTANTS s1, s2, q1, q2

(* Sessions are alike, and so are request slots. *)
MCSymmetry ==
    {f @@ g : f \in Permutations({q1, q2}), g \in Permutations({s1, s2})}
=============================================================================
