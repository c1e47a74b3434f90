----------------------------- MODULE MCSpendLimit -----------------------------
(* Instances of SpendLimit for TLC: one payment of each kind. *)
EXTENDS SpendLimit, TLC

CONSTANTS t, m, u

MCPayments == {t, m, u}
MCKind == (t :> "transfer") @@ (m :> "merchant") @@ (u :> "utility")
MCAmount == (t :> 2) @@ (m :> 1) @@ (u :> 2)
=============================================================================
