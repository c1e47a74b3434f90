------------------------------- MODULE MCDbPool -------------------------------
(* Instances of DbPool for TLC, with programs of the code. *)
EXTENDS DbPool, HandlerPrograms

(* A swap, up to 2 clients deep, and a webhook of PAJ. *)
SwapsAndWebhooks == {SwapToken, PajWebhook}

(* A transfer, up to 3 clients deep. *)
Transfers == {SendToPhone}

(* Every program of the code fits the deepest of them. *)
ASSUME \A p \in AllPrograms \cup {LedgerTask} : IsProgram(p, 4)
=============================================================================
