------------------------------ MODULE UtilityBill ------------------------------
(***************************************************************************)
(* A utility bill paid through Airbills: the vendor prepares a transaction *)
(* (transact), the row is inserted, the transaction is signed and sent,    *)
(* and the vendor is asked to fulfil the bill (transact_process).  The     *)
(* handler writes the row after each step and spawns a ledger task with    *)
(* each write.  One handler works on a bill; handlers and tasks of all     *)
(* bills interleave, any write may fail and the process may die.           *)
(*                                                                         *)
(* The five purchase_* functions differ in their limits and payloads, not  *)
(* in these steps.  The chain and the vendor are external: the RPC answers *)
(* with a signature before the transaction is confirmed, and the vendor's  *)
(* answer may be that the bill is done, that it is in progress (status     *)
(* "06", which transact_process allows) or no status at all, which counts  *)
(* as done.                                                                *)
(***************************************************************************)
EXTENDS ActivityLedger

ASSUME BillAssumption ==
    {"PENDING", "ONCHAIN_SUBMITTED", "COMPLETED", "FAILED"} \subseteq Causes

VARIABLES
    pc,         \* where the handler of each bill is
    bill,       \* the row of utility_bill_orders
    held,       \* the signature the handler got from the RPC
    chain,      \* whether the payment was handed to the chain
    vendor      \* what the vendor made of the call to fulfil the bill

billVars == <<pc, bill, held, chain, vendor>>
vars == <<pc, bill, held, chain, vendor, ledger, tasks, lost, faults>>

(* Nothing; taken, without a word on its fulfilment; fulfilled. *)
VendorState == {"none", "accepted", "fulfilled"}
BillStatus == {"PENDING", "ONCHAIN_SUBMITTED", "COMPLETED", "FAILED"}
Running == {"quoted", "pending", "sent", "sendFailed", "submitted",
            "processed", "unprocessed"}
Stages == Running \cup {"idle", "refused", "returned", "died"}

BillTypeOK ==
    /\ LedgerTypeOK
    /\ pc \in [Refs -> Stages]
    /\ bill \in [Refs -> [status: BillStatus \cup {"absent"}, sig: MaybeSig]]
    /\ held \in [Refs -> MaybeSig]
    /\ chain \in [Refs -> {"none", "sent"}]
    /\ vendor \in [Refs -> VendorState]

Init ==
    /\ LedgerInit
    /\ pc = [b \in Refs |-> "idle"]
    /\ bill = [b \in Refs |-> [status |-> "absent", sig |-> NoSig]]
    /\ held = [b \in Refs |-> NoSig]
    /\ chain = [b \in Refs |-> "none"]
    /\ vendor = [b \in Refs |-> "none"]

Goto(b, from, to) == pc[b] = from /\ pc' = [pc EXCEPT ![b] = to]

-----------------------------------------------------------------------------
(* Mutants of the definitions below. *)

ProcessBeforeRecording(b) ==
    /\ Goto(b, "sent", "processed")
    /\ \E v \in {"accepted", "fulfilled"} : vendor' = [vendor EXCEPT ![b] = v]
    /\ UNCHANGED <<bill, held, chain, ledgerVars>>
VendorErrorIgnored(b) ==
    /\ Goto(b, "submitted", "processed")
    /\ \E v \in VendorState : vendor' = [vendor EXCEPT ![b] = v]
    /\ UNCHANGED <<bill, held, chain, ledgerVars>>
VendorErrorReturnsEarly(b) ==
    /\ Goto(b, "submitted", "returned")
    /\ \E v \in VendorState : vendor' = [vendor EXCEPT ![b] = v]
    /\ UNCHANGED <<bill, held, chain, ledgerVars>>
FailedStaysPending(s) == IF s = "COMPLETED" THEN "CONFIRMED" ELSE "PENDING"
-----------------------------------------------------------------------------

(* SET status = $1, chain_tx_signature = COALESCE($2, chain_tx_signature) *)
Updated(row, s, g) == [status |-> s, sig |-> Coalesce(g, row.sig)]

(* The ledger status of a bill's status. *)
LedgerStatus(s) == CASE s = "COMPLETED" -> "CONFIRMED"
                     [] s = "FAILED"    -> "FAILED"
                     [] OTHER           -> "PENDING"

(* update_order_status: the row, then a patch task. *)
UpdateOrderStatus(b, s, g) ==
    /\ bill' = [bill EXCEPT ![b] = Updated(@, s, g)]
    /\ tasks' = tasks \cup {PatchTask(b, s, LedgerStatus(s), g)}
    /\ UNCHANGED <<held, chain, vendor, ledger, lost, faults>>

-----------------------------------------------------------------------------
(* Amount, daily limit or balance refuses the purchase, or transact fails. *)
Refuse(b) ==
    /\ Goto(b, "idle", "refused")
    /\ UNCHANGED <<bill, held, chain, vendor, ledgerVars>>

(* The vendor answers with the bill's id and an unsigned transaction. *)
Transact(b) ==
    /\ Goto(b, "idle", "quoted")
    /\ UNCHANGED <<bill, held, chain, vendor, ledgerVars>>

InsertOrderPending(b) ==
    /\ Goto(b, "quoted", "pending")
    /\ bill' = [bill EXCEPT ![b].status = "PENDING"]
    /\ tasks' = tasks \cup {LogTask(b, "PENDING", "PENDING")}
    /\ UNCHANGED <<held, chain, vendor, ledger, lost, faults>>

InsertFails(b) ==
    /\ Goto(b, "quoted", "refused")
    /\ UNCHANGED <<bill, held, chain, vendor, ledgerVars>>

(* The INSERT is applied and its answer lost: a PENDING row, no log task. *)
InsertUnacknowledged(b) ==
    /\ Goto(b, "quoted", "refused")
    /\ Fault
    /\ bill' = [bill EXCEPT ![b].status = "PENDING"]
    /\ UNCHANGED <<held, chain, vendor, ledger, tasks, lost>>

(* The transaction does not decode or does not name our signers: the       *)
(* handler returns and the row stays PENDING.                              *)
CannotSign(b) ==
    /\ Goto(b, "pending", "returned")
    /\ UNCHANGED <<bill, held, chain, vendor, ledgerVars>>

Send(b, g) ==
    /\ Goto(b, "pending", "sent")
    /\ held' = [held EXCEPT ![b] = g]
    /\ chain' = [chain EXCEPT ![b] = "sent"]
    /\ UNCHANGED <<bill, vendor, ledgerVars>>

(* The RPC reports an error; the transaction may be on its way all the same. *)
SendFails(b) ==
    /\ Goto(b, "pending", "sendFailed")
    /\ \E c \in {"none", "sent"} : chain' = [chain EXCEPT ![b] = c]
    /\ UNCHANGED <<bill, held, vendor, ledgerVars>>

RecordSendFailure(b) ==
    /\ Goto(b, "sendFailed", "returned")
    /\ UpdateOrderStatus(b, "FAILED", NoSig)

(* Mutant: the enum's unused status. *)
WritesProcessing(b) ==
    /\ Goto(b, "sent", "submitted")
    /\ UpdateOrderStatus(b, "PROCESSING", held[b])
RecordSubmitted(b) ==
    /\ Goto(b, "sent", "submitted")
    /\ UpdateOrderStatus(b, "ONCHAIN_SUBMITTED", held[b])

(* The vendor answers without an error: fulfilled, in progress ("06") or   *)
(* with no status.  The handler does not tell these answers apart.         *)
Process(b) ==
    /\ Goto(b, "submitted", "processed")
    /\ \E v \in {"accepted", "fulfilled"} : vendor' = [vendor EXCEPT ![b] = v]
    /\ UNCHANGED <<bill, held, chain, ledgerVars>>

(* The call fails or times out; the vendor may have done its part. *)
ProcessFails(b) ==
    /\ Goto(b, "submitted", "unprocessed")
    /\ \E v \in VendorState : vendor' = [vendor EXCEPT ![b] = v]
    /\ UNCHANGED <<bill, held, chain, ledgerVars>>

RecordCompleted(b) ==
    /\ Goto(b, "processed", "returned")
    /\ UpdateOrderStatus(b, "COMPLETED", held[b])

RecordVendorFailure(b) ==
    /\ Goto(b, "unprocessed", "returned")
    /\ UpdateOrderStatus(b, "FAILED", held[b])

(* The status each stage is about to write. *)
StatusToWrite(stage) == CASE stage = "sent"      -> "ONCHAIN_SUBMITTED"
                          [] stage = "processed" -> "COMPLETED"
                          [] OTHER               -> "FAILED"

(* update_order_status returns an error: the handler gives up at once and  *)
(* spawns no patch.  The UPDATE may have been applied.                     *)
UpdateFails(b) ==
    /\ pc[b] \in {"sent", "sendFailed", "processed", "unprocessed"}
    /\ Fault
    /\ \/ UNCHANGED <<bill, lost>>
       \/ /\ bill' = [bill EXCEPT ![b] = Updated(@, StatusToWrite(pc[b]), held[b])]
          /\ lost' = lost \cup {b}
    /\ pc' = [pc EXCEPT ![b] = "returned"]
    /\ UNCHANGED <<held, chain, vendor, ledger, tasks>>

(* The process dies; only the database, the chain and the vendor remember. *)
Crash ==
    /\ Fault
    /\ TasksDie({})
    /\ pc' = [b \in Refs |-> IF pc[b] \in Running THEN "died" ELSE pc[b]]
    /\ UNCHANGED <<bill, held, chain, vendor>>

Handler(b) ==
    \/ Refuse(b) \/ Transact(b) \/ InsertOrderPending(b) \/ InsertFails(b)
    \/ InsertUnacknowledged(b) \/ CannotSign(b) \/ SendFails(b) \/ RecordSendFailure(b)
    \/ \E g \in Sigs : Send(b, g)
    \/ RecordSubmitted(b) \/ Process(b) \/ ProcessFails(b)
    \/ RecordCompleted(b) \/ RecordVendorFailure(b) \/ UpdateFails(b)

Next ==
    \/ \E b \in Refs : Handler(b)
    \/ Crash
    \/ LedgerNext /\ UNCHANGED billVars

Spec == Init /\ [][Next]_vars
FairSpec == Spec /\ WF_vars((\E t \in tasks : TaskStep(t)) /\ UNCHANGED billVars)

-----------------------------------------------------------------------------
(* Properties. *)

(* A bill shown as completed had its payment sent, carries its signature   *)
(* and was taken by the vendor, whatever failed on the way.  It need not   *)
(* be fulfilled: the code accepts "in progress" and never asks again.      *)
CompletedIsTaken == \A b \in Refs :
    bill[b].status = "COMPLETED" =>
        /\ chain[b] = "sent"
        /\ bill[b].sig # NoSig
        /\ vendor[b] # "none"

(* The vendor is asked to fulfil a bill only once the row holds the        *)
(* payment's signature: a crash never leaves a bill that the vendor has    *)
(* taken, fulfilled or not, and whose payment cannot be found.             *)
TakenIsTraceable == \A b \in Refs :
    vendor[b] # "none" =>
        bill[b].sig # NoSig /\ bill[b].status # "PENDING"

(* With Postgres up and no crash, a handler never returns from a payment   *)
(* that went out without giving the bill an outcome: neither a failed send *)
(* nor a failed fulfilment leaves the row open.                            *)
PaidBillIsSettled == \A b \in Refs :
    pc[b] = "returned" /\ chain[b] = "sent" /\ faults = 0 =>
        bill[b].status \in {"COMPLETED", "FAILED"}

(* A confirmed ledger row has the bill's signature, in whatever order the  *)
(* log upsert and the three patches ran.                                   *)
ConfirmedLedgerHasSignature == \A b \in Refs :
    ledger[b].status = "CONFIRMED" =>
        ledger[b].sig = bill[b].sig /\ ledger[b].sig # NoSig

(* A bill's outcome reaches the ledger in the end, or a task was lost. *)
OutcomeReachesLedger == \A b \in Refs :
    bill[b].status \in {"COMPLETED", "FAILED"} ~>
        (ledger[b].status \in Terminal \/ b \in lost)

(* The abstract promise. *)
View(s) == CASE s = "absent"                   -> "absent"
             [] s \in {"COMPLETED", "CONFIRMED"} -> "confirmed"
             [] s = "FAILED"                     -> "failed"
             [] OTHER                            -> "open"

Mirrored == INSTANCE MirroredLifecycle WITH
    Orders <- Refs,
    Strict <- TRUE,
    state  <- [b \in Refs |-> View(bill[b].status)],
    mirror <- [b \in Refs |-> View(ledger[b].status)]

(* Bills and their ledger rows follow the strict mirrored lifecycle. *)
ImplementsMirror == Mirrored!Spec
=============================================================================
