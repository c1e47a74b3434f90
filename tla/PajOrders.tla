------------------------------- MODULE PajOrders -------------------------------
(***************************************************************************)
(* PAJ ramp orders: placing an order (PAJ quote, local row, on-chain       *)
(* deposit), the webhook that PAJ calls as the order moves, the ledger row *)
(* that mirrors it, and the message the user gets for each webhook.        *)
(*                                                                         *)
(* PAJ knows the order from CreateOrder on, before the local row exists,   *)
(* and may deliver any webhook, in any order and any number of times.      *)
(* Handlers run concurrently; the process may die between any two steps.   *)
(***************************************************************************)
EXTENDS ActivityLedger

CONSTANTS
    Offramps,   \* the orders that need an on-chain deposit; the rest are onramps
    Deliveries  \* webhook calls: one bound on how many PAJ makes

ASSUME PajAssumption ==
    /\ Offramps \subseteq Refs
    /\ Deliveries \subseteq Causes
    /\ "insert" \in Causes \ Deliveries

VARIABLES
    order,      \* paj_orders.status, "none" without a row
    placing,    \* how far place_paj_*_order has got
    deposit,    \* whether the deposit transaction was submitted
    hook,       \* the webhook handlers
    notices     \* what users were told: the (order, status) of each message

pajVars == <<order, placing, deposit, hook, notices>>
vars == <<order, placing, deposit, hook, notices, ledger, tasks, lost, faults>>

Outcomes == {"success", "failed"}
OrderStatus == {"pending", "unknown"} \cup Outcomes

\* One word for each arm of PajOrderStatus::parse.
Words == {"paid", "cancelled", "awaiting", "else"}

Stages == {"idle", "created", "recorded", "placed", "unsettled", "abandoned",
           "died"}

PajTypeOK ==
    /\ LedgerTypeOK
    /\ order \in [Refs -> OrderStatus \cup {"none"}]
    /\ placing \in [Refs -> Stages]
    /\ deposit \in [Refs -> {"none", "sent"}]
    /\ hook \in [Deliveries -> [pc: {"idle", "applied", "done"},
                                ref: Refs \cup {"none"},
                                status: OrderStatus \cup {"none"}]]
    /\ notices \subseteq [ref: Refs, status: OrderStatus]

Init ==
    /\ LedgerInit
    /\ order = [o \in Refs |-> "none"]
    /\ placing = [o \in Refs |-> "idle"]
    /\ deposit = [o \in Refs |-> "none"]
    /\ hook = [d \in Deliveries |->
                 [pc |-> "idle", ref |-> "none", status |-> "none"]]
    /\ notices = {}

-----------------------------------------------------------------------------
(* Mutants of the definitions below. *)

LetRawWordThrough(w) == IF w = "paid" THEN "success" ELSE w
OverwriteOutcome(old, new) == new
SettleBeforeInsert(o) ==
    /\ placing[o] = "created"
    /\ o \in Offramps
    /\ placing' = [placing EXCEPT ![o] = "placed"]
    /\ deposit' = [deposit EXCEPT ![o] = "sent"]
    /\ UNCHANGED <<order, hook, notices, ledgerVars>>
FailedIsPending(s) == IF s = "success" THEN "CONFIRMED" ELSE "PENDING"
-----------------------------------------------------------------------------

Parse(w) == CASE w = "paid"      -> "success"
              [] w = "cancelled" -> "failed"
              [] w = "awaiting"  -> "pending"
              [] OTHER           -> "unknown"

(* CASE WHEN status IN ('success','failed') THEN status ELSE $2 END *)
AfterWebhook(old, new) == IF old \in Outcomes THEN old ELSE new

(* The ledger status of a webhook's status. *)
LedgerStatus(s) == CASE s = "success" -> "CONFIRMED"
                     [] s = "failed"  -> "FAILED"
                     [] OTHER         -> "PENDING"

-----------------------------------------------------------------------------
(* Placing an order. *)

(* PAJ accepts the order: it has its own id and our webhook URL, and there *)
(* is no local row yet.                                                    *)
CreateOrder(o) ==
    /\ placing[o] = "idle"
    /\ placing' = [placing EXCEPT ![o] = "created"]
    /\ UNCHANGED <<order, deposit, hook, notices, ledgerVars>>

(* The quote has no usable address or amount, or the INSERT fails: the     *)
(* handler returns an error and PAJ's order stays without a local row.     *)
Abandon(o) ==
    /\ placing[o] = "created"
    /\ placing' = [placing EXCEPT ![o] = "abandoned"]
    /\ UNCHANGED <<order, deposit, hook, notices, ledgerVars>>

(* insert_paj_order: the row, then the log task.  An onramp ends here. *)
InsertOrder(o) ==
    /\ placing[o] = "created"
    /\ order' = [order EXCEPT ![o] = "pending"]
    /\ tasks' = tasks \cup {LogTask(o, "insert", "PENDING")}
    /\ placing' = [placing EXCEPT ![o] =
                     IF o \in Offramps THEN "recorded" ELSE "placed"]
    /\ UNCHANGED <<deposit, hook, notices, ledger, lost, faults>>

(* Postgres applies the INSERT and its answer is lost: a row, no log task. *)
InsertUnacknowledged(o) ==
    /\ placing[o] = "created"
    /\ Fault
    /\ order' = [order EXCEPT ![o] = "pending"]
    /\ placing' = [placing EXCEPT ![o] = "abandoned"]
    /\ UNCHANGED <<deposit, hook, notices, ledger, tasks, lost>>

(* settle_paj_offramp_user_deposit returns a signature. *)
Settle(o) ==
    /\ placing[o] = "recorded"
    /\ o \in Offramps
    /\ placing' = [placing EXCEPT ![o] = "placed"]
    /\ deposit' = [deposit EXCEPT ![o] = "sent"]
    /\ UNCHANGED <<order, hook, notices, ledgerVars>>

(* It returns an error.  The RPC may fail after the transaction went out;  *)
(* either way the row keeps its status and nothing is retried.             *)
SettleFails(o) ==
    /\ placing[o] = "recorded"
    /\ o \in Offramps
    /\ placing' = [placing EXCEPT ![o] = "unsettled"]
    /\ \E sent \in {"none", "sent"} : deposit' = [deposit EXCEPT ![o] = sent]
    /\ UNCHANGED <<order, hook, notices, ledgerVars>>

-----------------------------------------------------------------------------
(* paj_webhook. *)

Handled(d, o, s) == hook' = [hook EXCEPT ![d] =
                               [pc |-> "applied", ref |-> o, status |-> s]]

(* apply_webhook_atomic commits: the row takes the status, and the patch   *)
(* carries the webhook's status, not the row's.                            *)
ApplyWebhook(d, o, w) ==
    /\ hook[d].pc = "idle"
    /\ order[o] # "none"
    /\ order' = [order EXCEPT ![o] = AfterWebhook(@, Parse(w))]
    /\ tasks' = tasks \cup
                  {PatchTask(o, d, LedgerStatus(Parse(w)), NoSig)}
    /\ Handled(d, o, Parse(w))
    /\ UNCHANGED <<placing, deposit, notices, ledger, lost, faults>>

(* 403, 400, 500 or, when there is no row yet, 404: nothing changes. *)
RejectWebhook(d) ==
    /\ hook[d].pc = "idle"
    /\ hook' = [hook EXCEPT ![d].pc = "done"]
    /\ UNCHANGED <<order, placing, deposit, notices, ledgerVars>>

(* Postgres applies the transaction and the COMMIT's answer is lost: the   *)
(* handler answers 500 and spawns no patch.                                *)
CommitUnacknowledged(d, o, w) ==
    /\ hook[d].pc = "idle"
    /\ order[o] # "none"
    /\ Fault
    /\ order' = [order EXCEPT ![o] = AfterWebhook(@, Parse(w))]
    /\ hook' = [hook EXCEPT ![d] =
                  [pc |-> "done", ref |-> o, status |-> Parse(w)]]
    /\ lost' = lost \cup {o}
    /\ UNCHANGED <<placing, deposit, notices, ledger, tasks>>

(* notify_paj_order_update: the message names the webhook's own status. *)
Notify(d) ==
    /\ hook[d].pc = "applied"
    /\ notices' = notices \cup
                    {[ref |-> hook[d].ref, status |-> hook[d].status]}
    /\ hook' = [hook EXCEPT ![d].pc = "done"]
    /\ UNCHANGED <<order, placing, deposit, ledgerVars>>

(* The contact lookup fails: no message.  (Slicing the payload for the     *)
(* message may also panic, after the commit.)                              *)
NotifyFails(d) ==
    /\ hook[d].pc = "applied"
    /\ hook' = [hook EXCEPT ![d].pc = "done"]
    /\ UNCHANGED <<order, placing, deposit, notices, ledgerVars>>

-----------------------------------------------------------------------------
(* The process dies and restarts: the database is all that is left. *)
Crash ==
    /\ Fault
    /\ TasksDie({})
    /\ placing' = [o \in Refs |->
                     IF placing[o] \in {"created", "recorded"} THEN "died"
                                                              ELSE placing[o]]
    /\ hook' = [d \in Deliveries |->
                  IF hook[d].pc = "applied" THEN [hook[d] EXCEPT !.pc = "done"]
                                            ELSE hook[d]]
    /\ UNCHANGED <<order, deposit, notices>>

Place(o) == CreateOrder(o) \/ Abandon(o) \/ InsertOrder(o)
              \/ InsertUnacknowledged(o) \/ Settle(o) \/ SettleFails(o)
Deliver(d) ==
    \/ \E o \in Refs, w \in Words :
          ApplyWebhook(d, o, w) \/ CommitUnacknowledged(d, o, w)
    \/ RejectWebhook(d) \/ Notify(d) \/ NotifyFails(d)

Next ==
    \/ \E o \in Refs : Place(o)
    \/ \E d \in Deliveries : Deliver(d)
    \/ Crash
    \/ LedgerNext /\ UNCHANGED pajVars

(* Only the runtime's polling of spawned tasks is assumed: PAJ may stop    *)
(* calling and no order need be placed.                                    *)
Spec == Init /\ [][Next]_vars
FairSpec == Spec /\ WF_vars((\E t \in tasks : TaskStep(t)) /\ UNCHANGED pajVars)

-----------------------------------------------------------------------------
(* Properties. *)

Ended(d, o, s) == hook[d].pc # "idle" /\ hook[d].ref = o /\ hook[d].status = s

(* Two webhooks of one order that name different outcomes. *)
Conflicting(o) ==
    /\ \E d \in Deliveries : Ended(d, o, "success")
    /\ \E d \in Deliveries : Ended(d, o, "failed")

(* A closed ledger row has the order's outcome, unless PAJ itself sent     *)
(* both outcomes: patches that overtake one another, the log upsert that   *)
(* comes last, and retries never make the two tables disagree.             *)
LedgerAgrees == \A o \in Refs :
    ledger[o].status \in Terminal =>
        ledger[o].status = LedgerStatus(order[o]) \/ Conflicting(o)

(* When an order has its outcome, its ledger row has one too, or a task    *)
(* that will give it one is still there, or a task was lost.               *)
OutcomeOnItsWay == \A o \in Refs :
    order[o] \in Outcomes =>
        \/ ledger[o].status \in Terminal
        \/ \E t \in tasks : t.ref = o /\ t.kind = "patch" /\ t.status \in Terminal
        \/ o \in lost

(* A user told of an outcome was told what the row says, for good, unless  *)
(* PAJ sent both: a late "pending" never undoes what the message said.     *)
NoticesMatchOrder == \A n \in notices :
    n.status \in Outcomes => order[n.ref] = n.status \/ Conflicting(n.ref)

(* The user's tokens never leave for an order that has no local row, so    *)
(* support can always find the order of a deposit.                         *)
DepositHasOrder == \A o \in Refs : deposit[o] = "sent" => order[o] # "none"

(* An outcome reaches the ledger in the end, or a task was lost. *)
OutcomeReachesLedger == \A o \in Refs :
    order[o] \in Outcomes ~> (ledger[o].status \in Terminal \/ o \in lost)

(* With Postgres up and no crash, the ledger always learns the outcome:    *)
(* what "race-safe" says of the ledger writes.  The code breaks it: a      *)
(* patch that misses twice before the log upsert lands is gone.            *)
LedgerIsRaceSafe == \A o \in Refs :
    order[o] \in Outcomes ~> ledger[o].status \in Terminal

(* The abstract promise. *)
View(s) == CASE s \in {"none", "absent"}       -> "absent"
             [] s \in {"success", "CONFIRMED"} -> "confirmed"
             [] s \in {"failed", "FAILED"}     -> "failed"
             [] OTHER                          -> "open"

Mirrored == INSTANCE MirroredLifecycle WITH
    Orders <- Refs,
    Strict <- FALSE,
    state  <- [o \in Refs |-> View(order[o])],
    mirror <- [o \in Refs |-> View(ledger[o].status)]

(* Orders and their ledger rows follow the mirrored lifecycle. *)
ImplementsMirror == Mirrored!Spec
=============================================================================
