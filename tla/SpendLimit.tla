------------------------------ MODULE SpendLimit ------------------------------
(***************************************************************************)
(* The daily spending limit of one user.  check_daily_limit sums three     *)
(* tables; a payment is checked first, sent later, and counted by later    *)
(* checks only once its row is there: transfers once a background task has *)
(* written their activity row, merchant payments once their transactions   *)
(* row is CONFIRMED, utility bills from the moment they are PENDING.       *)
(* Nothing serialises the requests of a user.                              *)
(*                                                                         *)
(* A utility bill's steps are those of UtilityBill, merged where the sum   *)
(* does not tell them apart.                                               *)
(***************************************************************************)
EXTENDS Naturals, FiniteSets, FiniteSetsExt

CONSTANTS
    Payments,           \* the payments the user asks for
    Kind,               \* [Payments -> {"transfer", "merchant", "utility"}]
    Amount,             \* [Payments -> naira]
    Limit,              \* the limit of the user's tier, in naira
    MaxDay,             \* bound: the model ends on this day
    MaxFaults           \* bound on failed queries and crashes

ASSUME SpendAssumption ==
    /\ IsFiniteSet(Payments)
    /\ Kind \in [Payments -> {"transfer", "merchant", "utility"}]
    /\ Amount \in [Payments -> Nat]
    /\ {Limit, MaxDay, MaxFaults} \subseteq Nat

VARIABLES
    pc,         \* where the handler of each payment is
    tx,         \* its row in transactions
    bill,       \* its row in utility_bill_orders
    act,        \* its row in user_activity
    logging,    \* activity rows that spawned tasks have still to write
    out,        \* payments whose money left the wallet
    day,        \* the UTC day
    checkedOn,  \* ghost: the day each payment passed its check
    raced,      \* ghost: payments checked while another was unfinished
    skipped,    \* ghost: payments whose check could not read the tables
    leaked,     \* ghost: payments that may be out and will not be counted
    faults      \* ghost: faults so far

vars == <<pc, tx, bill, act, logging, out, day, checkedOn, raced, skipped,
          leaked, faults>>
ghosts == <<raced, skipped, leaked, faults>>

Days == 0..MaxDay
Row == [status: {"none", "PENDING", "CONFIRMED", "COMPLETED", "FAILED"},
        day: Days]
NoRow == [status |-> "none", day |-> 0]

SpendTypeOK ==
    /\ pc \in [Payments -> {"idle", "checked", "open", "sent", "refused",
                            "done", "died"}]
    /\ tx \in [Payments -> Row]
    /\ bill \in [Payments -> Row]
    /\ act \in [Payments -> Row]
    /\ logging \subseteq [p: Payments, status: {"CONFIRMED", "FAILED"}]
    /\ out \subseteq Payments
    /\ day \in Days
    /\ checkedOn \in [Payments -> Days]
    /\ raced \cup skipped \cup leaked \subseteq Payments
    /\ faults \in 0..MaxFaults

Init ==
    /\ pc = [p \in Payments |-> "idle"]
    /\ tx = [p \in Payments |-> NoRow]
    /\ bill = [p \in Payments |-> NoRow]
    /\ act = [p \in Payments |-> NoRow]
    /\ logging = {}
    /\ out = {}
    /\ day = 0
    /\ checkedOn = [p \in Payments |-> 0]
    /\ raced = {}
    /\ skipped = {}
    /\ leaked = {}
    /\ faults = 0

Fault == faults < MaxFaults /\ faults' = faults + 1
Goto(p, from, to) == pc[p] = from /\ pc' = [pc EXCEPT ![p] = to]
Total(S) == MapThenSumSet(LAMBDA p : Amount[p], S)

-----------------------------------------------------------------------------
(* Mutants of the definitions below. *)

CountEveryActivity ==
    {p \in Payments : act[p].status = "CONFIRMED" /\ act[p].day >= day}
-----------------------------------------------------------------------------

(* The three sub-selects of check_daily_limit: rows since midnight UTC. *)
CountedTx ==
    {p \in Payments : tx[p].status = "CONFIRMED" /\ tx[p].day >= day}
CountedBills ==
    {p \in Payments : bill[p].status \in {"PENDING", "COMPLETED"}
                        /\ bill[p].day >= day}
CountedActivity ==
    {p \in Payments : act[p].status = "CONFIRMED" /\ act[p].day >= day
                        /\ Kind[p] = "transfer"}

Spent == Total(CountedTx) + Total(CountedBills) + Total(CountedActivity)

(* A payment that passed its check and whose own writes are not all done. *)
Unfinished(p) == pc[p] \in {"checked", "open", "sent"}
                   \/ \E l \in logging : l.p = p

-----------------------------------------------------------------------------
Passes(p) ==
    /\ Goto(p, "idle", "checked")
    /\ checkedOn' = [checkedOn EXCEPT ![p] = day]
    /\ raced' = IF \E q \in Payments : Unfinished(q) THEN raced \cup {p}
                                                     ELSE raced
    /\ UNCHANGED <<tx, bill, act, logging, out, day, leaked>>

(* Mutant: the limit is compared with the amount alone. *)
CheckAmountAlone(p) ==
    /\ Amount[p] <= Limit
    /\ Passes(p)
    /\ UNCHANGED <<skipped, faults>>

(* check_daily_limit: amount <= limit - spent. *)
CheckPasses(p) ==
    /\ Amount[p] + Spent <= Limit
    /\ Passes(p)
    /\ UNCHANGED <<skipped, faults>>

CheckRefuses(p) ==
    /\ Goto(p, "idle", "refused")
    /\ Amount[p] + Spent > Limit
    /\ UNCHANGED <<tx, bill, act, logging, out, day, checkedOn, ghosts>>

(* The query fails: .ok()? turns the error into "no objection". *)
CheckUnavailable(p) ==
    /\ Fault
    /\ Passes(p)
    /\ skipped' = skipped \cup {p}

(* Balance, key or vendor refuses after the check. *)
Decline(p) ==
    /\ Goto(p, "checked", "refused")
    /\ UNCHANGED <<tx, bill, act, logging, out, day, checkedOn, ghosts>>

(* execute_gasless_transfer. *)
MoneyLeaves(p) == out' = out \cup {p}

-----------------------------------------------------------------------------
(* transfer_p2p and transfer_to_address: no row before the money leaves. *)

SendTransfer(p) ==
    /\ Kind[p] = "transfer"
    /\ Goto(p, "checked", "sent")
    /\ MoneyLeaves(p)
    /\ UNCHANGED <<tx, bill, act, logging, day, checkedOn, ghosts>>

(* The RPC's error ends the handler; the transfer may land all the same. *)
TransferFails(p) ==
    /\ Kind[p] = "transfer"
    /\ Goto(p, "checked", "done")
    /\ \/ UNCHANGED <<out, leaked>>
       \/ MoneyLeaves(p) /\ leaked' = leaked \cup {p}
    /\ UNCHANGED <<tx, bill, act, logging, day, checkedOn, raced, skipped,
                   faults>>

(* Balances are read for the receipt, then log_user_activity is spawned. *)
LogTransfer(p) ==
    /\ Kind[p] = "transfer"
    /\ Goto(p, "sent", "done")
    /\ logging' = logging \cup {[p |-> p, status |-> "CONFIRMED"]}
    /\ UNCHANGED <<tx, bill, act, out, day, checkedOn, ghosts>>

-----------------------------------------------------------------------------
(* pay_merchant: a PENDING row, the transfer, then CONFIRMED or FAILED.    *)
(* The errors of all three statements are ignored.                         *)

InsertTx(p) ==
    /\ Kind[p] = "merchant"
    /\ Goto(p, "checked", "open")
    /\ \/ /\ tx' = [tx EXCEPT ![p] = [status |-> "PENDING", day |-> day]]
          /\ UNCHANGED faults
       \/ Fault /\ UNCHANGED tx
    /\ UNCHANGED <<bill, act, logging, out, day, checkedOn, raced, skipped,
                   leaked>>

PayMerchant(p) ==
    /\ Kind[p] = "merchant"
    /\ Goto(p, "open", "sent")
    /\ MoneyLeaves(p)
    /\ UNCHANGED <<tx, bill, act, logging, day, checkedOn, ghosts>>

(* UPDATE ... WHERE id: no row, no change. *)
SetTx(p, s) == tx' = [tx EXCEPT ![p].status = IF @ = "none" THEN @ ELSE s]

PayMerchantFails(p) ==
    /\ Kind[p] = "merchant"
    /\ Goto(p, "open", "done")
    /\ \/ UNCHANGED <<out, leaked>>
       \/ MoneyLeaves(p) /\ leaked' = leaked \cup {p}
    /\ \/ SetTx(p, "FAILED") /\ UNCHANGED faults
       \/ Fault /\ UNCHANGED tx
    /\ logging' = logging \cup {[p |-> p, status |-> "FAILED"]}
    /\ UNCHANGED <<bill, act, day, checkedOn, raced, skipped>>

ConfirmTx(p) ==
    /\ Kind[p] = "merchant"
    /\ Goto(p, "sent", "done")
    /\ \/ SetTx(p, "CONFIRMED") /\ UNCHANGED faults
       \/ Fault /\ UNCHANGED tx
    /\ leaked' = IF tx'[p].status = "CONFIRMED" THEN leaked
                                                ELSE leaked \cup {p}
    /\ logging' = logging \cup {[p |-> p, status |-> "CONFIRMED"]}
    /\ UNCHANGED <<bill, act, out, day, checkedOn, raced, skipped>>

-----------------------------------------------------------------------------
(* purchase_*: see UtilityBill for the steps. *)

InsertBill(p) ==
    /\ Kind[p] = "utility"
    /\ Goto(p, "checked", "open")
    /\ bill' = [bill EXCEPT ![p] = [status |-> "PENDING", day |-> day]]
    /\ UNCHANGED <<tx, act, logging, out, day, checkedOn, ghosts>>

PayBill(p) ==
    /\ Kind[p] = "utility"
    /\ Goto(p, "open", "sent")
    /\ MoneyLeaves(p)
    /\ UNCHANGED <<tx, bill, act, logging, day, checkedOn, ghosts>>

PayBillFails(p) ==
    /\ Kind[p] = "utility"
    /\ Goto(p, "open", "done")
    /\ bill' = [bill EXCEPT ![p].status = "FAILED"]
    /\ \/ UNCHANGED <<out, leaked>>
       \/ MoneyLeaves(p) /\ leaked' = leaked \cup {p}
    /\ UNCHANGED <<tx, act, logging, day, checkedOn, raced, skipped, faults>>

(* A status write fails: the handler returns and the row stays counted. *)
BillWriteFails(p) ==
    /\ Kind[p] = "utility"
    /\ Fault
    /\ \/ Goto(p, "open", "done") /\ (UNCHANGED out \/ MoneyLeaves(p))
       \/ Goto(p, "sent", "done") /\ UNCHANGED out
    /\ UNCHANGED <<tx, bill, act, logging, day, checkedOn, raced, skipped,
                   leaked>>

(* The vendor fulfils: COMPLETED, and the patch confirms the activity row. *)
BillCompleted(p) ==
    /\ Kind[p] = "utility"
    /\ Goto(p, "sent", "done")
    /\ bill' = [bill EXCEPT ![p].status = "COMPLETED"]
    /\ logging' = logging \cup {[p |-> p, status |-> "CONFIRMED"]}
    /\ UNCHANGED <<tx, act, out, day, checkedOn, ghosts>>

(* The vendor fails after the payment: FAILED takes it out of the sum. *)
BillNotFulfilled(p) ==
    /\ Kind[p] = "utility"
    /\ Goto(p, "sent", "done")
    /\ bill' = [bill EXCEPT ![p].status = "FAILED"]
    /\ leaked' = leaked \cup {p}
    /\ UNCHANGED <<tx, act, logging, out, day, checkedOn, raced, skipped,
                   faults>>

-----------------------------------------------------------------------------
(* The spawned task writes the activity row; created_at is that moment. *)
WriteActivity(l) ==
    /\ logging' = logging \ {l}
    /\ act' = [act EXCEPT ![l.p] = [status |-> l.status, day |-> day]]
    /\ UNCHANGED <<pc, tx, bill, out, day, checkedOn, ghosts>>

ActivityDropped(l) ==
    /\ Fault
    /\ logging' = logging \ {l}
    /\ leaked' = leaked \cup {l.p}
    /\ UNCHANGED <<pc, tx, bill, act, out, day, checkedOn, raced, skipped>>

NewDay ==
    /\ day < MaxDay
    /\ day' = day + 1
    /\ UNCHANGED <<pc, tx, bill, act, logging, out, checkedOn, ghosts>>

(* The process dies: handlers stop where they are, tasks are gone.  A bill *)
(* keeps its PENDING row; everything else that was sent is never counted.  *)
Crash ==
    /\ Fault
    /\ pc' = [p \in Payments |-> IF pc[p] \in {"checked", "open", "sent"}
                                 THEN "died" ELSE pc[p]]
    /\ logging' = {}
    /\ leaked' = leaked \cup {l.p : l \in logging}
                   \cup {p \in Payments : pc[p] = "sent" /\ Kind[p] # "utility"}
    /\ UNCHANGED <<tx, bill, act, out, day, checkedOn, raced, skipped>>

Next ==
    \/ \E p \in Payments :
          \/ CheckPasses(p) \/ CheckRefuses(p) \/ CheckUnavailable(p)
          \/ Decline(p)
          \/ SendTransfer(p) \/ TransferFails(p) \/ LogTransfer(p)
          \/ InsertTx(p) \/ PayMerchant(p) \/ PayMerchantFails(p) \/ ConfirmTx(p)
          \/ InsertBill(p) \/ PayBill(p) \/ PayBillFails(p)
          \/ BillWriteFails(p) \/ BillCompleted(p) \/ BillNotFulfilled(p)
    \/ \E l \in logging : WriteActivity(l) \/ ActivityDropped(l)
    \/ NewDay
    \/ Crash

Spec == Init /\ [][Next]_vars

-----------------------------------------------------------------------------
(* Properties. *)

SpentOn(d) == Total({p \in out : checkedOn[p] = d})

(* The doors that the code leaves open: two payments of the user in flight *)
(* at once, a limit query that failed, a payment that left uncounted.      *)
Blamed == raced \cup skipped \cup leaked

(* What leaves the wallet on a day, apart from the payments that came      *)
(* through one of these doors, is within the limit, whatever the others    *)
(* did: the three tables together hold it, also across midnight and for a  *)
(* payment recorded on the day after its check.  In particular more than   *)
(* the limit leaves only on a day that such a payment has.                 *)
OverspendExplained == \A d \in Days :
    Total({p \in out \ Blamed : checkedOn[p] = d}) <= Limit

(* The sum counts no payment twice, although merchant payments and bills   *)
(* also have activity rows: it never exceeds what left or is reserved by   *)
(* an open bill, so nobody is refused for money not spent.                 *)
NotCountedTwice ==
    Spent <= Total(out \cup {p \in Payments : bill[p].status = "PENDING"})

(* The plain promise: as long as every payment that left was recorded, no  *)
(* more than the limit leaves the wallet in a day.  Two requests checked   *)
(* before either is counted break it.                                      *)
DailyLimitHolds ==
    leaked = {} /\ skipped = {} => \A d \in Days : SpentOn(d) <= Limit
=============================================================================
