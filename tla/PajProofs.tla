------------------------------- MODULE PajProofs -------------------------------
(***************************************************************************)
(* Proofs about what is bought and sold through PAJ.                       *)
(*                                                                         *)
(* First the orders (PajOrders), for any orders, webhook deliveries and    *)
(* bound on faults: the type invariant, the safety invariants of the runs  *)
(* and the refinement of MirroredLifecycle.  None of the invariants is     *)
(* inductive alone.  PajInv adds where every outcome comes from: an outcome *)
(* in an order, a pending patch, a ledger row or a notice has a webhook    *)
(* that named it, and an order whose webhook named an outcome has one.     *)
(*                                                                         *)
(* Then the menus that lead to them (RampFlow), for any number of sessions *)
(* and requests and any bounds:                                            *)
(*   - RampTyped: the type invariant;                                      *)
(*   - OrdersAreWhole: an order's token is the last that its session had   *)
(*     picked, its bank and amount were entered after that pick, unless    *)
(*     the session's requests overlapped or it was interfered with;        *)
(*   - OrdersAreOwn: an order is what its session entered, unless another  *)
(*     session interfered or the first step turned the session away;       *)
(*   - OrdersAreOnce: a flow leads to one order, unless requests overlap,  *)
(*     a placement or a Redis call fails, or another session interferes.   *)
(***************************************************************************)
EXTENDS PajOrders, RampFlow, FiniteSetTheorems, TLAPS

-----------------------------------------------------------------------------
(* Steps of the ledger, whatever table its tasks come from.  They do not   *)
(* depend on the orders; UtilityBillProofs has the same lemmas.           *)

(* A closed status never changes, and a row takes a status it is given. *)
LEMMA StickyValues ==
    ASSUME NEW old, NEW new
    PROVE  /\ old \in Terminal => Sticky(old, new) = old
           /\ old \notin Terminal => Sticky(old, new) = new
  BY DEF Sticky

(* A signature that COALESCE returns is one of its arguments. *)
LEMMA CoalesceType ==
    ASSUME NEW a \in MaybeSig, NEW b \in MaybeSig
    PROVE  Coalesce(a, b) \in MaybeSig
  BY DEF Coalesce

(* The signature that a task's step leaves in its row. *)
NewSig(t) == IF t.kind = "log" THEN Coalesce(ledger[t.ref].sig, t.sig)
                               ELSE Coalesce(t.sig, ledger[t.ref].sig)

(* What a task's step does to its row: nothing, or the task's status on a  *)
(* row that is not closed.  A patch never opens a row.                     *)
RowStep(t) ==
    \/ UNCHANGED ledger
    \/ \E g \in MaybeSig :
          /\ ledger' = [ledger EXCEPT ![t.ref] =
                          [status |-> Sticky(ledger[t.ref].status, t.status),
                           sig    |-> g]]
          /\ g = NewSig(t)
          /\ t.kind = "patch" => ledger[t.ref].status # "absent"

(* A step of a task t or its loss: the row, the tasks, what is lost. *)
TaskDone(t) ==
    /\ t \in tasks
    /\ RowStep(t)
    /\ \/ /\ tasks' = tasks \ {t}
          /\ t.ref \notin lost' => ledger'[t.ref].status
                = Sticky(ledger[t.ref].status, t.status)
       \/ /\ tasks' = (tasks \ {t}) \cup {[t EXCEPT !.retried = TRUE]}
          /\ UNCHANGED ledger
    /\ lost \subseteq lost' /\ lost' \subseteq Refs
    /\ faults' \in 0..MaxFaults

LEMMA LedgerStep ==
    ASSUME LedgerTypeOK, LedgerNext
    PROVE  \E t \in tasks : TaskDone(t)
  <1> USE DEF LedgerTypeOK
  <1>1. PICK t \in tasks : TaskStep(t) \/ DropTask(t)
    BY DEF LedgerNext
  <1>2. /\ t \in Task
        /\ t.ref \in Refs /\ t.status \in RowStatus /\ t.sig \in MaybeSig
        /\ t.kind \in {"log", "patch"}
    BY DEF Task
  <1>3. ledger[t.ref].sig \in MaybeSig
    BY <1>2
  <1>4. CASE RunLog(t)
    <2>1. Coalesce(ledger[t.ref].sig, t.sig) \in MaybeSig
      BY <1>2, <1>3, CoalesceType
    <2>2. ledger' = [ledger EXCEPT ![t.ref] =
                       [status |-> Sticky(ledger[t.ref].status, t.status),
                        sig |-> Coalesce(ledger[t.ref].sig, t.sig)]]
      BY <1>4 DEF RunLog, Upserted
    <2>3. RowStep(t)
      BY <1>4, <2>1, <2>2 DEF RowStep, NewSig, RunLog
    <2>4. ledger'[t.ref].status = Sticky(ledger[t.ref].status, t.status)
      BY <2>2, <1>2
    <2> QED BY <1>4, <2>3, <2>4 DEF RunLog, TaskDone
  <1>5. CASE RunPatch(t)
    <2>1. Coalesce(t.sig, ledger[t.ref].sig) \in MaybeSig
      BY <1>2, <1>3, CoalesceType
    <2>2. ledger' = [ledger EXCEPT ![t.ref] =
                       [status |-> Sticky(ledger[t.ref].status, t.status),
                        sig |-> Coalesce(t.sig, ledger[t.ref].sig)]]
      BY <1>5 DEF RunPatch, Patched
    <2>3. RowStep(t)
      BY <1>5, <2>1, <2>2 DEF RowStep, NewSig, RunPatch
    <2>4. ledger'[t.ref].status = Sticky(ledger[t.ref].status, t.status)
      BY <2>2, <1>2
    <2> QED BY <1>5, <2>3, <2>4 DEF RunPatch, TaskDone
  <1>6. CASE MissFirst(t)
    BY <1>6 DEF MissFirst, TaskDone, RowStep
  <1>7. CASE MissLast(t)
    BY <1>2, <1>7 DEF MissLast, TaskDone, RowStep
  <1>8. CASE DropTask(t)
    BY <1>2, <1>8, LedgerAssumption DEF DropTask, Fault, TaskDone, RowStep
  <1> QED BY <1>1, <1>4, <1>5, <1>6, <1>7, <1>8 DEF TaskStep

(* Ledger steps keep the types of the ledger. *)
LEMMA LedgerTyped ==
    ASSUME LedgerTypeOK, NEW t \in tasks, TaskDone(t)
    PROVE  LedgerTypeOK'
  <1> USE DEF LedgerTypeOK
  <1>1. /\ t \in Task /\ t.ref \in Refs /\ t.status \in RowStatus
        /\ [t EXCEPT !.retried = TRUE] \in Task
    BY DEF Task
  <1>2. Sticky(ledger[t.ref].status, t.status) \in RowStatus \cup {"absent"}
    BY <1>1 DEF Sticky
  <1>3. ledger' \in [Refs -> [status: RowStatus \cup {"absent"}, sig: MaybeSig]]
    <2>1. CASE UNCHANGED ledger
      BY <2>1
    <2>2. CASE ~UNCHANGED ledger
      <3>1. PICK g \in MaybeSig :
               ledger' = [ledger EXCEPT ![t.ref] =
                            [status |-> Sticky(ledger[t.ref].status, t.status),
                             sig    |-> g]]
        BY <2>2 DEF TaskDone, RowStep
      <3> QED BY <1>1, <1>2, <3>1
    <2> QED BY <2>1, <2>2
  <1>4. tasks' \subseteq Task
    BY <1>1 DEF TaskDone
  <1> QED BY <1>3, <1>4 DEF TaskDone

-----------------------------------------------------------------------------

(* With webhook handlers h, one of order o named outcome s. *)
Named(h, o, s) == \E d \in Deliveries :
    h[d].pc # "idle" /\ h[d].ref = o /\ h[d].status = s

(* One of order o named the outcome whose ledger status is l. *)
NamedLedger(h, o, l) == \E s \in Outcomes : Named(h, o, s) /\ LedgerStatus(s) = l

HooksOK == \A d \in Deliveries :
    /\ hook[d].pc = "idle" => hook[d].status = "none"
    /\ hook[d].pc = "applied" => hook[d].ref \in Refs /\ hook[d].status # "none"
    /\ hook[d].status \in Outcomes =>
          hook[d].ref \in Refs /\ order[hook[d].ref] \in Outcomes

OrdersOK == \A o \in Refs :
    /\ order[o] \in Outcomes => Named(hook, o, order[o])
    /\ placing[o] \in {"idle", "created"} => order[o] = "none"
    /\ placing[o] \in {"recorded", "placed", "unsettled"} => order[o] # "none"

TaskOK(t) ==
    /\ order[t.ref] # "none"
    /\ t.kind = "log" => t.status = "PENDING"
    /\ t.status \in Terminal => NamedLedger(hook, t.ref, t.status)

LedgerOK == \A o \in Refs :
    /\ ledger[o].status # "absent" => order[o] # "none"
    /\ ledger[o].status \in Terminal => NamedLedger(hook, o, ledger[o].status)

NoticesOK == \A n \in notices : n.status \in Outcomes => Named(hook, n.ref, n.status)

PajInv ==
    /\ PajTypeOK
    /\ HooksOK
    /\ OrdersOK
    /\ \A t \in tasks : TaskOK(t)
    /\ LedgerOK
    /\ NoticesOK
    /\ DepositHasOrder
    /\ OutcomeOnItsWay

-----------------------------------------------------------------------------
(* Once a webhook has ended, what it named stays. *)
HooksGrow == \A d \in Deliveries : hook[d].pc # "idle" =>
    /\ hook'[d].pc # "idle"
    /\ hook'[d].ref = hook[d].ref
    /\ hook'[d].status = hook[d].status

LEMMA NamedGrows ==
    ASSUME HooksGrow
    PROVE  /\ \A o, s : Named(hook, o, s) => Named(hook', o, s)
           /\ \A o, l : NamedLedger(hook, o, l) => NamedLedger(hook', o, l)
  <1>1. \A o, s : Named(hook, o, s) => Named(hook', o, s)
    BY DEF HooksGrow, Named
  <1> QED BY <1>1 DEF NamedLedger, LedgerStatus

LEMMA Values ==
    /\ \A w : Parse(w) \in OrderStatus
    /\ \A s : LedgerStatus(s) \in RowStatus
    /\ \A s : LedgerStatus(s) \in Terminal <=> s \in Outcomes
    /\ LedgerStatus("success") = "CONFIRMED"
    /\ LedgerStatus("failed") = "FAILED"
    /\ "none" \notin OrderStatus
    /\ "pending" \in OrderStatus \ Outcomes
    /\ Outcomes \subseteq OrderStatus
    /\ "PENDING" \in RowStatus \ Terminal
    /\ Terminal \subseteq RowStatus
    /\ "absent" \notin RowStatus
  BY DEF Parse, LedgerStatus, OrderStatus, Outcomes, RowStatus, Terminal

LEMMA PajInitial == Init => PajInv
  <1> SUFFICES ASSUME Init PROVE PajInv
    OBVIOUS
  <1> USE DEF Init, LedgerInit
  <1>1. PajTypeOK
    BY LedgerAssumption DEF PajTypeOK, LedgerTypeOK, Stages, OrderStatus, MaybeSig
  <1>2. HooksOK /\ OrdersOK
    BY Values DEF HooksOK, OrdersOK, OrderStatus
  <1>3. (\A t \in tasks : TaskOK(t)) /\ LedgerOK /\ NoticesOK
    BY DEF LedgerOK, NoticesOK, Terminal
  <1>4. DepositHasOrder /\ OutcomeOnItsWay
    BY DEF DepositHasOrder, OutcomeOnItsWay, Outcomes
  <1> QED BY <1>1, <1>2, <1>3, <1>4 DEF PajInv

(* The steps of placing an order that write no row. *)
LEMMA PlacingKeeps ==
    ASSUME PajInv, NEW o \in Refs,
           CreateOrder(o) \/ Abandon(o) \/ Settle(o) \/ SettleFails(o)
    PROVE  PajInv'
  <1> USE DEF PajInv
  <1>1. UNCHANGED <<order, hook, notices, ledger, tasks, lost, faults>>
    BY DEF CreateOrder, Abandon, Settle, SettleFails, ledgerVars
  <1>2. PajTypeOK'
    <2>1. placing' \in [Refs -> Stages] /\ deposit' \in [Refs -> {"none", "sent"}]
      BY DEF PajTypeOK, CreateOrder, Abandon, Settle, SettleFails, Stages
    <2> QED BY <1>1, <2>1 DEF PajTypeOK, LedgerTypeOK
  <1>3. HooksOK' /\ NoticesOK' /\ LedgerOK' /\ OutcomeOnItsWay'
        /\ \A t \in tasks' : TaskOK(t)'
    BY <1>1 DEF HooksOK, NoticesOK, LedgerOK, OutcomeOnItsWay, TaskOK, Named, NamedLedger
  <1>4. OrdersOK'
    BY <1>1 DEF OrdersOK, Named, PajTypeOK, CreateOrder, Abandon, Settle,
                SettleFails
  <1>5. DepositHasOrder'
    BY <1>1 DEF DepositHasOrder, OrdersOK, PajTypeOK, CreateOrder, Abandon,
                Settle, SettleFails
  <1> QED BY <1>2, <1>3, <1>4, <1>5

(* The row appears. *)
LEMMA InsertKeeps ==
    ASSUME PajInv, NEW o \in Refs, InsertOrder(o) \/ InsertUnacknowledged(o)
    PROVE  PajInv'
  <1> USE DEF PajInv
  <1>1. /\ UNCHANGED <<hook, notices, ledger, lost, deposit>>
        /\ order[o] = "none"
        /\ order' = [order EXCEPT ![o] = "pending"]
        /\ order \in [Refs -> OrderStatus \cup {"none"}]
        /\ \/ tasks' = tasks
           \/ tasks' = tasks \cup {LogTask(o, "insert", "PENDING")}
        /\ faults' \in 0..MaxFaults
    BY LedgerAssumption DEF OrdersOK, PajTypeOK, LedgerTypeOK, InsertOrder,
        InsertUnacknowledged, Fault
  <1>2. \A q \in Refs \ {o} : order'[q] = order[q]
    BY <1>1
  <1>3. order'[o] = "pending"
    BY <1>1
  <1>4. PajTypeOK'
    <2>1. LogTask(o, "insert", "PENDING") \in Task
      BY PajAssumption DEF LogTask, Task, RowStatus, MaybeSig
    <2>2. placing' \in [Refs -> Stages]
      BY DEF PajTypeOK, Stages, InsertOrder, InsertUnacknowledged
    <2>3. order' \in [Refs -> OrderStatus \cup {"none"}]
      BY <1>1, Values
    <2> QED BY <1>1, <2>1, <2>2, <2>3 DEF PajTypeOK, LedgerTypeOK
  <1>5. HooksOK'
    BY <1>1, <1>2, Values DEF HooksOK
  <1>6. OrdersOK'
    <2>1. \A q \in Refs \ {o} : placing'[q] = placing[q]
      BY DEF PajTypeOK, InsertOrder, InsertUnacknowledged
    <2>2. placing'[o] \in {"recorded", "placed", "abandoned"}
      BY DEF PajTypeOK, InsertOrder, InsertUnacknowledged
    <2> QED BY <1>1, <1>2, <1>3, <2>1, <2>2, Values DEF OrdersOK, Named
  <1>7. \A t \in tasks' : TaskOK(t)'
    <2>1. \A t \in tasks : TaskOK(t)'
      BY <1>1, <1>2, <1>3, Values DEF TaskOK, Named, NamedLedger, PajTypeOK,
         LedgerTypeOK, Task
    <2>2. TaskOK(LogTask(o, "insert", "PENDING"))'
      BY <1>3, Values DEF TaskOK, LogTask, NamedLedger, Terminal
    <2> QED BY <1>1, <2>1, <2>2
  <1>8. LedgerOK' /\ NoticesOK' /\ DepositHasOrder'
    BY <1>1, <1>2, <1>3, Values DEF LedgerOK, NoticesOK, DepositHasOrder, Named,
        NamedLedger
  <1>9. OutcomeOnItsWay'
    BY <1>1, <1>2, <1>3, Values DEF OutcomeOnItsWay
  <1> QED BY <1>4, <1>5, <1>6, <1>7, <1>8, <1>9

(* A webhook writes the order's row; its patch is spawned or lost. *)
LEMMA WebhookKeeps ==
    ASSUME PajInv, NEW d \in Deliveries, NEW o \in Refs, NEW w \in Words,
           ApplyWebhook(d, o, w) \/ CommitUnacknowledged(d, o, w)
    PROVE  PajInv'
  <1> USE DEF PajInv
  <1> DEFINE s == Parse(w)
             patch == PatchTask(o, d, LedgerStatus(s), NoSig)
  <1>1. /\ hook[d].pc = "idle" /\ order[o] # "none"
        /\ order' = [order EXCEPT ![o] = AfterWebhook(order[o], s)]
        /\ UNCHANGED <<placing, deposit, notices, ledger>>
        /\ order \in [Refs -> OrderStatus \cup {"none"}]
        /\ s \in OrderStatus
    BY Values DEF PajTypeOK, ApplyWebhook, CommitUnacknowledged
  <1>2. /\ lost \subseteq lost' /\ lost' \subseteq Refs
        /\ faults' \in 0..MaxFaults
        /\ \/ tasks' = tasks \cup {patch}
           \/ tasks' = tasks /\ o \in lost'
    BY LedgerAssumption DEF PajTypeOK, LedgerTypeOK, ApplyWebhook,
       CommitUnacknowledged, Fault
  <1>3. PICK end \in {"applied", "done"} :
           hook' = [hook EXCEPT ![d] = [pc |-> end, ref |-> o, status |-> s]]
    BY DEF ApplyWebhook, CommitUnacknowledged, Handled
  <1>4. /\ hook'[d].pc = end /\ hook'[d].ref = o /\ hook'[d].status = s
        /\ \A e \in Deliveries \ {d} : hook'[e] = hook[e]
    BY <1>3 DEF PajTypeOK
  <1>5. HooksGrow
    BY <1>1, <1>4 DEF HooksGrow
  <1>6. Named(hook', o, s)
    BY <1>4 DEF Named
  <1>7. /\ order'[o] \in OrderStatus
        /\ order'[o] = IF order[o] \in Outcomes THEN order[o] ELSE s
        /\ \A q \in Refs \ {o} : order'[q] = order[q]
    BY <1>1 DEF AfterWebhook
  <1>8. PajTypeOK'
    <2>1. patch \in Task
      BY Values, PajAssumption DEF PatchTask, Task, MaybeSig
    <2>2. order' \in [Refs -> OrderStatus \cup {"none"}]
      BY <1>1, <1>7
    <2>3. hook' \in [Deliveries -> [pc: {"idle", "applied", "done"},
                                    ref: Refs \cup {"none"},
                                    status: OrderStatus \cup {"none"}]]
      BY <1>1, <1>3 DEF PajTypeOK
    <2> QED BY <1>1, <1>2, <2>1, <2>2, <2>3 DEF PajTypeOK, LedgerTypeOK
  <1>9. HooksOK'
    BY <1>1, <1>4, <1>7, Values DEF HooksOK
  <1>10. OrdersOK'
    <2>1. \A q \in Refs : order'[q] \in Outcomes => Named(hook', q, order'[q])
      BY <1>5, <1>6, <1>7, NamedGrows DEF OrdersOK
    <2> QED BY <1>1, <1>7, <2>1, Values DEF OrdersOK
  <1>11. \A t \in tasks' : TaskOK(t)'
    <2>1. \A t \in tasks : TaskOK(t)'
      <3>1. \A t \in tasks : t.ref \in Refs
        BY DEF PajTypeOK, LedgerTypeOK, Task
      <3>2. \A t \in tasks : order'[t.ref] # "none"
        BY <1>7, <3>1, Values DEF TaskOK
      <3> QED BY <1>5, <3>2, NamedGrows DEF TaskOK
    <2>2. TaskOK(patch)'
      <3>1. patch.ref = o /\ patch.kind = "patch" /\ patch.status = LedgerStatus(s)
        BY DEF PatchTask
      <3>2. LedgerStatus(s) \in Terminal => NamedLedger(hook', o, LedgerStatus(s))
        BY <1>6, Values DEF NamedLedger
      <3> QED BY <3>1, <3>2, <1>7, Values DEF TaskOK
    <2> QED BY <1>2, <2>1, <2>2
  <1>12. LedgerOK'
    BY <1>1, <1>5, <1>7, NamedGrows, Values DEF LedgerOK
  <1>13. NoticesOK'
    BY <1>1, <1>5, NamedGrows DEF NoticesOK
  <1>14. DepositHasOrder'
    BY <1>1, <1>7, Values DEF DepositHasOrder
  <1>15. OutcomeOnItsWay'
    <2>1. \A q \in Refs : order[q] \in Outcomes =>
             \/ ledger'[q].status \in Terminal
             \/ \E t \in tasks' : t.ref = q /\ t.kind = "patch"
                                    /\ t.status \in Terminal
             \/ q \in lost'
      BY <1>1, <1>2 DEF OutcomeOnItsWay
    <2>2. s \in Outcomes => patch.ref = o /\ patch.kind = "patch"
                              /\ patch.status \in Terminal
      BY Values DEF PatchTask
    <2> QED BY <1>2, <1>7, <2>1, <2>2 DEF OutcomeOnItsWay
  <1> QED BY <1>8, <1>9, <1>10, <1>11, <1>12, <1>13, <1>14, <1>15

(* A webhook that is refused, and the end of a handler. *)
LEMMA HandlerEndKeeps ==
    ASSUME PajInv, NEW d \in Deliveries,
           RejectWebhook(d) \/ Notify(d) \/ NotifyFails(d)
    PROVE  PajInv'
  <1> USE DEF PajInv
  <1>1. /\ UNCHANGED <<order, placing, deposit, ledger, tasks, lost, faults>>
        /\ hook' = [hook EXCEPT ![d].pc = "done"]
    BY DEF RejectWebhook, Notify, NotifyFails, ledgerVars
  <1>2. /\ hook'[d].pc = "done"
        /\ hook'[d].ref = hook[d].ref /\ hook'[d].status = hook[d].status
        /\ \A e \in Deliveries \ {d} : hook'[e] = hook[e]
    BY <1>1 DEF PajTypeOK
  <1>3. HooksGrow
    BY <1>2 DEF HooksGrow
  <1>4. \/ notices' = notices
        \/ /\ hook[d].pc = "applied"
           /\ notices' = notices \cup
                           {[ref |-> hook[d].ref, status |-> hook[d].status]}
    BY DEF RejectWebhook, Notify, NotifyFails
  <1>5. PajTypeOK'
    <2>1. hook' \in [Deliveries -> [pc: {"idle", "applied", "done"},
                                    ref: Refs \cup {"none"},
                                    status: OrderStatus \cup {"none"}]]
      BY <1>1 DEF PajTypeOK
    <2>2. hook[d].pc = "applied" =>
             hook[d].ref \in Refs /\ hook[d].status \in OrderStatus
      BY DEF PajTypeOK, HooksOK
    <2>3. notices' \subseteq [ref: Refs, status: OrderStatus]
      BY <1>4, <2>2 DEF PajTypeOK
    <2> QED BY <1>1, <2>1, <2>3 DEF PajTypeOK, LedgerTypeOK
  <1>6. HooksOK'
    BY <1>1, <1>2 DEF HooksOK
  <1>7. OrdersOK' /\ LedgerOK' /\ \A t \in tasks' : TaskOK(t)'
    BY <1>1, <1>3, NamedGrows DEF OrdersOK, LedgerOK, TaskOK
  <1>8. NoticesOK'
    <2>1. hook[d].pc = "applied" => Named(hook', hook[d].ref, hook[d].status)
      BY <1>2 DEF Named
    <2> QED BY <1>3, <1>4, <2>1, NamedGrows DEF NoticesOK
  <1>9. DepositHasOrder' /\ OutcomeOnItsWay'
    BY <1>1 DEF DepositHasOrder, OutcomeOnItsWay
  <1> QED BY <1>5, <1>6, <1>7, <1>8, <1>9

LEMMA CrashKeeps ==
    ASSUME PajInv, Crash
    PROVE  PajInv'
  <1> USE DEF PajInv
  <1>1. /\ UNCHANGED <<order, deposit, notices, ledger>>
        /\ tasks' = {}
        /\ lost' = lost \cup {t.ref : t \in tasks}
        /\ faults' \in 0..MaxFaults
    BY LedgerAssumption DEF Crash, TasksDie, Fault, PajTypeOK, LedgerTypeOK
  <1>2. \A d \in Deliveries :
           /\ hook'[d].ref = hook[d].ref /\ hook'[d].status = hook[d].status
           /\ hook'[d].pc = IF hook[d].pc = "applied" THEN "done" ELSE hook[d].pc
    BY DEF Crash, PajTypeOK
  <1>3. HooksGrow
    BY <1>2 DEF HooksGrow
  <1>4. PajTypeOK'
    <2>1. placing' \in [Refs -> Stages]
      BY DEF Crash, PajTypeOK, Stages
    <2>2. hook' \in [Deliveries -> [pc: {"idle", "applied", "done"},
                                    ref: Refs \cup {"none"},
                                    status: OrderStatus \cup {"none"}]]
      BY DEF Crash, PajTypeOK
    <2>3. lost' \subseteq Refs
      BY <1>1 DEF PajTypeOK, LedgerTypeOK, Task
    <2> QED BY <1>1, <2>1, <2>2, <2>3 DEF PajTypeOK, LedgerTypeOK
  <1>5. HooksOK'
    BY <1>1, <1>2 DEF HooksOK
  <1>6. OrdersOK'
    BY <1>1, <1>3, NamedGrows DEF OrdersOK, Crash, PajTypeOK
  <1>7. LedgerOK' /\ NoticesOK' /\ \A t \in tasks' : TaskOK(t)'
    BY <1>1, <1>3, NamedGrows DEF LedgerOK, NoticesOK
  <1>8. DepositHasOrder' /\ OutcomeOnItsWay'
    BY <1>1 DEF DepositHasOrder, OutcomeOnItsWay
  <1> QED BY <1>4, <1>5, <1>6, <1>7, <1>8

LEMMA LedgerKeeps ==
    ASSUME PajInv, LedgerNext, UNCHANGED pajVars
    PROVE  PajInv'
  <1> USE DEF PajInv
  <1>1. UNCHANGED <<order, placing, deposit, hook, notices>>
    BY DEF pajVars
  <1>2. LedgerTypeOK
    BY DEF PajTypeOK
  <1>3. PICK t \in tasks : TaskDone(t)
    BY <1>2, LedgerStep
  <1>4. t \in Task /\ t.ref \in Refs /\ TaskOK(t) /\ t.status \in RowStatus
    BY <1>2 DEF LedgerTypeOK, Task
  <1>5. /\ HooksGrow
        /\ \A q, l : NamedLedger(hook, q, l) => NamedLedger(hook', q, l)
    <2>1. HooksGrow
      BY <1>1 DEF HooksGrow
    <2> QED BY <2>1, NamedGrows
  <1>6. /\ \A q \in Refs \ {t.ref} : ledger'[q] = ledger[q]
        /\ \/ ledger'[t.ref].status = ledger[t.ref].status
           \/ ledger'[t.ref].status = Sticky(ledger[t.ref].status, t.status)
    <2>1. CASE UNCHANGED ledger
      BY <2>1
    <2>2. CASE ~UNCHANGED ledger
      <3>1. PICK g \in MaybeSig :
               ledger' = [ledger EXCEPT ![t.ref] =
                            [status |-> Sticky(ledger[t.ref].status, t.status),
                             sig    |-> g]]
        BY <2>2, <1>3 DEF TaskDone, RowStep
      <3> QED BY <3>1, <1>2, <1>4 DEF LedgerTypeOK
    <2> QED BY <2>1, <2>2
  <1>7. PajTypeOK'
    <2>1. LedgerTypeOK'
      BY <1>2, <1>3, LedgerTyped
    <2> QED BY <1>1, <2>1 DEF PajTypeOK
  <1>8. HooksOK' /\ OrdersOK' /\ NoticesOK' /\ DepositHasOrder'
    BY <1>1 DEF HooksOK, OrdersOK, NoticesOK, DepositHasOrder, Named
  <1>9. \A u \in tasks' : TaskOK(u)'
    <2>1. \A u \in tasks' : \E v \in tasks :
             u.ref = v.ref /\ u.kind = v.kind /\ u.status = v.status
      BY <1>3, <1>4 DEF TaskDone, Task
    <2> QED BY <2>1, <1>1, <1>5 DEF TaskOK
  <1>10. LedgerOK'
    <2>1. \A q \in Refs \ {t.ref} :
             /\ ledger'[q].status # "absent" => order'[q] # "none"
             /\ ledger'[q].status \in Terminal => NamedLedger(hook', q, ledger'[q].status)
      BY <1>1, <1>5, <1>6 DEF LedgerOK
    <2>2. /\ order'[t.ref] # "none"
          /\ ledger'[t.ref].status \in Terminal =>
                NamedLedger(hook', t.ref, ledger'[t.ref].status)
      BY <1>1, <1>4, <1>5, <1>6 DEF LedgerOK, TaskOK, Sticky
    <2> QED BY <2>1, <2>2 DEF LedgerOK
  <1>11. OutcomeOnItsWay'
    <2> SUFFICES ASSUME NEW q \in Refs, order[q] \in Outcomes, q \notin lost',
                        ledger'[q].status \notin Terminal
                 PROVE  \E u \in tasks' : u.ref = q /\ u.kind = "patch"
                                             /\ u.status \in Terminal
      BY <1>1 DEF OutcomeOnItsWay
    <2>1. ledger[q].status \notin Terminal /\ q \notin lost
      BY <1>3, <1>6 DEF TaskDone, Sticky
    <2>2. PICK v \in tasks : v.ref = q /\ v.kind = "patch" /\ v.status \in Terminal
      BY <2>1 DEF OutcomeOnItsWay
    <2>3. CASE v # t
      BY <2>2, <2>3, <1>3 DEF TaskDone
    <2>4. CASE v = t
      <3>1. tasks' = (tasks \ {t}) \cup {[t EXCEPT !.retried = TRUE]}
        BY <1>3, <2>1, <2>2, <2>4 DEF TaskDone, Sticky
      <3>2. /\ [t EXCEPT !.retried = TRUE].ref = q
            /\ [t EXCEPT !.retried = TRUE].kind = "patch"
            /\ [t EXCEPT !.retried = TRUE].status \in Terminal
        BY <1>4, <2>2, <2>4 DEF Task
      <3> QED BY <3>1, <3>2
    <2> QED BY <2>3, <2>4
  <1> QED BY <1>7, <1>8, <1>9, <1>10, <1>11

-----------------------------------------------------------------------------
LEMMA StepKeeps == PajInv /\ [Next]_vars => PajInv'
  <1> SUFFICES ASSUME PajInv, [Next]_vars PROVE PajInv'
    OBVIOUS
  <1>1. CASE UNCHANGED vars
    BY <1>1 DEF vars, PajInv, PajTypeOK, LedgerTypeOK, HooksOK, OrdersOK, TaskOK,
       LedgerOK, NoticesOK, DepositHasOrder, OutcomeOnItsWay, Named, NamedLedger
  <1>2. CASE \E o \in Refs : Place(o)
    BY <1>2, PlacingKeeps, InsertKeeps DEF Place
  <1>3. CASE \E d \in Deliveries : Deliver(d)
    BY <1>3, WebhookKeeps, HandlerEndKeeps DEF Deliver
  <1>4. CASE Crash
    BY <1>4, CrashKeeps
  <1>5. CASE LedgerNext /\ UNCHANGED pajVars
    BY <1>5, LedgerKeeps
  <1> QED BY <1>1, <1>2, <1>3, <1>4, <1>5 DEF Next

LEMMA PajInvariant == Spec => []PajInv
  BY PajInitial, StepKeeps, PTL DEF Spec

(* An outcome that a webhook of o named is the order's, or both were named. *)
LEMMA NamedIsOrders ==
    ASSUME PajInv, NEW o \in Refs, NEW s \in Outcomes, Named(hook, o, s)
    PROVE  order[o] = s \/ Conflicting(o)
  <1>1. order[o] \in Outcomes
    BY DEF PajInv, HooksOK, Named
  <1>2. Named(hook, o, order[o])
    BY <1>1 DEF PajInv, OrdersOK
  <1> QED BY <1>1, <1>2 DEF Named, Conflicting, Ended, Outcomes

(* The state of orders, handlers, notices and ledger always has its type. *)
THEOREM PajTyped == Spec => []PajTypeOK
  <1>1. PajInv => PajTypeOK
    BY DEF PajInv
  <1> QED BY <1>1, PajInvariant, PTL

(* No order of webhooks, retries, faults and crashes drops an outcome      *)
(* without a task having been lost.                                        *)
THEOREM OutcomeNotForgotten == Spec => []OutcomeOnItsWay
  <1>1. PajInv => OutcomeOnItsWay
    BY DEF PajInv
  <1> QED BY <1>1, PajInvariant, PTL

(* No deposit leaves before its order is recorded. *)
THEOREM DepositsRecorded == Spec => []DepositHasOrder
  <1>1. PajInv => DepositHasOrder
    BY DEF PajInv
  <1> QED BY <1>1, PajInvariant, PTL

(* The ledger disagrees with an order only if PAJ named both outcomes. *)
THEOREM LedgerAgreement == Spec => []LedgerAgrees
  <1>1. PajInv => LedgerAgrees
    <2> SUFFICES ASSUME PajInv, NEW o \in Refs, ledger[o].status \in Terminal
                 PROVE  ledger[o].status = LedgerStatus(order[o]) \/ Conflicting(o)
      BY DEF LedgerAgrees
    <2>1. PICK s \in Outcomes :
             Named(hook, o, s) /\ LedgerStatus(s) = ledger[o].status
      BY DEF PajInv, LedgerOK, NamedLedger
    <2> QED BY <2>1, NamedIsOrders
  <1> QED BY <1>1, PajInvariant, PTL

(* Users are told the outcome the order keeps, unless PAJ named both. *)
THEOREM NoticeAgreement == Spec => []NoticesMatchOrder
  <1>1. PajInv => NoticesMatchOrder
    BY NamedIsOrders DEF PajInv, PajTypeOK, NoticesOK, NoticesMatchOrder
  <1> QED BY <1>1, PajInvariant, PTL

-----------------------------------------------------------------------------
(* Refinement. *)

LEMMA MapInit == Init => Mirrored!Init
  BY DEF Init, LedgerInit, Mirrored!Init, View

(* A step that changes one order's row, seen through the mapping. *)
LEMMA MapOrderStep ==
    ASSUME PajInv, NEW o \in Refs, UNCHANGED ledger,
           order' \in [Refs -> OrderStatus \cup {"none"}],
           \A q \in Refs \ {o} : order'[q] = order[q],
           \/ View(order'[o]) = View(order[o])
           \/ View(order[o]) = "absent" /\ View(order'[o]) = "open"
           \/ View(order[o]) = "open" /\ View(order'[o]) \in Mirrored!Outcomes
    PROVE  [Mirrored!Next]_(Mirrored!vars)
  <1> DEFINE state == [q \in Refs |-> View(order[q])]
             state2 == [q \in Refs |-> View(order'[q])]
  <1>1. state2 = [state EXCEPT ![o] = View(order'[o])]
    OBVIOUS
  <1>2. CASE View(order'[o]) = View(order[o])
    BY <1>1, <1>2 DEF Mirrored!vars
  <1>3. CASE View(order[o]) = "absent" /\ View(order'[o]) = "open"
    BY <1>1, <1>3 DEF Mirrored!Next, Mirrored!Open
  <1>4. CASE View(order[o]) = "open" /\ View(order'[o]) \in Mirrored!Outcomes
    BY <1>1, <1>4 DEF Mirrored!Next, Mirrored!Close
  <1> QED BY <1>2, <1>3, <1>4

LEMMA MapLedgerStep ==
    ASSUME PajInv, LedgerNext, UNCHANGED order
    PROVE  [Mirrored!Next]_(Mirrored!vars)
  <1> DEFINE state == [q \in Refs |-> View(order[q])]
             mirror == [q \in Refs |-> View(ledger[q].status)]
             mirror2 == [q \in Refs |-> View(ledger'[q].status)]
  <1>1. LedgerTypeOK
    BY DEF PajInv, PajTypeOK
  <1>2. PICK t \in tasks : TaskDone(t)
    BY <1>1, LedgerStep
  <1>3. /\ t.ref \in Refs /\ TaskOK(t) /\ t.status \in RowStatus
        /\ t.kind \in {"log", "patch"}
        /\ ledger[t.ref].status \in RowStatus \cup {"absent"}
    BY <1>1 DEF PajInv, LedgerTypeOK, Task
  <1>4. CASE UNCHANGED ledger
    BY <1>4 DEF Mirrored!vars
  <1>5. CASE ~UNCHANGED ledger
    <2>1. PICK g \in MaybeSig :
             /\ ledger' = [ledger EXCEPT ![t.ref] =
                             [status |-> Sticky(ledger[t.ref].status, t.status),
                              sig    |-> g]]
             /\ t.kind = "patch" => ledger[t.ref].status # "absent"
      BY <1>2, <1>5 DEF TaskDone, RowStep
    <2>2. /\ \A q \in Refs \ {t.ref} : ledger'[q] = ledger[q]
          /\ ledger'[t.ref].status = Sticky(ledger[t.ref].status, t.status)
      BY <2>1, <1>1, <1>3 DEF LedgerTypeOK
    <2>3. mirror2 = [mirror EXCEPT ![t.ref] = View(ledger'[t.ref].status)]
      BY <2>2
    <2>4. CASE View(ledger'[t.ref].status) = View(ledger[t.ref].status)
      BY <2>3, <2>4 DEF Mirrored!vars
    <2>5. CASE View(ledger'[t.ref].status) # View(ledger[t.ref].status)
      <3>1. \/ /\ ledger[t.ref].status = "absent" /\ t.kind = "log"
               /\ ledger'[t.ref].status = "PENDING"
            \/ /\ ledger[t.ref].status = "PENDING"
               /\ ledger'[t.ref].status = t.status /\ t.status \in Terminal
        BY <2>1, <2>2, <2>5, <1>3 DEF Sticky, TaskOK, RowStatus, Terminal
      <3>2. CASE ledger[t.ref].status = "absent"
        <4>1. View(order[t.ref]) # "absent"
          BY <1>3 DEF PajInv, PajTypeOK, TaskOK, View, OrderStatus, Outcomes
        <4>2. View(ledger[t.ref].status) = "absent"
              /\ View(ledger'[t.ref].status) = "open"
          BY <3>1, <3>2 DEF View
        <4> QED BY <2>3, <4>1, <4>2, <1>3 DEF Mirrored!Next, Mirrored!MirrorOpen
      <3>3. CASE ledger[t.ref].status = "PENDING"
        <4>1. order[t.ref] \in Outcomes
          BY <3>1, <3>3, <1>3 DEF PajInv, TaskOK, NamedLedger, Named, HooksOK
        <4>2. View(order[t.ref]) \in Mirrored!Outcomes
          BY <4>1 DEF View, Outcomes, Mirrored!Outcomes
        <4>3. View(ledger[t.ref].status) = "open"
              /\ View(ledger'[t.ref].status) \in Mirrored!Outcomes
          BY <3>1, <3>3 DEF View, Terminal, Mirrored!Outcomes
        <4> QED BY <2>3, <4>2, <4>3, <1>3 DEF Mirrored!Next, Mirrored!MirrorClose
      <3> QED BY <3>1, <3>2, <3>3
    <2> QED BY <2>4, <2>5
  <1> QED BY <1>4, <1>5

LEMMA MapStep == PajInv /\ [Next]_vars => [Mirrored!Next]_(Mirrored!vars)
  <1> SUFFICES ASSUME PajInv, [Next]_vars PROVE [Mirrored!Next]_(Mirrored!vars)
    OBVIOUS
  <1>1. CASE UNCHANGED <<order, ledger>>
    BY <1>1 DEF Mirrored!vars
  <1>2. CASE \E o \in Refs : InsertOrder(o) \/ InsertUnacknowledged(o)
    <2>1. PICK o \in Refs : InsertOrder(o) \/ InsertUnacknowledged(o)
      BY <1>2
    <2>2. /\ UNCHANGED ledger
          /\ order[o] = "none" /\ order' = [order EXCEPT ![o] = "pending"]
          /\ order' \in [Refs -> OrderStatus \cup {"none"}]
      BY <2>1, Values DEF PajInv, OrdersOK, PajTypeOK, InsertOrder,
         InsertUnacknowledged
    <2>3. View(order[o]) = "absent" /\ View(order'[o]) = "open"
      BY <2>2 DEF View, PajInv, PajTypeOK
    <2> QED BY <2>2, <2>3, MapOrderStep DEF PajInv, PajTypeOK
  <1>3. CASE \E d \in Deliveries, o \in Refs, w \in Words :
                ApplyWebhook(d, o, w) \/ CommitUnacknowledged(d, o, w)
    <2>1. PICK d \in Deliveries, o \in Refs, w \in Words :
             ApplyWebhook(d, o, w) \/ CommitUnacknowledged(d, o, w)
      BY <1>3
    <2>2. /\ UNCHANGED ledger
          /\ order[o] # "none" /\ order[o] \in OrderStatus \cup {"none"}
          /\ order' = [order EXCEPT ![o] = AfterWebhook(order[o], Parse(w))]
          /\ Parse(w) \in OrderStatus
      BY <2>1, Values DEF PajInv, PajTypeOK, ApplyWebhook, CommitUnacknowledged
    <2>3. /\ order'[o] = IF order[o] \in Outcomes THEN order[o] ELSE Parse(w)
          /\ order' \in [Refs -> OrderStatus \cup {"none"}]
          /\ \A q \in Refs \ {o} : order'[q] = order[q]
      BY <2>2 DEF AfterWebhook, PajInv, PajTypeOK
    <2>4. \/ View(order'[o]) = View(order[o])
          \/ View(order[o]) = "open" /\ View(order'[o]) \in Mirrored!Outcomes
      BY <2>2, <2>3 DEF View, OrderStatus, Outcomes, Mirrored!Outcomes
    <2> QED BY <2>2, <2>3, <2>4, MapOrderStep
  <1>4. CASE LedgerNext /\ UNCHANGED pajVars
    BY <1>4, MapLedgerStep DEF pajVars
  <1> QED
    BY <1>1, <1>2, <1>3, <1>4 DEF vars, Next, Place, Deliver, CreateOrder,
       Abandon, Settle, SettleFails, RejectWebhook, Notify, NotifyFails, Crash,
       TasksDie, ledgerVars

(* Orders and their ledger rows refine the mirrored lifecycle: an order    *)
(* opens once and closes once, its ledger row opens after the order and    *)
(* closes after the order closed, for any webhooks, faults and crashes.    *)
THEOREM PajRefinesMirror == Spec => ImplementsMirror
  <1>1. PajInv /\ [Next]_vars => [Mirrored!Next]_(Mirrored!vars)
    BY MapStep
  <1> QED BY <1>1, MapInit, PajInvariant, PTL
          DEF Spec, ImplementsMirror, Mirrored!Spec

-----------------------------------------------------------------------------
(* The menus. *)

(* A request belongs to a session that has picked a direction, and what it *)
(* goes on with was complete when it was loaded.                           *)
Begun ==
    /\ IsFiniteSet(orders)
    /\ \A s \in Sessions : at[s] > 0 => dir[s] # "none"
    /\ \A o \in orders : dir[o.by] # "none"
    /\ \A q \in Requests : req[q].pc # "idle" =>
          /\ req[q].session \in Sessions
          /\ at[req[q].session] > 0
    /\ \A q \in Requests :
          \/ req[q].pc = "place"
          \/ req[q].pc = "store" /\ req[q].step > 1
          => Complete(q, req[q].copy)
    /\ \A q \in Requests :
          /\ req[q].pc = "load" => req[q].step > 1
          /\ req[q].pc = "place" => req[q].step > 1 /\ StepOf(q) = "pin"

(* A flow that only this session has written. *)
OwnFlow(f, s) ==
    /\ f.by = s
    /\ f.bank # Nothing => f.bank.by = s
    /\ f.amount # Nothing => f.amount.by = s

(* A flow whose entries all go with this token pick. *)
Current(f, n) ==
    /\ f.pick = n
    /\ f.bank # Nothing => f.bank.pick = n
    /\ f.amount # Nothing => f.amount.pick = n

(* A session that is past its first step finds its own flow or none. *)
Settled(s) ==
    \/ at[s] > 1
    \/ at[s] = 1 /\ answer[s] = "CON"
    \/ \E q \in Requests : req[q].session = s /\ req[q].pc = "load"

Interfered == mixed \cup gated

OwnFlows ==
    \A s \in Sessions \ Interfered :
        Settled(s) => flow[dir[s]] = NoFlow \/ OwnFlow(flow[dir[s]], s)

OwnCopies ==
    \A q \in Requests :
       /\ req[q].session \notin Interfered
       /\ \/ req[q].pc = "place"
          \/ req[q].pc = "store" /\ req[q].step > 1
       => OwnFlow(req[q].copy, req[q].session)

RampInv == RampTypeOK /\ Begun /\ OwnFlows /\ OwnCopies /\ OrderIsOwn

-----------------------------------------------------------------------------

(* The pieces of the type invariant that most steps leave alone. *)
LEMMA Records ==
  /\ NoFlow \in Flow /\ Nothing \in Entry
  /\ \A f \in Flow, s \in Sessions, n \in 0..MaxPicks :
        WithBank(f, s, n) \in Flow /\ WithAmount(f, s, n) \in Flow
  BY RampAssumption
     DEF NoFlow, Flow, Nothing, Entry, WithBank, WithAmount

Request == [pc: {"idle", "load", "store", "place", "delete"},
            session: Sessions \cup {"nobody"}, step: 0..4,
            pick: 0..MaxPicks, copy: Flow]

Placed == [n: 1..MaxOrders, by: Sessions, pick: 0..MaxPicks, from: Flow]

LEMMA Steps ==
  ASSUME NEW s \in Sessions
  PROVE  1..Len(MenuOf(s)) \subseteq 1..4
  <1>1. Len(MenuOf(s)) \in {3, 4}
    <2>1. CASE dir[s] = "onramp"
      BY <2>1 DEF MenuOf, Menu
    <2>2. CASE dir[s] # "onramp"
      BY <2>2 DEF MenuOf, Menu
    <2> QED BY <2>1, <2>2
  <1>2. \A L \in {3, 4} : 1..L \subseteq 1..4
    OBVIOUS
  <1> QED BY <1>1, <1>2

LEMMA NewFlowTyped ==
  ASSUME RampTypeOK, NEW s \in Sessions, NEW f, NEW n \in 0..MaxPicks, flows < MaxFlows
  PROVE  NewFlow(f, s, n) \in Flow
  <1>1. flows + 1 \in 0..MaxFlows
    BY RampAssumption DEF RampTypeOK
  <1> QED BY <1>1, Records DEF NewFlow, Flow

LEMMA EndsTyped ==
  ASSUME RampTypeOK, NEW q \in Requests, NEW a \in {"CON", "END"}, Ends(q, a)
  PROVE  /\ req' \in [Requests -> Request]
         /\ answer' \in [Sessions -> {"none", "CON", "END"}]
  <1>1. NoRequest \in Request
    BY Records, RampAssumption DEF NoRequest, Request
  <1>2. req' \in [Requests -> Request]
    BY <1>1 DEF RampTypeOK, Ends, Request
  <1>3. answer' \in [Sessions -> {"none", "CON", "END"}]
    BY DEF RampTypeOK, Ends
  <1> QED BY <1>2, <1>3

LEMMA CopyTyped ==
  ASSUME RampTypeOK, NEW q \in Requests, NEW p \in {"place", "store"}, NEW f \in Flow
  PROVE  [req EXCEPT ![q].pc = p, ![q].copy = f] \in [Requests -> Request]
  <1> DEFINE z == [req[q] EXCEPT !.pc = p, !.copy = f]
  <1>1. req \in [Requests -> Request] /\ req[q] \in Request
    BY DEF RampTypeOK, Request, Placed
  <1>2. z \in Request
    BY <1>1 DEF Request
  <1>3. [req EXCEPT ![q].pc = p, ![q].copy = f] = [req EXCEPT ![q] = z]
    OBVIOUS
  <1> HIDE DEF z
  <1> QED BY <1>1, <1>2, <1>3

LEMMA StoreTyped ==
  ASSUME RampTypeOK, NEW q \in Requests, NEW f \in Flow, Store(q, f)
  PROVE  /\ flow' \in [Directions -> Flow]
         /\ mixed' \subseteq Sessions
  BY DEF RampTypeOK, Store

LEMMA ArrivesTyped ==
  ASSUME RampTypeOK, NEW q \in Requests, NEW s \in Sessions, NEW step \in 0..4,
         Arrives(q, s, step), pick' \in [Sessions -> 0..MaxPicks]
  PROVE  /\ req' \in [Requests -> Request]
         /\ overlapped' \subseteq Sessions
  <1>4. pick'[s] \in 0..MaxPicks
    OBVIOUS
  <1>1. \A p \in {"load", "store"} :
           [NoRequest EXCEPT !.pc = p, !.session = s, !.step = step,
                             !.pick = pick'[s]] \in Request
    BY <1>4, Records DEF NoRequest, Request
  <1>2. req' \in [Requests -> Request]
    BY <1>1 DEF RampTypeOK, Arrives, Request
  <1>3. overlapped' \subseteq Sessions
    BY DEF RampTypeOK, Arrives
  <1> QED BY <1>2, <1>3

LEMMA OrderTyped ==
  ASSUME RampTypeOK, Begun, NEW q \in Requests, req[q].pc = "place", Order(q)
  PROVE  /\ orders' \subseteq Placed
         /\ IsFiniteSet(orders')
  <1>1. Cardinality(orders) \in Nat
    BY FS_CardinalityType DEF Begun
  <1>3. Cardinality(orders) + 1 \in 1..MaxOrders
    BY <1>1, RampAssumption DEF Order
  <1>4. IsFiniteSet(orders')
    BY FS_AddElement DEF Begun, Order
  <1>2. /\ req[q].session \in Sessions /\ req[q].copy \in Flow
        /\ req[q].pick \in 0..MaxPicks
    BY DEF Begun, RampTypeOK
  <1> QED BY <1>2, <1>3, <1>4 DEF Order, RampTypeOK, Placed

LEMMA TypeStep ==
  ASSUME RampTypeOK, Begun, [RampNext]_rampVars
  PROVE  RampTypeOK'
  <1>1. ASSUME NEW q \in Requests, NEW s \in Sessions, Ask(q, s)
         PROVE  RampTypeOK'
    <2>1. UNCHANGED <<flow, flows, dir, orders, mixed, gated,
                    doubtful, failures>>
      BY <1>1 DEF Ask, redis, sessions, ghosts, Failure, Ends, Store, Arrives
    <2>4. /\ pick' \in [Sessions -> 0..MaxPicks]
          /\ repeats' \in 0..MaxTrouble
      <3>1. PicksAnew(s) \/ UNCHANGED <<pick, repeats>>
        BY <1>1 DEF Ask
      <3> QED BY <3>1, RampAssumption DEF PicksAnew, RampTypeOK
    <2>2. /\ req' \in [Requests -> Request]
          /\ overlapped' \subseteq Sessions
          /\ at' \in [Sessions -> 0..4]
      <3>1. PICK step \in 1..Len(MenuOf(s)) :
                 Arrives(q, s, step) /\ at' = [at EXCEPT ![s] = step]
        BY <1>1 DEF Ask
      <3>2. step \in 0..4
        BY Steps
      <3> QED BY <2>4, <3>1, <3>2, ArrivesTyped DEF RampTypeOK
    <2>3. answer' \in [Sessions -> {"none", "CON", "END"}]
      BY <1>1 DEF Ask, RampTypeOK
    <2> QED BY <2>1, <2>2, <2>3, <2>4 DEF RampTypeOK, Request, Placed
  <1>2. ASSUME NEW q \in Requests, NEW s \in Sessions, Repeat(q, s)
         PROVE  RampTypeOK'
    <2>1. UNCHANGED <<flow, flows, dir, at, pick, answer, orders, mixed,
                    gated, doubtful, failures>>
      BY <1>2 DEF Repeat, redis, sessions, ghosts, Failure, Ends, Store, Arrives
    <2>2. /\ req' \in [Requests -> Request]
          /\ overlapped' \subseteq Sessions
      BY <1>2, <2>1, ArrivesTyped DEF Repeat, RampTypeOK
    <2>3. repeats' \in 0..MaxTrouble
      BY <1>2, RampAssumption DEF Repeat, RampTypeOK
    <2> QED BY <2>1, <2>2, <2>3 DEF RampTypeOK, Request, Placed
  <1>3. ASSUME NEW q \in Requests, NEW s \in Sessions, NEW d \in Directions, Open(q, s, d)
         PROVE  RampTypeOK'
    <2>1. UNCHANGED <<flow, flows, orders, mixed, gated, doubtful,
                    repeats, failures>>
      BY <1>3 DEF Open, redis, sessions, ghosts, Failure, Ends, Store, Arrives
    <2>4. pick' \in [Sessions -> 0..MaxPicks]
      BY <1>3, RampAssumption DEF Open, RampTypeOK
    <2>2. /\ req' \in [Requests -> Request]
          /\ overlapped' \subseteq Sessions
      BY <1>3, <2>4, ArrivesTyped DEF Open
    <2>3. /\ dir' \in [Sessions -> Directions \cup {"none"}]
          /\ at' \in [Sessions -> 0..4]
          /\ answer' \in [Sessions -> {"none", "CON", "END"}]
      BY <1>3 DEF Open, RampTypeOK
    <2> QED BY <2>1, <2>2, <2>3, <2>4 DEF RampTypeOK, Request, Placed
  <1>4. ASSUME NEW q \in Requests, StoreToken(q) PROVE RampTypeOK'
    <2>1. UNCHANGED <<dir, at, pick, orders, gated, overlapped, doubtful,
                    repeats, failures>>
      BY <1>4 DEF StoreToken, redis, sessions, ghosts, Failure, Ends, Store, Arrives
    <2>2. /\ req' \in [Requests -> Request]
          /\ answer' \in [Sessions -> {"none", "CON", "END"}]
      BY <1>4, EndsTyped DEF StoreToken
    <2>3. /\ flow' \in [Directions -> Flow]
          /\ mixed' \subseteq Sessions
      <3>1. req[q].session \in Sessions
        BY <1>4 DEF StoreToken, Begun
      <3>2. NewFlow(flow[Key(req[q].session)], req[q].session, req[q].pick) \in Flow
        BY <1>4, <3>1, NewFlowTyped DEF StoreToken, RampTypeOK
      <3> QED BY <1>4, <3>2, StoreTyped DEF StoreToken
    <2>4. flows' \in 0..MaxFlows
      BY <1>4, RampAssumption DEF StoreToken, RampTypeOK
    <2> QED BY <2>1, <2>2, <2>3, <2>4 DEF RampTypeOK, Request, Placed
  <1>5. ASSUME NEW q \in Requests, Load(q) PROVE RampTypeOK'
    <2>1. UNCHANGED <<flow, flows, dir, at, pick, answer, orders, mixed, gated,
                    overlapped, doubtful, repeats, failures>>
      BY <1>5 DEF Load, redis, sessions, ghosts, Failure, Ends, Store, Arrives
    <2>2. req' \in [Requests -> Request]
      <3>1. flow[Key(req[q].session)] \in Flow
        BY <1>5 DEF Load, Begun, Key, RampTypeOK
      <3> QED BY <1>5, <3>1, CopyTyped DEF Load
    <2> QED BY <2>1, <2>2 DEF RampTypeOK, Request, Placed
  <1>6. ASSUME NEW q \in Requests, LoadFails(q) PROVE RampTypeOK'
    <2>1. UNCHANGED <<flow, flows, dir, at, pick, orders, mixed, gated,
                    overlapped, doubtful, repeats, failures>>
      BY <1>6 DEF LoadFails, redis, sessions, ghosts, Failure, Ends, Store, Arrives
    <2>2. /\ req' \in [Requests -> Request]
          /\ answer' \in [Sessions -> {"none", "CON", "END"}]
      BY <1>6, EndsTyped DEF LoadFails
    <2> QED BY <2>1, <2>2 DEF RampTypeOK, Request, Placed
  <1>7. ASSUME NEW q \in Requests, StoreEntry(q) PROVE RampTypeOK'
    <2>1. UNCHANGED <<flows, dir, at, pick, orders, gated, overlapped,
                    doubtful, repeats, failures>>
      BY <1>7 DEF StoreEntry, redis, sessions, ghosts, Failure, Ends, Store, Arrives
    <2>2. /\ req' \in [Requests -> Request]
          /\ answer' \in [Sessions -> {"none", "CON", "END"}]
      BY <1>7, EndsTyped DEF StoreEntry
    <2>3. /\ flow' \in [Directions -> Flow]
          /\ mixed' \subseteq Sessions
      <3>1. /\ req[q].session \in Sessions /\ req[q].copy \in Flow
            /\ req[q].pick \in 0..MaxPicks
        BY <1>7 DEF StoreEntry, Begun, RampTypeOK
      <3> QED BY <1>7, <3>1, Records, StoreTyped DEF StoreEntry
    <2> QED BY <2>1, <2>2, <2>3 DEF RampTypeOK, Request, Placed
  <1>8. ASSUME NEW q \in Requests, Gate(q) PROVE RampTypeOK'
    <2>1. UNCHANGED <<flow, flows, dir, at, pick, orders, mixed, overlapped,
                    doubtful, repeats, failures>>
      BY <1>8 DEF Gate, redis, sessions, ghosts, Failure, Ends, Store, Arrives
    <2>2. /\ req' \in [Requests -> Request]
          /\ answer' \in [Sessions -> {"none", "CON", "END"}]
      BY <1>8, EndsTyped DEF Gate
    <2>3. gated' \subseteq Sessions
      BY <1>8 DEF Gate, Begun, RampTypeOK
    <2> QED BY <2>1, <2>2, <2>3 DEF RampTypeOK, Request, Placed
  <1>9. ASSUME NEW q \in Requests, Reject(q) PROVE RampTypeOK'
    <2>1. UNCHANGED <<flow, flows, dir, at, pick, orders, mixed, gated,
                    overlapped, doubtful, repeats, failures>>
      BY <1>9 DEF Reject, redis, sessions, ghosts, Failure, Ends, Store, Arrives
    <2>2. /\ req' \in [Requests -> Request]
          /\ answer' \in [Sessions -> {"none", "CON", "END"}]
      BY <1>9, EndsTyped DEF Reject
    <2> QED BY <2>1, <2>2 DEF RampTypeOK, Request, Placed
  <1>10. ASSUME NEW q \in Requests, RedisFails(q) PROVE RampTypeOK'
    <2>1. UNCHANGED <<flow, flows, dir, at, pick, orders, mixed, gated,
                    overlapped, doubtful, repeats>>
      BY <1>10 DEF RedisFails, redis, sessions, ghosts, Failure, Ends, Store, Arrives
    <2>2. /\ req' \in [Requests -> Request]
          /\ answer' \in [Sessions -> {"none", "CON", "END"}]
      BY <1>10, EndsTyped DEF RedisFails
    <2>3. failures' \in 0..MaxTrouble
      BY <1>10, RampAssumption DEF RedisFails, Failure, RampTypeOK
    <2> QED BY <2>1, <2>2, <2>3 DEF RampTypeOK, Request, Placed
  <1>11. ASSUME NEW q \in Requests, PlaceOrder(q) PROVE RampTypeOK'
    <2>1. UNCHANGED <<flow, flows, dir, at, pick, answer, mixed, gated,
                    overlapped, doubtful, repeats, failures>>
      BY <1>11 DEF PlaceOrder, redis, sessions, ghosts, Failure, Ends, Store, Arrives
    <2>2. req' \in [Requests -> Request]
      BY <1>11 DEF PlaceOrder, RampTypeOK, Request, Placed
    <2>3. orders' \subseteq Placed
      BY <1>11, OrderTyped DEF PlaceOrder, RampTypeOK
    <2> QED BY <2>1, <2>2, <2>3 DEF RampTypeOK, Request, Placed
  <1>12. ASSUME NEW q \in Requests, PlaceFails(q) PROVE RampTypeOK'
    <2>1. UNCHANGED <<flow, flows, dir, at, pick, mixed, gated,
                    overlapped, repeats, failures>>
      BY <1>12 DEF PlaceFails, redis, sessions, ghosts, Failure, Ends, Store, Arrives
    <2>2. /\ req' \in [Requests -> Request]
          /\ answer' \in [Sessions -> {"none", "CON", "END"}]
      BY <1>12, EndsTyped DEF PlaceFails
    <2>3. orders' \subseteq Placed
      <3>1. orders \subseteq Placed
        BY DEF RampTypeOK, Placed
      <3>2. Order(q) \/ orders' = orders
        BY <1>12 DEF PlaceFails
      <3> QED BY <1>12, <3>1, <3>2, OrderTyped DEF PlaceFails
    <2>4. doubtful' \subseteq Sessions
      BY <1>12 DEF PlaceFails, Begun, RampTypeOK
    <2> QED BY <2>1, <2>2, <2>3, <2>4 DEF RampTypeOK, Request, Placed
  <1>13. ASSUME NEW q \in Requests, Delete(q) PROVE RampTypeOK'
    <2>1. UNCHANGED <<flows, dir, at, pick, orders, mixed, gated, overlapped,
                    doubtful, repeats, failures>>
      BY <1>13 DEF Delete, redis, sessions, ghosts, Failure, Ends, Store, Arrives
    <2>2. /\ req' \in [Requests -> Request]
          /\ answer' \in [Sessions -> {"none", "CON", "END"}]
      BY <1>13, EndsTyped DEF Delete
    <2>3. flow' \in [Directions -> Flow]
      BY <1>13, Records DEF Delete, RampTypeOK
    <2> QED BY <2>1, <2>2, <2>3 DEF RampTypeOK, Request, Placed
  <1>14. ASSUME NEW d \in Directions, Expire(d) PROVE RampTypeOK'
    BY <1>14, Records DEF Expire, RampTypeOK, sessions, ghosts
  <1>15. CASE UNCHANGED rampVars
    BY <1>15 DEF rampVars, RampTypeOK
  <1> QED
    BY <1>1, <1>2, <1>3, <1>4, <1>5, <1>6, <1>7, <1>8, <1>9, <1>10,
       <1>11, <1>12, <1>13, <1>14, <1>15
    DEF RampNext, Step

-----------------------------------------------------------------------------

LEMMA EndsFrame ==
  ASSUME RampTypeOK, NEW q \in Requests, NEW a \in {"CON", "END"}, Ends(q, a)
  PROVE  /\ req'[q] = NoRequest
         /\ req'[q].pc = "idle"
         /\ \A p \in Requests \ {q} : req'[p] = req[p]
  BY DEF RampTypeOK, Ends, NoRequest

LEMMA ArrivesFrame ==
  ASSUME RampTypeOK, NEW q \in Requests, NEW s \in Sessions, NEW step,
         Arrives(q, s, step)
  PROVE  /\ req[q].pc = "idle"
         /\ req'[q].session = s /\ req'[q].step = step
         /\ req'[q].copy = NoFlow /\ req'[q].pick = pick'[s]
         /\ req'[q].pc = IF step = 1 THEN "store" ELSE "load"
         /\ \A p \in Requests \ {q} : req'[p] = req[p]
  BY DEF RampTypeOK, Arrives, NoRequest

(* An order is of its session. *)
LEMMA NewOrder ==
  ASSUME Begun, NEW q \in Requests, req[q].pc = "place", Order(q)
  PROVE  \A o \in orders' :
            o \in orders \/ (/\ o.by = req[q].session /\ o.pick = req[q].pick
                            /\ o.from = req[q].copy /\ dir[o.by] # "none")
  <1>1. dir[req[q].session] # "none"
    BY DEF Begun
  <1> DEFINE new == [n |-> Cardinality(orders) + 1, by |-> req[q].session,
                     pick |-> req[q].pick, from |-> req[q].copy]
  <1>2. orders' = orders \cup {new}
    BY DEF Order
  <1>3. new.by = req[q].session /\ new.pick = req[q].pick /\ new.from = req[q].copy
    OBVIOUS
  <1> HIDE DEF new
  <1> QED BY <1>1, <1>2, <1>3

LEMMA EndsBegun ==
  ASSUME RampTypeOK, Begun, NEW q \in Requests, NEW a \in {"CON", "END"}, Ends(q, a),
         dir' = dir, at' = at, orders' = orders \/ (req[q].pc = "place" /\ Order(q))
  PROVE  Begun'
  <1>2. /\ IsFiniteSet(orders')
        /\ \A o \in orders' : dir'[o.by] # "none"
    BY OrderTyped, NewOrder DEF Begun
  <1> QED BY <1>2, EndsFrame DEF Begun, Complete, StepOf, MenuOf

LEMMA BegunStep ==
  ASSUME RampTypeOK, Begun, [RampNext]_rampVars
  PROVE  Begun'
  <1>1. ASSUME NEW q \in Requests, NEW s \in Sessions, Ask(q, s) PROVE Begun'
    <2>1. PICK step \in 1..Len(MenuOf(s)) :
               Arrives(q, s, step) /\ at' = [at EXCEPT ![s] = step]
      BY <1>1 DEF Ask
    <2>2. step \in 1..4 /\ dir[s] # "none" /\ UNCHANGED <<dir, orders>>
      BY <1>1, Steps DEF Ask
    <2>3. \A t \in Sessions : at'[t] = IF t = s THEN step ELSE at[t]
      BY <2>1 DEF RampTypeOK
    <2> QED BY <2>1, <2>2, <2>3, ArrivesFrame DEF Begun, Complete, StepOf, MenuOf
  <1>2. ASSUME NEW q \in Requests, NEW s \in Sessions, Repeat(q, s)
         PROVE  Begun'
    <2>1. UNCHANGED <<dir, at, orders>>
      BY <1>2 DEF Repeat, sessions
    <2>2. Arrives(q, s, at[s]) /\ at[s] > 0 /\ at[s] \in Nat
      BY <1>2 DEF Repeat, RampTypeOK
    <2> QED BY <2>1, <2>2, ArrivesFrame DEF Begun, Complete, StepOf, MenuOf
  <1>3. ASSUME NEW q \in Requests, NEW s \in Sessions, NEW d \in Directions, Open(q, s, d)
         PROVE  Begun'
    <2>1. /\ UNCHANGED orders /\ dir[s] = "none" /\ d # "none"
          /\ dir' = [dir EXCEPT ![s] = d] /\ at' = [at EXCEPT ![s] = 1]
      BY <1>3 DEF Open, Directions
    <2>2. Arrives(q, s, 1)
      BY <1>3 DEF Open
    <2>3. \A t \in Sessions : dir[t] # "none" => dir'[t] = dir[t] /\ at'[t] = at[t]
      BY <2>1 DEF RampTypeOK
    <2>4. \A p \in Requests \ {q} : req[p].pc # "idle" =>
             dir'[req[p].session] = dir[req[p].session]
      BY <2>3 DEF Begun
    <2>5. /\ IsFiniteSet(orders')
          /\ \A o \in orders' : dir'[o.by] # "none"
      <3>1. \A o \in orders : o.by \in Sessions
        BY DEF RampTypeOK
      <3> QED BY <2>1, <2>3, <3>1 DEF Begun
    <2>6. \A t \in Sessions : at'[t] > 0 => dir'[t] # "none"
      <3>1. \A t \in Sessions : /\ dir'[t] = IF t = s THEN d ELSE dir[t]
                               /\ at'[t] = IF t = s THEN 1 ELSE at[t]
        BY <2>1 DEF RampTypeOK
      <3>2. \A t \in Sessions : at[t] > 0 => dir[t] # "none"
        BY DEF Begun
      <3> QED BY <2>1, <3>1, <3>2
    <2>7. /\ req'[q].session = s /\ req'[q].pc = "store" /\ req'[q].step = 1
          /\ \A p \in Requests \ {q} : req'[p] = req[p]
      BY <2>2, ArrivesFrame
    <2>8. \A p \in Requests : req'[p].pc # "idle" =>
             req'[p].session \in Sessions /\ at'[req'[p].session] > 0
      <3>1. at'[s] > 0
        BY <2>1 DEF RampTypeOK
      <3>2. \A p \in Requests \ {q} : req[p].pc # "idle" =>
               req[p].session \in Sessions /\ at'[req[p].session] > 0
        BY <2>3 DEF Begun
      <3> QED BY <2>7, <3>1, <3>2
    <2>9. \A p \in Requests \ {q} : req[p].pc # "idle" => UNCHANGED StepOf(p)
      BY <2>4, <2>7 DEF StepOf, MenuOf
    <2>10. \A p \in Requests :
             \/ req'[p].pc = "place"
             \/ req'[p].pc = "store" /\ req'[p].step > 1
             => Complete(p, req[p].copy)'
      BY <2>4, <2>7, <2>9 DEF Begun, Complete
    <2>11. \A p \in Requests :
             /\ req'[p].pc = "load" => req'[p].step > 1
             /\ req'[p].pc = "place" => req'[p].step > 1 /\ StepOf(p)' = "pin"
      BY <2>7, <2>9 DEF Begun
    <2> QED BY <2>5, <2>6, <2>8, <2>10, <2>11 DEF Begun
  <1>4. ASSUME NEW q \in Requests, StoreToken(q) PROVE Begun'
    BY <1>4, EndsBegun DEF StoreToken, sessions
  <1>5. ASSUME NEW q \in Requests, Load(q) PROVE Begun'
    <2>1. /\ req'[q].pc = IF StepOf(q) = "pin" THEN "place" ELSE "store"
          /\ req'[q].copy = flow[Key(req[q].session)]
          /\ req'[q].session = req[q].session /\ req'[q].step = req[q].step
          /\ \A p \in Requests \ {q} : req'[p] = req[p]
      BY <1>5 DEF Load, RampTypeOK
    <2>2. UNCHANGED <<dir, at, orders>>
      BY <1>5 DEF Load, sessions
    <2>3. UNCHANGED StepOf(q) /\ req[q].step > 1 /\ req[q].pc = "load"
      BY <1>5, <2>1, <2>2 DEF Load, Begun, StepOf, MenuOf
    <2>4. Complete(q, req[q].copy)'
      BY <1>5, <2>1, <2>2, <2>3 DEF Load, Complete
    <2>5. \A p \in Requests \ {q} :
             UNCHANGED StepOf(p) /\ (Complete(p, req[p].copy) => Complete(p,
             req[p].copy)')
      BY <2>1, <2>2 DEF Complete, StepOf, MenuOf
    <2> QED BY <2>1, <2>2, <2>3, <2>4, <2>5 DEF Begun
  <1>6. ASSUME NEW q \in Requests, LoadFails(q) PROVE Begun'
    BY <1>6, EndsBegun DEF LoadFails, sessions
  <1>7. ASSUME NEW q \in Requests, StoreEntry(q) PROVE Begun'
    BY <1>7, EndsBegun DEF StoreEntry, sessions
  <1>8. ASSUME NEW q \in Requests, Gate(q) PROVE Begun'
    BY <1>8, EndsBegun DEF Gate, sessions
  <1>9. ASSUME NEW q \in Requests, Reject(q) PROVE Begun'
    BY <1>9, EndsBegun DEF Reject, sessions
  <1>10. ASSUME NEW q \in Requests, RedisFails(q) PROVE Begun'
    BY <1>10, EndsBegun DEF RedisFails, sessions
  <1>11. ASSUME NEW q \in Requests, PlaceOrder(q) PROVE Begun'
    <2>1. /\ req'[q] = [req[q] EXCEPT !.pc = "delete"] /\ req'[q].pc = "delete"
          /\ \A p \in Requests \ {q} : req'[p] = req[p]
          /\ req'[q].session = req[q].session
      BY <1>11 DEF PlaceOrder, RampTypeOK
    <2>2. UNCHANGED <<dir, at>>
      BY <1>11 DEF PlaceOrder, sessions
    <2>3. /\ IsFiniteSet(orders')
          /\ \A o \in orders' : dir'[o.by] # "none"
      BY <1>11, <2>2, OrderTyped, NewOrder DEF Begun, PlaceOrder
    <2> QED BY <1>11, <2>1, <2>2, <2>3 DEF Begun, PlaceOrder, Complete, StepOf, MenuOf
  <1>12. ASSUME NEW q \in Requests, PlaceFails(q) PROVE Begun'
    BY <1>12, EndsBegun DEF PlaceFails, sessions
  <1>13. ASSUME NEW q \in Requests, Delete(q) PROVE Begun'
    BY <1>13, EndsBegun DEF Delete, sessions
  <1>14. ASSUME NEW d \in Directions, Expire(d) PROVE Begun'
    BY <1>14 DEF Expire, sessions, Begun, Complete, StepOf, MenuOf
  <1>15. CASE UNCHANGED rampVars
    BY <1>15 DEF rampVars, Begun, Complete, StepOf, MenuOf
  <1> QED
    BY <1>1, <1>2, <1>3, <1>4, <1>5, <1>6, <1>7, <1>8, <1>9, <1>10,
       <1>11, <1>12, <1>13, <1>14, <1>15
    DEF RampNext, Step

-----------------------------------------------------------------------------

LEMMA Entries ==
  \A f \in Flow, s \in Sessions, n \in 0..MaxPicks :
     /\ OwnFlow(NewFlow(f, s, n), s) /\ Current(NewFlow(f, s, n), n)
     /\ OwnFlow(f, s) => OwnFlow(WithBank(f, s, n), s) /\ OwnFlow(WithAmount(f, s, n), s)
     /\ Current(f, n) => Current(WithBank(f, s, n), n) /\ Current(WithAmount(f, s, n), n)
  <1> SUFFICES ASSUME NEW f \in Flow, NEW s \in Sessions, NEW n \in 0..MaxPicks
               PROVE  /\ OwnFlow(NewFlow(f, s, n), s) /\ Current(NewFlow(f, s, n), n)
                      /\ OwnFlow(f, s) => /\ OwnFlow(WithBank(f, s, n), s)
                                          /\ OwnFlow(WithAmount(f, s, n), s)
                      /\ Current(f, n) => /\ Current(WithBank(f, s, n), n)
                                          /\ Current(WithAmount(f, s, n), n)
    OBVIOUS
  <1> DEFINE g == NewFlow(f, s, n)
             b == WithBank(f, s, n)
             a == WithAmount(f, s, n)
  <1>1. g.by = s /\ g.pick = n /\ g.bank = Nothing /\ g.amount = Nothing
    BY DEF NewFlow, NoFlow
  <1>2. /\ b.by = f.by /\ b.pick = f.pick /\ b.amount = f.amount
        /\ b.bank.by = s /\ b.bank.pick = n
    BY DEF WithBank, Flow
  <1>3. /\ a.by = f.by /\ a.pick = f.pick /\ a.bank = f.bank
        /\ a.amount.by = s /\ a.amount.pick = n
    BY DEF WithAmount, Flow
  <1> HIDE DEF g, b, a
  <1>4. /\ OwnFlow(g, s) /\ Current(g, n)
        /\ OwnFlow(f, s) => OwnFlow(b, s) /\ OwnFlow(a, s)
        /\ Current(f, n) => Current(b, n) /\ Current(a, n)
    BY <1>1, <1>2, <1>3 DEF OwnFlow, Current
  <1> QED BY <1>4 DEF g, b, a

(* A new order's flow was loaded for the PIN step, so it is complete. *)
LEMMA OrderIsComplete ==
  ASSUME RampTypeOK, Begun, NEW q \in Requests, req[q].pc = "place"
  PROVE  /\ req[q].session \in Sessions
         /\ req[q].copy # NoFlow /\ req[q].copy.amount # Nothing
         /\ dir[req[q].session] = "offramp" => req[q].copy.bank # Nothing
  BY DEF Begun, Complete

-----------------------------------------------------------------------------

LEMMA InterferedGrows ==
  ASSUME [RampNext]_rampVars
  PROVE  Interfered \subseteq Interfered'
  <1> USE DEF Interfered
  <1>1. ASSUME NEW q \in Requests, NEW s \in Sessions, Ask(q, s)
         PROVE  Interfered \subseteq Interfered'
    BY <1>1 DEF Ask, Store, ghosts
  <1>2. ASSUME NEW q \in Requests, NEW s \in Sessions, Repeat(q, s)
         PROVE  Interfered \subseteq Interfered'
    BY <1>2 DEF Repeat, Store, ghosts
  <1>3. ASSUME NEW q \in Requests, NEW s \in Sessions, NEW d \in Directions, Open(q, s, d)
         PROVE  Interfered \subseteq Interfered'
    BY <1>3 DEF Open, Store, ghosts
  <1>4. ASSUME NEW q \in Requests, StoreToken(q)
         PROVE  Interfered \subseteq Interfered'
    BY <1>4 DEF StoreToken, Store, ghosts
  <1>5. ASSUME NEW q \in Requests, Load(q)
         PROVE  Interfered \subseteq Interfered'
    BY <1>5 DEF Load, Store, ghosts
  <1>6. ASSUME NEW q \in Requests, LoadFails(q)
         PROVE  Interfered \subseteq Interfered'
    BY <1>6 DEF LoadFails, Store, ghosts
  <1>7. ASSUME NEW q \in Requests, StoreEntry(q)
         PROVE  Interfered \subseteq Interfered'
    BY <1>7 DEF StoreEntry, Store, ghosts
  <1>8. ASSUME NEW q \in Requests, Gate(q)
         PROVE  Interfered \subseteq Interfered'
    BY <1>8 DEF Gate, Store, ghosts
  <1>9. ASSUME NEW q \in Requests, Reject(q)
         PROVE  Interfered \subseteq Interfered'
    BY <1>9 DEF Reject, Store, ghosts
  <1>10. ASSUME NEW q \in Requests, RedisFails(q)
         PROVE  Interfered \subseteq Interfered'
    BY <1>10 DEF RedisFails, Store, ghosts
  <1>11. ASSUME NEW q \in Requests, PlaceOrder(q)
         PROVE  Interfered \subseteq Interfered'
    BY <1>11 DEF PlaceOrder, Store, ghosts
  <1>12. ASSUME NEW q \in Requests, PlaceFails(q)
         PROVE  Interfered \subseteq Interfered'
    BY <1>12 DEF PlaceFails, Store, ghosts
  <1>13. ASSUME NEW q \in Requests, Delete(q)
         PROVE  Interfered \subseteq Interfered'
    BY <1>13 DEF Delete, Store, ghosts
  <1>14. ASSUME NEW d \in Directions, Expire(d)
         PROVE  Interfered \subseteq Interfered'
    BY <1>14 DEF Expire, Store, ghosts
  <1>15. CASE UNCHANGED rampVars
    BY <1>15 DEF rampVars
  <1> QED
    BY <1>1, <1>2, <1>3, <1>4, <1>5, <1>6, <1>7, <1>8, <1>9, <1>10,
       <1>11, <1>12, <1>13, <1>14, <1>15
    DEF RampNext, Step

(* What may be settled, is in the menus. *)
LEMMA SettledBegun ==
  ASSUME RampTypeOK, Begun, NEW s \in Sessions, Settled(s)
  PROVE  at[s] > 0 /\ dir[s] \in Directions
  BY DEF RampTypeOK, Begun, Settled

LEMMA OwnOrders ==
  ASSUME RampTypeOK, Begun, OwnCopies, OrderIsOwn, Interfered \subseteq Interfered',
         \A o \in orders : dir'[o.by] = dir[o.by],
         \/ orders' = orders
         \/ \E q \in Requests :
               req[q].pc = "place" /\ Order(q) /\ dir' = dir
  PROVE  OrderIsOwn'
  <1>1. CASE orders' = orders
    BY <1>1 DEF OrderIsOwn, Interfered
  <1>2. ASSUME NEW q \in Requests, req[q].pc = "place", Order(q), dir' = dir
        PROVE  OrderIsOwn'
    <2>1. \/ req[q].session \in Interfered
          \/ OwnFlow(req[q].copy, req[q].session)
      BY <1>2 DEF OwnCopies
    <2> QED BY <1>2, <2>1, OrderIsComplete DEF Order, OrderIsOwn, OwnFlow, Interfered
  <1> QED BY <1>1, <1>2

LEMMA OrderOwnStep ==
  ASSUME RampTypeOK, Begun, OwnCopies, OrderIsOwn, [RampNext]_rampVars
  PROVE  OrderIsOwn'
  <1>1. ASSUME NEW q \in Requests, NEW s \in Sessions, Ask(q, s)
         PROVE  OrderIsOwn'
    BY <1>1, InterferedGrows, OwnOrders DEF Ask, sessions, ghosts
  <1>2. ASSUME NEW q \in Requests, NEW s \in Sessions, Repeat(q, s)
         PROVE  OrderIsOwn'
    BY <1>2, InterferedGrows, OwnOrders DEF Repeat, sessions, ghosts
  <1>3. ASSUME NEW q \in Requests, NEW s \in Sessions, NEW d \in Directions, Open(q, s, d)
         PROVE  OrderIsOwn'
    <2>1. \A o \in orders : dir'[o.by] = dir[o.by]
      BY <1>3 DEF Open, Begun, RampTypeOK
    <2>2. orders' = orders
      BY <1>3 DEF Open
    <2> QED BY <2>1, <2>2, InterferedGrows, OwnOrders
  <1>4. ASSUME NEW q \in Requests, StoreToken(q) PROVE OrderIsOwn'
    BY <1>4, InterferedGrows, OwnOrders DEF StoreToken, sessions, ghosts
  <1>5. ASSUME NEW q \in Requests, Load(q) PROVE OrderIsOwn'
    BY <1>5, InterferedGrows, OwnOrders DEF Load, sessions, ghosts
  <1>6. ASSUME NEW q \in Requests, LoadFails(q) PROVE OrderIsOwn'
    BY <1>6, InterferedGrows, OwnOrders DEF LoadFails, sessions, ghosts
  <1>7. ASSUME NEW q \in Requests, StoreEntry(q) PROVE OrderIsOwn'
    BY <1>7, InterferedGrows, OwnOrders DEF StoreEntry, sessions, ghosts
  <1>8. ASSUME NEW q \in Requests, Gate(q) PROVE OrderIsOwn'
    BY <1>8, InterferedGrows, OwnOrders DEF Gate, sessions, ghosts
  <1>9. ASSUME NEW q \in Requests, Reject(q) PROVE OrderIsOwn'
    BY <1>9, InterferedGrows, OwnOrders DEF Reject, sessions, ghosts
  <1>10. ASSUME NEW q \in Requests, RedisFails(q) PROVE OrderIsOwn'
    BY <1>10, InterferedGrows, OwnOrders DEF RedisFails, sessions, ghosts
  <1>11. ASSUME NEW q \in Requests, PlaceOrder(q) PROVE OrderIsOwn'
    <2>1. dir' = dir
      BY <1>11 DEF PlaceOrder, sessions
    <2> QED BY <1>11, <2>1, InterferedGrows, OwnOrders DEF PlaceOrder
  <1>12. ASSUME NEW q \in Requests, PlaceFails(q) PROVE OrderIsOwn'
    <2>1. dir' = dir
      BY <1>12 DEF PlaceFails, sessions
    <2> QED BY <1>12, <2>1, InterferedGrows, OwnOrders DEF PlaceFails
  <1>13. ASSUME NEW q \in Requests, Delete(q) PROVE OrderIsOwn'
    BY <1>13, InterferedGrows, OwnOrders DEF Delete, sessions, ghosts
  <1>14. ASSUME NEW d \in Directions, Expire(d) PROVE OrderIsOwn'
    BY <1>14, InterferedGrows, OwnOrders DEF Expire, sessions, ghosts
  <1>15. CASE UNCHANGED rampVars
    BY <1>15, InterferedGrows, OwnOrders DEF rampVars
  <1> QED
    BY <1>1, <1>2, <1>3, <1>4, <1>5, <1>6, <1>7, <1>8, <1>9, <1>10,
       <1>11, <1>12, <1>13, <1>14, <1>15
    DEF RampNext, Step

LEMMA CopyStep ==
  ASSUME RampTypeOK, Begun, OwnFlows, OwnCopies, [RampNext]_rampVars
  PROVE  OwnCopies'
  <1>1. ASSUME NEW q \in Requests, NEW s \in Sessions, Ask(q, s)
         PROVE  OwnCopies'
    <2>1. PICK step : Arrives(q, s, step)
      BY <1>1 DEF Ask
    <2>2. /\ req'[q].pc = "load" \/ (req'[q].pc = "store" /\ req'[q].step = 1)
          /\ \A p \in Requests \ {q} : req'[p] = req[p]
      BY <2>1, ArrivesFrame
    <2> QED BY <2>2, InterferedGrows DEF OwnCopies, OwnFlow
  <1>2. ASSUME NEW q \in Requests, NEW s \in Sessions, Repeat(q, s)
         PROVE  OwnCopies'
    <2>1. PICK step : Arrives(q, s, step)
      BY <1>2 DEF Repeat
    <2>2. /\ req'[q].pc = "load" \/ (req'[q].pc = "store" /\ req'[q].step = 1)
          /\ \A p \in Requests \ {q} : req'[p] = req[p]
      BY <2>1, ArrivesFrame
    <2> QED BY <2>2, InterferedGrows DEF OwnCopies, OwnFlow
  <1>3. ASSUME NEW q \in Requests, NEW s \in Sessions, NEW d \in Directions, Open(q, s, d)
         PROVE  OwnCopies'
    <2>1. PICK step : Arrives(q, s, step)
      BY <1>3 DEF Open
    <2>2. /\ req'[q].pc = "load" \/ (req'[q].pc = "store" /\ req'[q].step = 1)
          /\ \A p \in Requests \ {q} : req'[p] = req[p]
      BY <2>1, ArrivesFrame
    <2> QED BY <2>2, InterferedGrows DEF OwnCopies, OwnFlow
  <1>4. ASSUME NEW q \in Requests, StoreToken(q) PROVE OwnCopies'
    BY <1>4, EndsFrame, InterferedGrows DEF StoreToken, OwnCopies, OwnFlow
  <1>5. ASSUME NEW q \in Requests, Load(q) PROVE OwnCopies'
    <2> DEFINE s == req[q].session
    <2>1. /\ req'[q].copy = flow[dir[s]] /\ req'[q].session = s
          /\ \A p \in Requests \ {q} : req'[p] = req[p]
      BY <1>5 DEF Load, Key, RampTypeOK
    <2>2. s \in Sessions /\ Settled(s) /\ flow[dir[s]] # NoFlow
      BY <1>5 DEF Load, Key, Complete, Begun, Settled
    <2>3. s \in Interfered \/ OwnFlow(flow[dir[s]], s)
      BY <2>2 DEF OwnFlows
    <2> QED BY <2>1, <2>2, <2>3, InterferedGrows DEF OwnCopies, OwnFlow
  <1>6. ASSUME NEW q \in Requests, LoadFails(q) PROVE OwnCopies'
    BY <1>6, EndsFrame, InterferedGrows DEF LoadFails, OwnCopies, OwnFlow
  <1>7. ASSUME NEW q \in Requests, StoreEntry(q) PROVE OwnCopies'
    BY <1>7, EndsFrame, InterferedGrows DEF StoreEntry, OwnCopies, OwnFlow
  <1>8. ASSUME NEW q \in Requests, Gate(q) PROVE OwnCopies'
    BY <1>8, EndsFrame, InterferedGrows DEF Gate, OwnCopies, OwnFlow
  <1>9. ASSUME NEW q \in Requests, Reject(q) PROVE OwnCopies'
    BY <1>9, EndsFrame, InterferedGrows DEF Reject, OwnCopies, OwnFlow
  <1>10. ASSUME NEW q \in Requests, RedisFails(q) PROVE OwnCopies'
    BY <1>10, EndsFrame, InterferedGrows DEF RedisFails, OwnCopies, OwnFlow
  <1>11. ASSUME NEW q \in Requests, PlaceOrder(q) PROVE OwnCopies'
    <2>1. req'[q].pc = "delete" /\ \A p \in Requests \ {q} : req'[p] = req[p]
      BY <1>11 DEF PlaceOrder, RampTypeOK
    <2> QED BY <2>1, InterferedGrows DEF OwnCopies, OwnFlow
  <1>12. ASSUME NEW q \in Requests, PlaceFails(q) PROVE OwnCopies'
    BY <1>12, EndsFrame, InterferedGrows DEF PlaceFails, OwnCopies, OwnFlow
  <1>13. ASSUME NEW q \in Requests, Delete(q) PROVE OwnCopies'
    BY <1>13, EndsFrame, InterferedGrows DEF Delete, OwnCopies, OwnFlow
  <1>14. ASSUME NEW d \in Directions, Expire(d) PROVE OwnCopies'
    BY <1>14, InterferedGrows DEF Expire, OwnCopies, OwnFlow
  <1>15. CASE UNCHANGED rampVars
    BY <1>15, InterferedGrows DEF rampVars, OwnCopies, OwnFlow
  <1> QED
    BY <1>1, <1>2, <1>3, <1>4, <1>5, <1>6, <1>7, <1>8, <1>9, <1>10,
       <1>11, <1>12, <1>13, <1>14, <1>15
    DEF RampNext, Step

(* An answer that ends a session settles nobody. *)
LEMMA EndSettlesNobody ==
  ASSUME RampTypeOK, Begun, NEW q \in Requests, Ends(q, "END"), at' = at,
         NEW s \in Sessions, Settled(s)'
  PROVE  Settled(s)
  <1>1. answer'[s] = "CON" => answer[s] = "CON"
    BY DEF Ends, RampTypeOK
  <1>2. \A p \in Requests : req'[p].pc = "load" => req'[p] = req[p]
    BY EndsFrame
  <1> QED BY <1>1, <1>2 DEF Settled

LEMMA OtherSettled ==
  ASSUME RampTypeOK, Begun, NEW q \in Requests, Ends(q, "CON"), at' = at,
         NEW s \in Sessions, s # req[q].session \/ req[q].step > 1, Settled(s)'
  PROVE  Settled(s)
  <1>1. answer'[s] = "CON" => answer[s] = "CON" \/ at[s] # 1
    BY DEF Ends, RampTypeOK
  <1>2. \A p \in Requests : req'[p].pc = "load" => req'[p] = req[p]
    BY EndsFrame
  <1> QED BY <1>1, <1>2 DEF Settled, RampTypeOK

(* A store by another session leaves the flow or interferes. *)
LEMMA OthersStore ==
  ASSUME RampTypeOK, NEW q \in Requests, NEW f, Store(q, f), NEW s \in Sessions,
         s # req[q].session, s \notin Interfered', at[s] > 0
  PROVE  flow'[dir[s]] = flow[dir[s]]
  BY DEF RampTypeOK, Store, Key, Interfered

(* Whose flow a step may change.  A session that is settled after a step   *)
(* and was not interfered with was settled before, on the same token, and  *)
(* finds the flow it had, none, or what it stored itself; or it has just   *)
(* stored its token.                                                       *)
Stays(s) ==
    /\ Settled(s) /\ dir'[s] = dir[s]
    /\ s \in overlapped' \/ pick'[s] = pick[s]

Kept(s) == flow'[dir[s]] = flow[dir[s]] \/ flow'[dir[s]] = NoFlow

LEMMA EndSettles ==
  ASSUME RampTypeOK, Begun, NEW q \in Requests, Ends(q, "END"), UNCHANGED sessions,
         \A d \in Directions : flow'[d] = flow[d] \/ flow'[d] = NoFlow,
         NEW s \in Sessions, Settled(s)'
  PROVE  Stays(s) /\ Kept(s)
  <1>1. Settled(s)
    BY EndSettlesNobody DEF sessions
  <1> QED BY <1>1, SettledBegun DEF Stays, Kept, sessions

LEMMA SettledStep ==
  ASSUME RampTypeOK, Begun, [RampNext]_rampVars,
         NEW s \in Sessions, s \notin Interfered', Settled(s)'
  PROVE  \/ Stays(s) /\ Kept(s)
         \/ \E q \in Requests : /\ StoreEntry(q) /\ Stays(s)
                                /\ req[q].session = s /\ req[q].step > 1
         \/ \E q \in Requests : StoreToken(q) /\ req[q].session = s
  <1>1. ASSUME NEW q \in Requests, NEW t \in Sessions, Ask(q, t)
        PROVE  Stays(s) /\ Kept(s)
    <2>1. PICK step \in 1..Len(MenuOf(t)) :
             /\ Arrives(q, t, step) /\ at' = [at EXCEPT ![t] = step]
             /\ step = 1 \/ at[t] >= 1
             /\ step # 1 => pick' = pick
             /\ pick' = pick \/ pick' = [pick EXCEPT ![t] = @ + 1]
      <3>1. PICK step \in {at[t] + 1, IF at[t] = 1 THEN 1 ELSE at[t] - 1}
                          \cap 1..Len(MenuOf(t)) :
               /\ Arrives(q, t, step) /\ at' = [at EXCEPT ![t] = step]
               /\ IF at[t] = 1 /\ step = 1 THEN PicksAnew(t)
                                         ELSE UNCHANGED <<pick, repeats>>
        BY <1>1 DEF Ask
      <3>2. at[t] \in 0..4 /\ step \in 1..4
        BY Steps DEF RampTypeOK
      <3>3. step = 1 \/ at[t] >= 1
        BY <3>2
      <3> QED BY <3>1, <3>3 DEF PicksAnew
    <2>2. /\ dir' = dir /\ flow' = flow /\ answer[t] = "CON"
          /\ answer' = [answer EXCEPT ![t] = "none"]
      BY <1>1 DEF Ask, redis
    <2>3. /\ req'[q].session = t /\ (step = 1 => req'[q].pc # "load")
          /\ \A p \in Requests \ {q} : req'[p] = req[p]
      BY <2>1, ArrivesFrame
    <2>4. CASE s # t
      <3>3. at'[s] = at[s] /\ answer'[s] = answer[s]
        BY <2>1, <2>2, <2>4 DEF RampTypeOK
      <3>4. \A p \in Requests : req'[p].session = s => req'[p] = req[p]
        BY <2>3, <2>4
      <3>1. Settled(s)
        BY <3>3, <3>4 DEF Settled
      <3>2. pick'[s] = pick[s]
        BY <2>1, <2>4 DEF RampTypeOK
      <3> QED BY <2>2, <3>1, <3>2 DEF Stays, Kept
    <2>5. CASE s = t
      <3>1. at[s] \in 0..4 /\ at'[s] = step /\ answer'[s] = "none"
        BY <2>1, <2>2, <2>5 DEF RampTypeOK
      <3>2. CASE step = 1
        <4>1. \E p \in Requests \ {q} : req[p].session = s /\ req[p].pc = "load"
          BY <2>3, <2>5, <3>1, <3>2 DEF Settled
        <4>2. Settled(s) /\ s \in overlapped'
          BY <2>1, <2>5, <4>1 DEF Settled, Arrives, InFlight
        <4> QED BY <2>2, <4>2 DEF Stays, Kept
      <3>3. CASE step # 1
        <4>1. at[s] >= 1 /\ answer[s] = "CON"
          BY <2>1, <2>2, <2>5, <3>3
        <4>3. at[s] > 1 \/ at[s] = 1
          BY <3>1, <4>1
        <4>2. Settled(s)
          BY <4>1, <4>3 DEF Settled
        <4> QED BY <2>1, <2>2, <3>3, <4>2 DEF Stays, Kept
      <3> QED BY <3>2, <3>3
    <2> QED BY <2>4, <2>5
  <1>2. ASSUME NEW q \in Requests, NEW t \in Sessions, Repeat(q, t)
        PROVE  Stays(s) /\ Kept(s)
    <2>1. /\ Arrives(q, t, at[t]) /\ at[t] \in 1..4 /\ pick' = pick
          /\ dir' = dir /\ at' = at /\ flow' = flow /\ answer' = answer
      BY <1>2 DEF Repeat, redis, sessions, RampTypeOK
    <2>2. \A p \in Requests \ {q} : req'[p] = req[p]
      BY <2>1, ArrivesFrame
    <2>3. req'[q].session = t /\ (req'[q].pc = "load" => at[t] > 1)
      BY <2>1, ArrivesFrame
    <2> QED BY <2>1, <2>2, <2>3 DEF Settled, Stays, Kept
  <1>3. ASSUME NEW q \in Requests, NEW t \in Sessions, NEW d \in Directions, Open(q, t, d)
        PROVE  Stays(s) /\ Kept(s)
    <2>1. /\ Arrives(q, t, 1) /\ flow' = flow /\ dir[t] = "none"
          /\ dir' = [dir EXCEPT ![t] = d] /\ at' = [at EXCEPT ![t] = 1]
          /\ answer' = [answer EXCEPT ![t] = "none"]
          /\ pick' = [pick EXCEPT ![t] = 1]
      BY <1>3 DEF Open, redis
    <2>2. req'[q].pc = "store" /\ \A p \in Requests \ {q} : req'[p] = req[p]
      BY <2>1, ArrivesFrame
    <2>3. \A p \in Requests : req[p].pc = "load" => req[p].session # t
      BY <2>1 DEF Begun
    <2>4. at'[t] = 1 /\ answer'[t] = "none"
      BY <2>1 DEF RampTypeOK
    <2>5. s # t
      BY <2>2, <2>3, <2>4 DEF Settled
    <2>6. Settled(s) /\ dir'[s] = dir[s] /\ pick'[s] = pick[s]
      BY <2>1, <2>2, <2>5 DEF Settled, RampTypeOK
    <2> QED BY <2>1, <2>6 DEF Stays, Kept
  <1>4. ASSUME NEW q \in Requests, StoreToken(q), req[q].session # s
        PROVE  Stays(s) /\ Kept(s)
    <2>1. UNCHANGED sessions /\ Ends(q, "CON")
      BY <1>4 DEF StoreToken
    <2>2. Settled(s)
      BY <1>4, <2>1, OtherSettled DEF sessions
    <2>3. flow'[dir[s]] = flow[dir[s]]
      BY <1>4, <2>2, SettledBegun, OthersStore DEF StoreToken
    <2> QED BY <2>1, <2>2, <2>3 DEF Stays, Kept, sessions
  <1>5. ASSUME NEW q \in Requests, Load(q) PROVE Stays(s) /\ Kept(s)
    <2>1. UNCHANGED sessions /\ flow' = flow /\ answer' = answer
      BY <1>5 DEF Load, redis
    <2>2. \A p \in Requests : req'[p].pc = "load" => req'[p] = req[p]
      BY <1>5 DEF Load, RampTypeOK
    <2> QED BY <2>1, <2>2 DEF Settled, Stays, Kept, sessions
  <1>6. ASSUME NEW q \in Requests,
               LoadFails(q) \/ Reject(q) \/ RedisFails(q) \/ PlaceFails(q) \/ Delete(q)
        PROVE  Stays(s) /\ Kept(s)
    <2>1. UNCHANGED sessions /\ Ends(q, "END")
      BY <1>6 DEF LoadFails, Reject, RedisFails, PlaceFails, Delete
    <2>2. \A d \in Directions : flow'[d] = flow[d] \/ flow'[d] = NoFlow
      BY <1>6 DEF LoadFails, Reject, RedisFails, PlaceFails, Delete, redis, RampTypeOK
    <2> QED BY <2>1, <2>2, EndSettles
  <1>7. ASSUME NEW q \in Requests, StoreEntry(q)
        PROVE  /\ Stays(s)
               /\ Kept(s) \/ (req[q].session = s /\ req[q].step > 1)
    <2>1. UNCHANGED sessions /\ Ends(q, "CON") /\ req[q].step > 1
      BY <1>7 DEF StoreEntry
    <2>2. Settled(s)
      BY <2>1, OtherSettled DEF sessions
    <2>3. s # req[q].session => flow'[dir[s]] = flow[dir[s]]
      BY <1>7, <2>2, SettledBegun, OthersStore DEF StoreEntry
    <2> QED BY <2>1, <2>2, <2>3 DEF Stays, Kept, sessions
  <1>8. ASSUME NEW q \in Requests, Gate(q) PROVE Stays(s) /\ Kept(s)
    <2>1. UNCHANGED sessions /\ flow' = flow /\ Ends(q, "CON")
      BY <1>8 DEF Gate, redis
    <2>2. req[q].step > 1 \/ req[q].session \in Interfered'
      BY <1>8 DEF Gate, Begun, Interfered
    <2>3. Settled(s)
      BY <2>1, <2>2, OtherSettled DEF sessions
    <2> QED BY <2>1, <2>3 DEF Stays, Kept, sessions
  <1>9. ASSUME NEW q \in Requests, PlaceOrder(q) PROVE Stays(s) /\ Kept(s)
    <2>1. UNCHANGED sessions /\ flow' = flow /\ answer' = answer
      BY <1>9 DEF PlaceOrder, redis
    <2>2. \A p \in Requests : req'[p].pc = "load" => req'[p] = req[p]
      BY <1>9 DEF PlaceOrder, RampTypeOK
    <2> QED BY <2>1, <2>2 DEF Settled, Stays, Kept, sessions
  <1>10. ASSUME NEW d \in Directions, Expire(d) PROVE Stays(s) /\ Kept(s)
    <2>1. UNCHANGED sessions /\ answer' = answer /\ req' = req
      BY <1>10 DEF Expire
    <2>2. \A e \in Directions : flow'[e] = flow[e] \/ flow'[e] = NoFlow
      BY <1>10 DEF Expire, RampTypeOK
    <2>3. Settled(s)
      BY <2>1 DEF Settled, sessions
    <2> QED BY <2>1, <2>2, <2>3, SettledBegun DEF Stays, Kept, sessions
  <1>11. CASE UNCHANGED rampVars
    BY <1>11 DEF rampVars, Settled, Stays, Kept
  <1> QED
    BY <1>1, <1>2, <1>3, <1>4, <1>5, <1>6, <1>7, <1>8, <1>9, <1>10, <1>11
    DEF RampNext, Step

(* What a session stores itself. *)
LEMMA StoredToken ==
  ASSUME RampTypeOK, Begun, NEW q \in Requests, StoreToken(q)
  PROVE  LET s == req[q].session IN
         OwnFlow(flow'[dir[s]], s) /\ Current(flow'[dir[s]], req[q].pick)
  <1> DEFINE s == req[q].session
             n == req[q].pick
             f == flow[dir[s]]
  <1>1. /\ s \in Sessions /\ dir[s] \in Directions
        /\ f \in Flow /\ n \in 0..MaxPicks
    BY DEF StoreToken, Begun, RampTypeOK
  <1>2. flow'[dir[s]] = NewFlow(f, s, n)
    BY <1>1 DEF StoreToken, Store, Key, RampTypeOK
  <1> QED BY <1>1, <1>2, Entries

LEMMA StoredEntry ==
  ASSUME RampTypeOK, Begun, NEW q \in Requests, StoreEntry(q)
  PROVE  LET s == req[q].session IN
         /\ OwnFlow(req[q].copy, s) => OwnFlow(flow'[dir[s]], s)
         /\ Current(req[q].copy, req[q].pick) => Current(flow'[dir[s]], req[q].pick)
  <1> DEFINE s == req[q].session
             n == req[q].pick
             f == req[q].copy
  <1>1. /\ s \in Sessions /\ dir[s] \in Directions
        /\ f \in Flow /\ n \in 0..MaxPicks
    BY DEF StoreEntry, Begun, RampTypeOK
  <1>2. flow'[dir[s]] \in {WithBank(f, s, n), WithAmount(f, s, n)}
    BY <1>1 DEF StoreEntry, Store, Key, RampTypeOK
  <1> QED BY <1>1, <1>2, Entries

LEMMA FlowStep ==
  ASSUME RampTypeOK, Begun, OwnFlows, OwnCopies, [RampNext]_rampVars
  PROVE  OwnFlows'
  <1> SUFFICES ASSUME NEW s \in Sessions, s \notin Interfered', Settled(s)'
               PROVE  flow'[dir'[s]] = NoFlow \/ OwnFlow(flow'[dir'[s]], s)
    BY DEF OwnFlows, OwnFlow
  <1>1. s \notin Interfered
    BY InterferedGrows
  <1>2. CASE Stays(s) /\ Kept(s)
    BY <1>1, <1>2 DEF Stays, Kept, OwnFlows
  <1>3. ASSUME NEW q \in Requests, StoreEntry(q), Stays(s),
               req[q].session = s, req[q].step > 1
        PROVE  OwnFlow(flow'[dir'[s]], s)
    <2>1. OwnFlow(req[q].copy, s)
      BY <1>1, <1>3 DEF OwnCopies, StoreEntry
    <2> QED BY <1>3, <2>1, StoredEntry DEF Stays
  <1>4. ASSUME NEW q \in Requests, StoreToken(q), req[q].session = s
        PROVE  OwnFlow(flow'[dir'[s]], s)
    BY <1>4, StoredToken DEF StoreToken, sessions
  <1> QED BY <1>2, <1>3, <1>4, SettledStep

-----------------------------------------------------------------------------
(* One order per flow.  A flow's number says who started it; a session     *)
(* that had one request at a time, and was not interfered with, has used   *)
(* its flow up with its order: until the key is deleted nothing but the    *)
(* deletion is under way, and afterwards the number never comes back.      *)

(* Every flow that is somewhere: in Redis, with a request, in an order. *)
Seen == {flow[d] : d \in Directions} \cup {req[q].copy : q \in Requests}
          \cup {o.from : o \in orders}

Numbered ==
    /\ \A f \in Seen : f = NoFlow \/ f.id \in 1..flows
    /\ \A f, g \in Seen : f.id = g.id => f.by = g.by
    /\ \A o \in orders : o.from # NoFlow

Odd == mixed \cup gated \cup overlapped \cup doubtful

InMenu == \A s \in Sessions : dir[s] # "none" => at[s] > 0

AtMostOne == \A s \in Sessions \ overlapped : \A p, q \in Requests :
    req[p].session = s /\ req[q].session = s => p = q

UsedUp(o) ==
    /\ flow[dir[o.by]].id = o.from.id =>
          \E q \in Requests : req[q].session = o.by /\ req[q].pc = "delete"
    /\ \A q \in Requests : req[q].session = o.by /\ req[q].pc # "delete" =>
          req[q].copy.id # o.from.id

FlowsUsedUp == failures = 0 => \A o \in orders : o.by \notin Odd => UsedUp(o)

OnceInv == Numbered /\ InMenu /\ AtMostOne /\ FlowsUsedUp /\ OneOrderPerFlow

(* What a step may leave in a place where a flow can be: nothing, a flow   *)
(* that was somewhere, perhaps with another entry, or the newly numbered.  *)
Copied(h) == \E f \in Seen : f # NoFlow /\ h.id = f.id /\ h.by = f.by
Follows(h, s) ==
    h = NoFlow \/ Copied(h) \/ (flows' = flows + 1 /\ h.id = flows + 1 /\ h.by = s)

LEMMA NumberedFrame ==
  ASSUME RampTypeOK, Numbered, flows' \in {flows, flows + 1}, NEW s,
         \A d \in Directions : Follows(flow'[d], s),
         \A q \in Requests : Follows(req'[q].copy, s),
         \/ orders' = orders
         \/ \E q \in Requests : req[q].copy # NoFlow /\ Order(q)
  PROVE  Numbered'
  <1>1. flows \in Nat
    BY DEF RampTypeOK
  <1>2. \A o \in orders' : o.from # NoFlow /\ Follows(o.from, s)
    <2>1. \A o \in orders : o.from # NoFlow /\ Copied(o.from)
      BY DEF Numbered, Copied, Seen
    <2>2. ASSUME NEW q \in Requests, req[q].copy # NoFlow, Order(q), NEW o \in orders'
          PROVE  o.from # NoFlow /\ Copied(o.from)
      <3>1. o \in orders \/ o.from = req[q].copy
        BY <2>2 DEF Order
      <3>2. Copied(req[q].copy)
        BY <2>2 DEF Copied, Seen
      <3> QED BY <2>1, <2>2, <3>1, <3>2
    <2> QED BY <2>1, <2>2 DEF Follows
  <1>3. \A h \in Seen' : Follows(h, s)
    BY <1>2 DEF Seen
  <1>4. \A h \in Seen' : h = NoFlow \/ h.id \in 1..flows'
    BY <1>1, <1>3 DEF Follows, Copied, Numbered
  <1>5. \A f, g \in Seen' : f.id = g.id => f.by = g.by
    <2>1. NoFlow.id = 0 /\ NoFlow.by = "nobody"
      BY DEF NoFlow
    <2>2. \A h \in Seen' : \/ h.id = 0 /\ h.by = "nobody"
                           \/ h.id \in 1..flows /\ Copied(h)
                           \/ h.id = flows + 1 /\ h.by = s
      BY <1>3, <2>1 DEF Follows, Copied, Numbered
    <2>3. ASSUME NEW f, NEW g, Copied(f), Copied(g), f.id = g.id
          PROVE  f.by = g.by
      BY <2>3 DEF Copied, Numbered
    <2> QED BY <1>1, <2>2, <2>3
  <1> QED BY <1>2, <1>4, <1>5 DEF Numbered

(* A request that is loaded or idle, or a flow, as it was. *)
LEMMA FollowsItself ==
  ASSUME NEW s
  PROVE  /\ \A d \in Directions : Follows(flow[d], s)
         /\ \A q \in Requests : Follows(req[q].copy, s)
         /\ Follows(NoFlow, s)
  BY DEF Follows, Copied, Seen

LEMMA NumberedArrives ==
  ASSUME RampTypeOK, Numbered, NEW q \in Requests, NEW s \in Sessions, NEW step,
         Arrives(q, s, step), flow' = flow, flows' = flows, orders' = orders
  PROVE  Numbered'
  BY ArrivesFrame, FollowsItself, NumberedFrame

LEMMA NumberedEnds ==
  ASSUME RampTypeOK, Numbered, NEW q \in Requests, NEW a \in {"CON", "END"},
         Ends(q, a), flows' \in {flows, flows + 1}, NEW s,
         \A d \in Directions : Follows(flow'[d], s),
         orders' = orders \/ (req[q].copy # NoFlow /\ Order(q))
  PROVE  Numbered'
  <1>1. \A p \in Requests : Follows(req'[p].copy, s)
    BY EndsFrame, FollowsItself DEF NoRequest
  <1> QED BY <1>1, NumberedFrame

LEMMA NumberedStep ==
  ASSUME RampTypeOK, Begun, Numbered, [RampNext]_rampVars
  PROVE  Numbered'
  <1>1. ASSUME NEW q \in Requests, NEW s \in Sessions, Ask(q, s) PROVE Numbered'
    <2>1. PICK step : Arrives(q, s, step)
      BY <1>1 DEF Ask
    <2> QED BY <1>1, <2>1, NumberedArrives DEF Ask, redis
  <1>2. ASSUME NEW q \in Requests, NEW s \in Sessions, Repeat(q, s)
         PROVE  Numbered'
    <2>1. PICK step : Arrives(q, s, step)
      BY <1>2 DEF Repeat
    <2> QED BY <1>2, <2>1, NumberedArrives DEF Repeat, redis
  <1>3. ASSUME NEW q \in Requests, NEW s \in Sessions, NEW d \in Directions, Open(q, s, d)
         PROVE  Numbered'
    BY <1>3, NumberedArrives DEF Open, redis
  <1>4. ASSUME NEW q \in Requests, StoreToken(q) PROVE Numbered'
    <2> DEFINE s == req[q].session
               n == req[q].pick
    <2>1. NewFlow(flow[Key(s)], s, n).id = flows + 1 /\ NewFlow(flow[Key(s)], s, n).by = s
      BY DEF NewFlow, NoFlow
    <2>2. flows' = flows + 1
      BY <1>4 DEF StoreToken
    <2>3. Follows(NewFlow(flow[Key(s)], s, n), s)
      BY <2>1, <2>2 DEF Follows
    <2>4. flow' = [flow EXCEPT ![Key(s)] = NewFlow(flow[Key(s)], s, n)]
      BY <1>4 DEF StoreToken, Store
    <2> HIDE DEF s, n
    <2>5. \A d \in Directions : Follows(flow'[d], s)
      BY <2>3, <2>4, FollowsItself DEF RampTypeOK
    <2> QED BY <1>4, <2>2, <2>5, NumberedEnds DEF StoreToken
  <1>5. ASSUME NEW q \in Requests, Load(q) PROVE Numbered'
    <2>1. flow' = flow /\ flows' = flows /\ orders' = orders
      BY <1>5 DEF Load, redis
    <2>2. Key(req[q].session) \in Directions
      BY <1>5 DEF Load, Begun, Key, RampTypeOK
    <2>3. \A p \in Requests :
             req'[p].copy = req[p].copy \/ req'[p].copy = flow[Key(req[q].session)]
      BY <1>5 DEF Load, RampTypeOK
    <2> QED BY <2>1, <2>2, <2>3, FollowsItself, NumberedFrame
  <1>6. ASSUME NEW q \in Requests, LoadFails(q) PROVE Numbered'
    BY <1>6, FollowsItself, NumberedEnds DEF LoadFails, redis
  <1>7. ASSUME NEW q \in Requests, StoreEntry(q) PROVE Numbered'
    <2> DEFINE s == req[q].session
               c == req[q].copy
               n == req[q].pick
    <2>1. s \in Sessions /\ c \in Flow /\ c # NoFlow
      BY <1>7 DEF StoreEntry, Begun, Complete, RampTypeOK
    <2>2. /\ WithBank(c, s, n).id = c.id /\ WithBank(c, s, n).by = c.by
          /\ WithAmount(c, s, n).id = c.id /\ WithAmount(c, s, n).by = c.by
      BY <2>1 DEF WithBank, WithAmount, Flow
    <2>3. Follows(WithBank(c, s, n), s) /\ Follows(WithAmount(c, s, n), s)
      BY <2>1, <2>2 DEF Follows, Copied, Seen
    <2>4. PICK h \in {WithBank(c, s, n), WithAmount(c, s, n)} :
             flow' = [flow EXCEPT ![Key(s)] = h]
      BY <1>7 DEF StoreEntry, Store
    <2>5. \A d \in Directions : Follows(flow'[d], s)
      BY <2>3, <2>4, FollowsItself DEF RampTypeOK
    <2> QED BY <1>7, <2>5, NumberedEnds DEF StoreEntry
  <1>8. ASSUME NEW q \in Requests, Gate(q) PROVE Numbered'
    BY <1>8, FollowsItself, NumberedEnds DEF Gate, redis
  <1>9. ASSUME NEW q \in Requests, Reject(q) PROVE Numbered'
    BY <1>9, FollowsItself, NumberedEnds DEF Reject, redis
  <1>10. ASSUME NEW q \in Requests, RedisFails(q) PROVE Numbered'
    BY <1>10, FollowsItself, NumberedEnds DEF RedisFails, redis
  <1>11. ASSUME NEW q \in Requests, PlaceOrder(q) PROVE Numbered'
    <2>1. flow' = flow /\ flows' = flows
      BY <1>11 DEF PlaceOrder, redis
    <2>2. \A p \in Requests : req'[p].copy = req[p].copy
      BY <1>11 DEF PlaceOrder, RampTypeOK
    <2>3. req[q].copy # NoFlow /\ Order(q)
      BY <1>11, OrderIsComplete DEF PlaceOrder
    <2> QED BY <2>1, <2>2, <2>3, FollowsItself, NumberedFrame
  <1>12. ASSUME NEW q \in Requests, PlaceFails(q) PROVE Numbered'
    <2>1. req[q].copy # NoFlow
      BY <1>12, OrderIsComplete DEF PlaceFails
    <2> QED BY <1>12, <2>1, FollowsItself, NumberedEnds DEF PlaceFails, redis
  <1>13. ASSUME NEW q \in Requests, Delete(q) PROVE Numbered'
    <2>1. \A d \in Directions : flow'[d] = flow[d] \/ flow'[d] = NoFlow
      BY <1>13 DEF Delete, RampTypeOK
    <2> QED BY <1>13, <2>1, FollowsItself, NumberedEnds DEF Delete
  <1>14. ASSUME NEW d \in Directions, Expire(d) PROVE Numbered'
    <2>1. \A e \in Directions : flow'[e] = flow[e] \/ flow'[e] = NoFlow
      BY <1>14 DEF Expire, RampTypeOK
    <2>2. req' = req /\ orders' = orders /\ flows' = flows
      BY <1>14 DEF Expire
    <2> QED BY <2>1, <2>2, FollowsItself, NumberedFrame
  <1>15. CASE UNCHANGED rampVars
    BY <1>15 DEF rampVars, Numbered, Seen
  <1> QED
    BY <1>1, <1>2, <1>3, <1>4, <1>5, <1>6, <1>7, <1>8, <1>9, <1>10,
       <1>11, <1>12, <1>13, <1>14, <1>15
    DEF RampNext, Step

-----------------------------------------------------------------------------

(* What no step takes back, and who has picked a direction. *)
LEMMA OddGrows ==
  ASSUME RampTypeOK, [RampNext]_rampVars
  PROVE  /\ Odd \subseteq Odd'
         /\ failures' = 0 => failures = 0
         /\ \A s \in Sessions : dir[s] # "none" => dir'[s] = dir[s]
  <1> USE DEF Odd
  <1>1. failures \in Nat
    BY DEF RampTypeOK
  <1>2. ASSUME NEW q \in Requests, NEW s \in Sessions, Ask(q, s) \/ Repeat(q, s)
        PROVE  /\ Odd \subseteq Odd' /\ failures' = failures /\ dir' = dir
    BY <1>2 DEF Ask, Repeat, Arrives, sessions, ghosts
  <1>3. ASSUME NEW q \in Requests, NEW s \in Sessions, NEW d \in Directions, Open(q, s, d)
        PROVE  /\ Odd \subseteq Odd' /\ failures' = failures
               /\ \A t \in Sessions : dir[t] # "none" => dir'[t] = dir[t]
    BY <1>3 DEF Open, Arrives, RampTypeOK
  <1>4. ASSUME NEW q \in Requests, Step(q)
        PROVE  /\ Odd \subseteq Odd' /\ dir' = dir
               /\ failures' = failures \/ failures' = failures + 1
    BY <1>4 DEF Step, StoreToken, Load, LoadFails, StoreEntry, Gate, Reject,
                RedisFails, PlaceOrder, PlaceFails, Delete, Store, Failure, sessions, ghosts
  <1>5. ASSUME NEW d \in Directions, Expire(d)
        PROVE  Odd' = Odd /\ failures' = failures /\ dir' = dir
    BY <1>5 DEF Expire, sessions, ghosts
  <1>6. CASE UNCHANGED rampVars
    BY <1>6 DEF rampVars
  <1> QED BY <1>1, <1>2, <1>3, <1>4, <1>5, <1>6 DEF RampNext

LEMMA InMenuStep ==
  ASSUME RampTypeOK, InMenu, [RampNext]_rampVars
  PROVE  InMenu'
  <1>1. ASSUME NEW q \in Requests, NEW s \in Sessions, Ask(q, s) PROVE InMenu'
    <2>1. PICK step \in 1..Len(MenuOf(s)) : at' = [at EXCEPT ![s] = step]
      BY <1>1 DEF Ask
    <2>2. step \in 1..4 /\ dir' = dir
      BY <1>1, Steps DEF Ask
    <2> QED BY <2>1, <2>2 DEF InMenu, RampTypeOK
  <1>2. ASSUME NEW q \in Requests, NEW s \in Sessions, NEW d \in Directions, Open(q, s, d)
        PROVE  InMenu'
    BY <1>2 DEF Open, InMenu, RampTypeOK
  <1>3. CASE UNCHANGED <<dir, at>>
    BY <1>3 DEF InMenu
  <1>4. ASSUME NEW q \in Requests, Step(q) PROVE UNCHANGED <<dir, at>>
    BY <1>4 DEF Step, StoreToken, Load, LoadFails, StoreEntry, Gate, Reject,
                RedisFails, PlaceOrder, PlaceFails, Delete, sessions
  <1> QED BY <1>1, <1>2, <1>3, <1>4 DEF RampNext, Repeat, Expire, sessions, rampVars

(* A handled request stays its session's or is nobody's. *)
LEMMA StepFrame ==
  ASSUME RampTypeOK, NEW q \in Requests, Step(q)
  PROVE  /\ req'[q].session \in {req[q].session, "nobody"}
         /\ \A p \in Requests \ {q} : req'[p] = req[p]
  <1>1. ASSUME NEW a \in {"CON", "END"}, Ends(q, a)
        PROVE  /\ req'[q].session \in {req[q].session, "nobody"}
               /\ \A p \in Requests \ {q} : req'[p] = req[p]
    BY <1>1, EndsFrame DEF NoRequest
  <1>2. CASE Load(q) \/ PlaceOrder(q)
    BY <1>2 DEF Load, PlaceOrder, RampTypeOK
  <1> QED BY <1>1, <1>2
          DEF Step, StoreToken, LoadFails, StoreEntry, Gate, Reject,
              RedisFails, PlaceFails, Delete

LEMMA AtMostOneArrives ==
  ASSUME RampTypeOK, AtMostOne, NEW q \in Requests, NEW s \in Sessions, NEW step,
         Arrives(q, s, step)
  PROVE  AtMostOne'
  <1>1. /\ req'[q].session = s
        /\ \A p \in Requests \ {q} : req'[p] = req[p]
    BY ArrivesFrame
  <1>2. /\ overlapped \subseteq overlapped'
        /\ s \in overlapped' \/ \A p \in Requests : req[p].session # s
    BY DEF Arrives, InFlight
  <1> QED BY <1>1, <1>2 DEF AtMostOne

LEMMA AtMostOneStep ==
  ASSUME RampTypeOK, AtMostOne, [RampNext]_rampVars
  PROVE  AtMostOne'
  <1>1. ASSUME NEW q \in Requests, NEW s \in Sessions, Ask(q, s) PROVE AtMostOne'
    <2>1. PICK step : Arrives(q, s, step)
      BY <1>1 DEF Ask
    <2> QED BY <2>1, AtMostOneArrives
  <1>2. ASSUME NEW q \in Requests, NEW s \in Sessions, Repeat(q, s) PROVE AtMostOne'
    BY <1>2, AtMostOneArrives DEF Repeat
  <1>3. ASSUME NEW q \in Requests, NEW s \in Sessions, NEW d \in Directions, Open(q, s, d)
        PROVE  AtMostOne'
    BY <1>3, AtMostOneArrives DEF Open
  <1>4. ASSUME NEW q \in Requests, Step(q) PROVE AtMostOne'
    <2>1. overlapped' = overlapped
      BY <1>4 DEF Step, StoreToken, Load, LoadFails, StoreEntry, Gate, Reject,
                  RedisFails, PlaceOrder, PlaceFails, Delete, ghosts
    <2>2. \A p \in Requests : req'[p].session \in {req[p].session, "nobody"}
      BY <1>4, StepFrame
    <2> QED BY <2>1, <2>2, RampAssumption DEF AtMostOne
  <1>5. CASE UNCHANGED <<req, overlapped>>
    BY <1>5 DEF AtMostOne
  <1> QED BY <1>1, <1>2, <1>3, <1>4, <1>5 DEF RampNext, Expire, ghosts, rampVars

-----------------------------------------------------------------------------

(* A used flow stays used as long as its number is not stored again, the   *)
(* deletion of its key goes on, and no request of its session takes it up. *)
LEMMA UsedFrame ==
  ASSUME NEW o, UsedUp(o), dir'[o.by] = dir[o.by],
         \/ flow'[dir[o.by]].id # o.from.id
         \/ /\ flow'[dir[o.by]] = flow[dir[o.by]]
            /\ \A q \in Requests : req[q].session = o.by /\ req[q].pc = "delete"
                                    => req'[q] = req[q],
         \A q \in Requests : \/ req'[q] = req[q]
                             \/ req'[q].session # o.by
                             \/ req'[q].pc = "delete"
                             \/ req'[q].copy.id # o.from.id
  PROVE  UsedUp(o)'
  BY DEF UsedUp

(* A stored flow, seen from a session that is not the one that stores. *)
LEMMA StoreSeen ==
  ASSUME RampTypeOK, InMenu, NEW q \in Requests, NEW f, Store(q, f),
         NEW s \in Sessions, dir[s] \in Directions, s \notin mixed'
  PROVE  flow'[dir[s]] = flow[dir[s]] \/ (s = req[q].session /\ flow'[dir[s]] = f)
  BY DEF Store, Key, InMenu, RampTypeOK, Directions

(* A used flow stays used in every step, while its session stays apart. *)
LEMMA UsedStep ==
  ASSUME RampTypeOK, Begun, Numbered, InMenu, AtMostOne, [RampNext]_rampVars,
         NEW o \in orders, UsedUp(o), o.by \notin Odd', failures' = 0
  PROVE  UsedUp(o)'
  <1> DEFINE s == o.by
             d == dir[s]
             n == o.from.id
  <1>1. s \in Sessions /\ s \notin Odd /\ d \in Directions /\ dir'[s] = d
    BY OddGrows DEF RampTypeOK, Begun
  <1>2. n \in 1..flows /\ n # 0 /\ n # flows + 1 /\ flows \in Nat
    BY DEF Numbered, Seen, RampTypeOK
  <1>3. NoFlow.id = 0 /\ NoRequest.session = "nobody" /\ s # "nobody"
    BY <1>1, RampAssumption DEF NoFlow, NoRequest
  <1>4. \A p, q \in Requests : req[p].session = s /\ req[q].session = s => p = q
    BY <1>1 DEF AtMostOne, Odd
  <1>5. ASSUME NEW q \in Requests, NEW t \in Sessions, NEW step, Arrives(q, t, step),
               flow' = flow
        PROVE  UsedUp(o)'
    <2>1. /\ req[q].pc = "idle" /\ req'[q].copy = NoFlow
          /\ \A p \in Requests \ {q} : req'[p] = req[p]
      BY <1>5, ArrivesFrame
    <2> QED BY <1>1, <1>2, <1>3, <1>5, <2>1, UsedFrame
  <1>6. ASSUME NEW q \in Requests, NEW a \in {"CON", "END"}, Ends(q, a),
               \/ flow'[d].id # n
               \/ flow'[d] = flow[d] /\ req[q].pc # "delete"
        PROVE  UsedUp(o)'
    <2>1. /\ req'[q].session = "nobody"
          /\ \A p \in Requests \ {q} : req'[p] = req[p]
      BY <1>3, <1>6, EndsFrame
    <2> QED BY <1>1, <1>3, <1>6, <2>1, UsedFrame
  <1>7. ASSUME NEW q \in Requests, NEW t \in Sessions, Ask(q, t) PROVE UsedUp(o)'
    <2>1. PICK step : Arrives(q, t, step)
      BY <1>7 DEF Ask
    <2> QED BY <1>5, <1>7, <2>1 DEF Ask, redis
  <1>8. ASSUME NEW q \in Requests, NEW t \in Sessions, Repeat(q, t) PROVE UsedUp(o)'
    BY <1>5, <1>8 DEF Repeat, redis
  <1>9. ASSUME NEW q \in Requests, NEW t \in Sessions, NEW e \in Directions, Open(q, t, e)
        PROVE  UsedUp(o)'
    BY <1>5, <1>9 DEF Open, redis
  <1>10. ASSUME NEW q \in Requests, StoreToken(q) PROVE UsedUp(o)'
    <2> DEFINE f == NewFlow(flow[Key(req[q].session)], req[q].session, req[q].pick)
    <2>1. f.id = flows + 1
      BY DEF NewFlow, NoFlow
    <2>2. flow'[d] = flow[d] \/ flow'[d] = f
      BY <1>1, <1>10, StoreSeen DEF StoreToken, Odd
    <2> QED BY <1>2, <1>6, <1>10, <2>1, <2>2 DEF StoreToken
  <1>11. ASSUME NEW q \in Requests, Load(q) PROVE UsedUp(o)'
    <2> DEFINE t == req[q].session
    <2>1. /\ flow' = flow /\ req[q].pc = "load"
          /\ req'[q].copy = flow[dir[t]] /\ req'[q].session = t
          /\ \A p \in Requests \ {q} : req'[p] = req[p]
      BY <1>11 DEF Load, Key, redis, RampTypeOK
    <2>2. t = s => flow[d].id # n
      BY <1>4, <2>1 DEF UsedUp
    <2>3. req'[q].session # s \/ req'[q].copy.id # n
      BY <2>1, <2>2
    <2> QED BY <1>1, <2>1, <2>3, UsedFrame
  <1>12. ASSUME NEW q \in Requests, LoadFails(q) PROVE UsedUp(o)'
    BY <1>6, <1>12 DEF LoadFails, redis
  <1>13. ASSUME NEW q \in Requests, StoreEntry(q) PROVE UsedUp(o)'
    <2> DEFINE c == req[q].copy
               t == req[q].session
    <2>1. c \in Flow /\ t \in Sessions /\ req[q].pc = "store"
      BY <1>13 DEF StoreEntry, Begun, RampTypeOK
    <2>2. PICK f \in {WithBank(c, t, req[q].pick), WithAmount(c, t, req[q].pick)} :
             Store(q, f)
      BY <1>13 DEF StoreEntry
    <2>3. f.id = c.id
      BY <2>1 DEF WithBank, WithAmount, Flow
    <2>4. flow'[d] = flow[d] \/ (s = t /\ flow'[d] = f)
      BY <1>1, <2>2, StoreSeen DEF Odd
    <2>5. s = t => c.id # n
      BY <2>1 DEF UsedUp
    <2> QED BY <1>6, <1>13, <2>1, <2>3, <2>4, <2>5 DEF StoreEntry
  <1>14. ASSUME NEW q \in Requests, Gate(q) PROVE UsedUp(o)'
    BY <1>6, <1>14 DEF Gate, redis
  <1>15. ASSUME NEW q \in Requests, Reject(q) PROVE UsedUp(o)'
    BY <1>6, <1>15 DEF Reject, redis
  <1>16. ASSUME NEW q \in Requests, RedisFails(q) PROVE FALSE
    BY <1>16 DEF RedisFails, Failure, RampTypeOK
  <1>17. ASSUME NEW q \in Requests, PlaceOrder(q) PROVE UsedUp(o)'
    <2>1. /\ flow' = flow /\ req[q].pc = "place" /\ req'[q].pc = "delete"
          /\ \A p \in Requests \ {q} : req'[p] = req[p]
      BY <1>17 DEF PlaceOrder, redis, RampTypeOK
    <2> QED BY <1>1, <2>1, UsedFrame
  <1>18. ASSUME NEW q \in Requests, PlaceFails(q) PROVE UsedUp(o)'
    BY <1>6, <1>18 DEF PlaceFails, redis
  <1>19. ASSUME NEW q \in Requests, Delete(q) PROVE UsedUp(o)'
    <2> DEFINE t == req[q].session
    <2>1. /\ t \in Sessions /\ dir[t] \in Directions
          /\ flow' = [flow EXCEPT ![dir[t]] = NoFlow]
      BY <1>19 DEF Delete, Key, Begun, RampTypeOK
    <2>2. CASE d = dir[t]
      BY <1>1, <1>2, <1>3, <1>6, <1>19, <2>1, <2>2 DEF Delete, RampTypeOK
    <2>3. CASE d # dir[t]
      <3>1. flow'[d] = flow[d] /\ t # s
        BY <1>1, <2>1, <2>3 DEF RampTypeOK
      <3>2. \A p \in Requests : req[p].session = s => req'[p] = req[p]
        BY <1>19, <3>1, EndsFrame DEF Delete
      <3>3. req'[q].session = "nobody" /\ \A p \in Requests \ {q} : req'[p] = req[p]
        BY <1>3, <1>19, EndsFrame DEF Delete
      <3> QED BY <1>1, <1>3, <3>1, <3>2, <3>3, UsedFrame
    <2> QED BY <2>2, <2>3
  <1>20. ASSUME NEW e \in Directions, Expire(e) PROVE UsedUp(o)'
    <2>1. flow'[d] = flow[d] \/ flow'[d] = NoFlow
      BY <1>1, <1>20 DEF Expire, RampTypeOK
    <2>2. req' = req
      BY <1>20 DEF Expire
    <2> QED BY <1>1, <1>2, <1>3, <2>1, <2>2, UsedFrame
  <1>21. CASE UNCHANGED rampVars
    BY <1>21 DEF rampVars, UsedUp
  <1> QED
    BY <1>7, <1>8, <1>9, <1>10, <1>11, <1>12, <1>13, <1>14, <1>15, <1>16,
       <1>17, <1>18, <1>19, <1>20, <1>21
    DEF RampNext, Step

(* A new order's flow was not used before, and is used up at once: its own *)
(* request goes on to delete the key, and it is the session's only one.    *)
LEMMA NewOrderIsFirst ==
  ASSUME RampTypeOK, Begun, Numbered, AtMostOne, FlowsUsedUp, failures = 0,
         NEW q \in Requests, req[q].pc = "place", req[q].session \notin Odd,
         NEW o \in orders, o.by = req[q].session
  PROVE  o.from.id # req[q].copy.id
  BY DEF FlowsUsedUp, UsedUp

LEMMA NewOrderUsed ==
  ASSUME RampTypeOK, Begun, AtMostOne, NEW q \in Requests, PlaceOrder(q),
         req[q].session \notin Odd, NEW o, o.by = req[q].session
  PROVE  UsedUp(o)'
  <1> DEFINE s == req[q].session
  <1>1. /\ req[q].pc = "place" /\ req'[q].pc = "delete" /\ req'[q].session = s
        /\ \A p \in Requests \ {q} : req'[p] = req[p]
    BY DEF PlaceOrder, RampTypeOK
  <1>2. s \in Sessions
    BY <1>1 DEF Begun
  <1>3. \A p \in Requests \ {q} : req[p].session # s
    BY <1>2 DEF AtMostOne, Odd
  <1> QED BY <1>1, <1>3 DEF UsedUp

(* Who places an order, and what is new then. *)
LEMMA OrderSteps ==
  ASSUME [RampNext]_rampVars
  PROVE  \/ orders' = orders
         \/ \E q \in Requests : PlaceOrder(q) \/ PlaceFails(q)
  BY DEF RampNext, Step, Ask, Repeat, Open, StoreToken, Load, LoadFails, StoreEntry,
         Gate, Reject, RedisFails, Delete, Expire, rampVars

LEMMA UsedUpStep ==
  ASSUME RampTypeOK, Begun, Numbered, InMenu, AtMostOne, FlowsUsedUp, [RampNext]_rampVars
  PROVE  FlowsUsedUp'
  <1> SUFFICES ASSUME failures' = 0, NEW o \in orders', o.by \notin Odd'
               PROVE  UsedUp(o)'
    BY DEF FlowsUsedUp
  <1>1. failures = 0 /\ o.by \notin Odd
    BY OddGrows
  <1>2. CASE o \in orders
    BY <1>1, <1>2, UsedStep DEF FlowsUsedUp
  <1>3. CASE o \notin orders
    <2>1. PICK q \in Requests : PlaceOrder(q) \/ PlaceFails(q)
      BY <1>3, OrderSteps
    <2>2. Order(q)
      BY <1>3, <2>1 DEF PlaceOrder, PlaceFails
    <2>3. o.by = req[q].session
      BY <1>3, <2>2 DEF Order
    <2>4. PlaceOrder(q)
      BY <2>1, <2>3 DEF PlaceFails, Odd
    <2> QED BY <1>1, <2>3, <2>4, NewOrderUsed
  <1> QED BY <1>2, <1>3

LEMMA OnceStep ==
  ASSUME RampInv, RampInv', Numbered, Numbered', AtMostOne, FlowsUsedUp,
         OneOrderPerFlow, [RampNext]_rampVars
  PROVE  OneOrderPerFlow'
  <1> USE DEF RampInv
  <1> SUFFICES ASSUME NEW o \in orders', NEW p \in orders',
                      o.from.id = p.from.id, o # p,
                      o.by \notin Odd', p.by \notin Odd', ~(failures' > 0)
               PROVE  FALSE
    BY DEF OneOrderPerFlow, Odd
  <1>1. failures' = 0 /\ failures = 0 /\ o.by \notin Odd /\ p.by \notin Odd
    BY OddGrows DEF RampTypeOK
  <1>2. o.by = p.by
    <2>1. o.from.by = p.from.by
      BY DEF Numbered, Seen
    <2>2. o.from.by = o.by /\ p.from.by = p.by
      BY DEF OrderIsOwn, Odd
    <2> QED BY <2>1, <2>2
  <1>3. CASE o \in orders /\ p \in orders
    BY <1>1, <1>3 DEF OneOrderPerFlow, Odd
  <1>4. CASE ~(o \in orders /\ p \in orders)
    <2>1. PICK q \in Requests : PlaceOrder(q) \/ PlaceFails(q)
      BY <1>4, OrderSteps
    <2>2. Order(q) /\ req[q].pc = "place"
      BY <1>4, <2>1 DEF PlaceOrder, PlaceFails
    <2> DEFINE new == [n |-> Cardinality(orders) + 1,
                       by |-> req[q].session, pick |-> req[q].pick,
                       from |-> req[q].copy]
    <2>3. /\ orders' = orders \cup {new}
          /\ new.by = req[q].session /\ new.from = req[q].copy
      BY <2>2 DEF Order
    <2> HIDE DEF new
    <2>4. PICK old \in orders : old.by = req[q].session
                                 /\ old.from.id = req[q].copy.id
      BY <1>2, <1>4, <2>3
    <2>5. req[q].session \notin Odd
      BY <1>1, <1>2, <1>4, <2>3
    <2> QED BY <1>1, <2>2, <2>4, <2>5, NewOrderIsFirst
  <1> QED BY <1>3, <1>4

-----------------------------------------------------------------------------

(* An order is of one token pick.  A session whose requests came one after *)
(* the other, and that was not interfered with, has every request, the     *)
(* flow it finds and the copy a request goes on with on the same pick.     *)

Apart == Sessions \ (Interfered \cup overlapped)

CurrentAsks == \A q \in Requests :
    req[q].session \in Apart => req[q].pick = pick[req[q].session]

CurrentFlows == \A s \in Apart :
    Settled(s) => flow[dir[s]] = NoFlow \/ Current(flow[dir[s]], pick[s])

CurrentCopies == \A q \in Requests :
    /\ req[q].session \in Apart
    /\ req[q].pc = "place" \/ (req[q].pc = "store" /\ req[q].step > 1)
    => Current(req[q].copy, req[q].pick)

PicksInv == CurrentAsks /\ CurrentFlows /\ CurrentCopies /\ OrderIsWhole

LEMMA ApartShrinks ==
  ASSUME RampTypeOK, [RampNext]_rampVars
  PROVE  Apart' \subseteq Apart
  <1>1. overlapped \subseteq overlapped'
    <2>1. ASSUME NEW q \in Requests, Step(q) PROVE overlapped' = overlapped
      BY <2>1 DEF Step, StoreToken, Load, LoadFails, StoreEntry, Gate, Reject,
                  RedisFails, PlaceOrder, PlaceFails, Delete, ghosts
    <2> QED BY <2>1 DEF RampNext, Ask, Repeat, Open, Arrives, Expire, ghosts, rampVars
  <1> QED BY <1>1, InterferedGrows DEF Apart

(* A handled request keeps its pick, and a session its own. *)
LEMMA StepPicks ==
  ASSUME RampTypeOK, NEW q \in Requests, Step(q)
  PROVE  /\ pick' = pick
         /\ \/ req'[q].session = "nobody"
            \/ /\ req'[q].session = req[q].session /\ req'[q].pick = req[q].pick
               /\ req'[q].step = req[q].step
         /\ \A p \in Requests \ {q} : req'[p] = req[p]
  <1>1. ASSUME NEW a \in {"CON", "END"}, Ends(q, a)
        PROVE  /\ req'[q].session = "nobody"
               /\ \A p \in Requests \ {q} : req'[p] = req[p]
    BY <1>1, EndsFrame DEF NoRequest
  <1>2. CASE Load(q) \/ PlaceOrder(q)
    BY <1>2 DEF Load, PlaceOrder, RampTypeOK, sessions
  <1> QED BY <1>1, <1>2
          DEF Step, StoreToken, LoadFails, StoreEntry, Gate, Reject,
              RedisFails, PlaceFails, Delete, sessions

LEMMA ArrivesPicks ==
  ASSUME RampTypeOK, CurrentAsks, NEW q \in Requests, NEW s \in Sessions, NEW step,
         Arrives(q, s, step), Apart' \subseteq Apart,
         \A t \in Sessions \ {s} : pick'[t] = pick[t]
  PROVE  CurrentAsks'
  <1>1. /\ req'[q].session = s /\ req'[q].pick = pick'[s]
        /\ \A p \in Requests \ {q} : req'[p] = req[p]
    BY ArrivesFrame
  <1>2. s \in Apart' => \A p \in Requests : req[p].session # s
    BY DEF Arrives, InFlight, Apart
  <1>3. Apart' \subseteq Sessions
    BY DEF Apart
  <1> QED BY <1>1, <1>2, <1>3 DEF CurrentAsks

LEMMA AskPicks ==
  ASSUME NEW q \in Requests, NEW s \in Sessions, Ask(q, s), RampTypeOK
  PROVE  \A t \in Sessions \ {s} : pick'[t] = pick[t]
  <1>1. PicksAnew(s) \/ pick' = pick
    BY DEF Ask
  <1> QED BY <1>1 DEF PicksAnew, RampTypeOK

LEMMA AsksStep ==
  ASSUME RampTypeOK, CurrentAsks, [RampNext]_rampVars
  PROVE  CurrentAsks'
  <1>1. ASSUME NEW q \in Requests, NEW s \in Sessions, Ask(q, s) PROVE CurrentAsks'
    <2>1. PICK step : Arrives(q, s, step)
      BY <1>1 DEF Ask
    <2> QED BY <1>1, <2>1, AskPicks, ApartShrinks, ArrivesPicks
  <1>2. ASSUME NEW q \in Requests, NEW s \in Sessions, Repeat(q, s) PROVE CurrentAsks'
    BY <1>2, ApartShrinks, ArrivesPicks DEF Repeat, sessions
  <1>3. ASSUME NEW q \in Requests, NEW s \in Sessions, NEW d \in Directions, Open(q, s, d)
        PROVE  CurrentAsks'
    <2>1. \A t \in Sessions \ {s} : pick'[t] = pick[t]
      BY <1>3 DEF Open, RampTypeOK
    <2> QED BY <1>3, <2>1, ApartShrinks, ArrivesPicks DEF Open
  <1>4. ASSUME NEW q \in Requests, Step(q) PROVE CurrentAsks'
    <2>1. "nobody" \notin Apart'
      BY RampAssumption DEF Apart
    <2> QED BY <1>4, <2>1, StepPicks, ApartShrinks DEF CurrentAsks
  <1>5. CASE UNCHANGED <<req, pick>>
    BY <1>5, ApartShrinks DEF CurrentAsks
  <1> QED BY <1>1, <1>2, <1>3, <1>4, <1>5 DEF RampNext, Expire, sessions, rampVars

LEMMA CurrentFlowStep ==
  ASSUME RampTypeOK, Begun, CurrentAsks, CurrentFlows, CurrentCopies,
         [RampNext]_rampVars
  PROVE  CurrentFlows'
  <1> SUFFICES ASSUME NEW s \in Apart', Settled(s)'
               PROVE  flow'[dir'[s]] = NoFlow \/ Current(flow'[dir'[s]], pick'[s])
    BY DEF CurrentFlows, Current
  <1>1. /\ s \in Sessions /\ s \in Apart
        /\ s \notin Interfered' /\ s \notin overlapped'
    BY ApartShrinks DEF Apart
  <1>2. CASE Stays(s) /\ Kept(s)
    BY <1>1, <1>2 DEF Stays, Kept, CurrentFlows
  <1>3. ASSUME NEW q \in Requests, StoreEntry(q), Stays(s),
               req[q].session = s, req[q].step > 1
        PROVE  Current(flow'[dir'[s]], pick'[s])
    <2>1. Current(req[q].copy, req[q].pick) /\ req[q].pick = pick[s]
      BY <1>1, <1>3 DEF CurrentCopies, CurrentAsks, StoreEntry
    <2> QED BY <1>1, <1>3, <2>1, StoredEntry DEF Stays
  <1>4. ASSUME NEW q \in Requests, StoreToken(q), req[q].session = s
        PROVE  Current(flow'[dir'[s]], pick'[s])
    <2>1. req[q].pick = pick[s]
      BY <1>1, <1>4 DEF CurrentAsks
    <2> QED BY <1>4, <2>1, StoredToken DEF StoreToken, sessions
  <1> QED BY <1>1, <1>2, <1>3, <1>4, SettledStep

LEMMA CurrentCopyStep ==
  ASSUME RampTypeOK, Begun, CurrentAsks, CurrentFlows, CurrentCopies,
         [RampNext]_rampVars
  PROVE  CurrentCopies'
  <1> USE ApartShrinks
  <1>1. ASSUME NEW q \in Requests, NEW s \in Sessions, NEW step, Arrives(q, s, step)
        PROVE  CurrentCopies'
    <2>1. /\ req'[q].pc = "load" \/ (req'[q].pc = "store" /\ req'[q].step = 1)
          /\ \A p \in Requests \ {q} : req'[p] = req[p]
      BY <1>1, ArrivesFrame
    <2> QED BY <2>1 DEF CurrentCopies, Current
  <1>2. ASSUME NEW q \in Requests, NEW s \in Sessions, Ask(q, s) \/ Repeat(q, s)
        PROVE  CurrentCopies'
    <2>1. PICK step : Arrives(q, s, step)
      BY <1>2 DEF Ask, Repeat
    <2> QED BY <1>1, <2>1
  <1>3. ASSUME NEW q \in Requests, NEW s \in Sessions, NEW d \in Directions, Open(q, s, d)
        PROVE  CurrentCopies'
    BY <1>1, <1>3 DEF Open
  <1>4. ASSUME NEW q \in Requests, Load(q) PROVE CurrentCopies'
    <2> DEFINE s == req[q].session
    <2>1. /\ req'[q].copy = flow[dir[s]] /\ req'[q].session = s
          /\ req'[q].pick = req[q].pick
          /\ \A p \in Requests \ {q} : req'[p] = req[p]
      BY <1>4 DEF Load, Key, RampTypeOK
    <2>2. s \in Sessions /\ Settled(s) /\ flow[dir[s]] # NoFlow
      BY <1>4 DEF Load, Key, Complete, Begun, Settled
    <2>3. s \in Apart => Current(flow[dir[s]], req[q].pick)
      BY <2>2 DEF CurrentFlows, CurrentAsks
    <2> QED BY <2>1, <2>2, <2>3 DEF CurrentCopies, Current
  <1>5. ASSUME NEW q \in Requests, PlaceOrder(q) PROVE CurrentCopies'
    <2>1. req'[q].pc = "delete" /\ \A p \in Requests \ {q} : req'[p] = req[p]
      BY <1>5 DEF PlaceOrder, RampTypeOK
    <2> QED BY <2>1 DEF CurrentCopies, Current
  <1>6. ASSUME NEW q \in Requests, NEW a \in {"CON", "END"}, Ends(q, a)
        PROVE  CurrentCopies'
    BY <1>6, EndsFrame DEF CurrentCopies, Current
  <1>7. CASE UNCHANGED req
    BY <1>7 DEF CurrentCopies, Current
  <1> QED
    BY <1>2, <1>3, <1>4, <1>5, <1>6, <1>7
    DEF RampNext, Step, StoreToken, LoadFails, StoreEntry, Gate, Reject, RedisFails,
        PlaceFails, Delete, Expire, rampVars

LEMMA WholeStep ==
  ASSUME RampTypeOK, Begun, CurrentCopies, OrderIsWhole, [RampNext]_rampVars
  PROVE  OrderIsWhole'
  <1> SUFFICES ASSUME NEW o \in orders', o.by \in Sessions => o.by \in Apart'
               PROVE  /\ o.from.pick = o.pick
                      /\ o.from.amount.pick = o.pick
                      /\ dir'[o.by] = "offramp" => o.from.bank.pick = o.pick
    <2>1. \A o \in orders' :
             o.by \notin (mixed \cup gated \cup overlapped)' =>
                (o.by \in Sessions => o.by \in Apart')
      BY DEF Apart, Interfered
    <2> QED BY <2>1 DEF OrderIsWhole
  <1>1. CASE o \in orders
    <2>1. o.by \in Sessions /\ o.by \in Apart /\ dir'[o.by] = dir[o.by]
      BY <1>1, ApartShrinks, OddGrows DEF RampTypeOK, Begun
    <2> QED BY <1>1, <2>1 DEF OrderIsWhole, Apart, Interfered
  <1>2. CASE o \notin orders
    <2>1. PICK q \in Requests : PlaceOrder(q) \/ PlaceFails(q)
      BY <1>2, OrderSteps
    <2>2. Order(q) /\ req[q].pc = "place" /\ dir' = dir
      BY <1>2, <2>1 DEF PlaceOrder, PlaceFails, sessions
    <2>3. o.by = req[q].session /\ o.pick = req[q].pick /\ o.from = req[q].copy
      BY <1>2, <2>2 DEF Order
    <2>4. /\ o.from.amount # Nothing
          /\ dir[o.by] = "offramp" => o.from.bank # Nothing
          /\ o.by \in Sessions
      BY <2>2, <2>3, OrderIsComplete
    <2>5. Current(o.from, o.pick)
      BY <2>2, <2>3, <2>4, ApartShrinks DEF CurrentCopies
    <2> QED BY <2>2, <2>4, <2>5 DEF Current
  <1> QED BY <1>1, <1>2

-----------------------------------------------------------------------------

LEMMA InitInv == RampInit => RampInv
  <1> SUFFICES ASSUME RampInit PROVE RampInv
    OBVIOUS
  <1>1. RampTypeOK
    BY Records, RampAssumption DEF RampInit, RampTypeOK, NoRequest
  <1>2. Begun
    BY FS_EmptySet DEF RampInit, Begun, NoRequest
  <1>4. OwnFlows /\ OwnCopies /\ OrderIsOwn
    BY DEF RampInit, OwnFlows, Settled, OwnCopies, NoRequest, OrderIsOwn
  <1> QED BY <1>1, <1>2, <1>4 DEF RampInv

(* The invariant is inductive. *)
THEOREM RampInvariant == RampSpec => []RampInv
  <1>1. RampInv /\ [RampNext]_rampVars => RampInv'
    BY TypeStep, BegunStep, FlowStep, CopyStep, OrderOwnStep
       DEF RampInv
  <1> QED BY <1>1, InitInv, PTL DEF RampSpec

-----------------------------------------------------------------------------

LEMMA OnceInitial == RampInit => OnceInv
  <1> SUFFICES ASSUME RampInit PROVE OnceInv
    OBVIOUS
  <1>1. Seen = {NoFlow} \/ Seen = {}
    BY DEF RampInit, Seen, NoRequest
  <1>2. Numbered
    BY <1>1 DEF RampInit, Numbered
  <1>3. InMenu /\ FlowsUsedUp /\ OneOrderPerFlow
    BY DEF RampInit, InMenu, FlowsUsedUp, OneOrderPerFlow
  <1>4. AtMostOne
    BY RampAssumption DEF RampInit, AtMostOne, NoRequest
  <1> QED BY <1>2, <1>3, <1>4 DEF OnceInv

(* The strengthening that numbers the flows and says when one is used up   *)
(* holds throughout.                                                       *)
THEOREM OnceInvariant == RampSpec => [](RampInv /\ OnceInv)
  <1>1. RampInv /\ OnceInv /\ [RampNext]_rampVars => OnceInv'
    <2> SUFFICES ASSUME RampInv, OnceInv, [RampNext]_rampVars PROVE OnceInv'
      OBVIOUS
    <2>1. RampInv'
      BY TypeStep, BegunStep, FlowStep, CopyStep, OrderOwnStep
         DEF RampInv
    <2>2. Numbered' /\ InMenu' /\ AtMostOne' /\ FlowsUsedUp'
      BY NumberedStep, InMenuStep, AtMostOneStep, UsedUpStep DEF RampInv, OnceInv
    <2> QED BY <2>1, <2>2, OnceStep DEF OnceInv
  <1> QED BY <1>1, OnceInitial, RampInvariant, PTL DEF RampSpec

-----------------------------------------------------------------------------

(* Every variable keeps its type. *)
THEOREM RampTyped == RampSpec => []RampTypeOK
  <1>1. RampInv => RampTypeOK
    BY DEF RampInv
  <1> QED BY <1>1, RampInvariant, PTL

(* An order's token is the one its session had picked last, and its bank   *)
(* and amount were entered after that pick, unless the session's requests  *)
(* overlapped, another session stored, or its first step was turned away.  *)
THEOREM OrdersAreWhole == RampSpec => []OrderIsWhole
  <1>1. RampInit => PicksInv
    BY RampAssumption
       DEF RampInit, PicksInv, CurrentAsks, CurrentFlows, CurrentCopies, Settled,
           NoRequest, OrderIsWhole, Apart
  <1>2. RampInv /\ PicksInv /\ [RampNext]_rampVars => PicksInv'
    BY AsksStep, CurrentFlowStep, CurrentCopyStep, WholeStep DEF RampInv, PicksInv
  <1>3. PicksInv => OrderIsWhole
    BY DEF PicksInv
  <1> QED BY <1>1, <1>2, <1>3, RampInvariant, PTL DEF RampSpec

(* An order is what its session entered, unless another session stored     *)
(* meanwhile or the session was turned away at its first step.             *)
THEOREM OrdersAreOwn == RampSpec => []OrderIsOwn
  <1>1. RampInv => OrderIsOwn
    BY DEF RampInv
  <1> QED BY <1>1, RampInvariant, PTL

(* A flow leads to one order, however often the gateway repeats a request, *)
(* however long its key lives and whoever else sells or buys, unless two   *)
(* requests of the session overlapped, its placement failed half way, a    *)
(* Redis call failed, or another session interfered.                       *)
THEOREM OrdersAreOnce == RampSpec => []OneOrderPerFlow
  <1>1. OnceInv => OneOrderPerFlow
    BY DEF OnceInv
  <1> QED BY <1>1, OnceInvariant, PTL
==============================================================================
