--------------------------- MODULE UtilityBillProofs ---------------------------
(***************************************************************************)
(* Proofs about utility bills, for any bills, signatures and bound on      *)
(* faults: the type invariant, the safety invariants of the run and the    *)
(* refinement of the strict MirroredLifecycle.                             *)
(*                                                                         *)
(* BillInv says what the row, the chain and the vendor look like at each   *)
(* stage of the handler (StageOK), and that tasks and ledger rows only     *)
(* carry outcomes and signatures of their bill (TaskOK, RowOK).  A bill's  *)
(* outcome and signature are written once (BillGrows), so what a late task *)
(* carries is never stale.                                                 *)
(***************************************************************************)
EXTENDS UtilityBill, TLAPS

-----------------------------------------------------------------------------
(* Steps of the ledger, whatever table its tasks come from.  They do not   *)
(* depend on the orders; PajProofs has the same lemmas.                    *)

(* A closed status never changes, and a row takes a status it is given. *)
LEMMA StickyValues ==
    ASSUME NEW old, NEW new
    PROVE  /\ old \in Terminal => Sticky(old, new) = old
           /\ old \notin Terminal => Sticky(old, new) = new
  BY DEF Sticky

(* A signature that COALESCE returns is one of its arguments. *)
LEMMA CoalesceType ==
    ASSUME NEW a \in MaybeSig, NEW b \in MaybeSig
    PROVE  Coalesce(a, b) \in MaybeSig
  BY DEF Coalesce

(* The signature that a task's step leaves in its row. *)
NewSig(t) == IF t.kind = "log" THEN Coalesce(ledger[t.ref].sig, t.sig)
                               ELSE Coalesce(t.sig, ledger[t.ref].sig)

(* What a task's step does to its row: nothing, or the task's status on a  *)
(* row that is not closed.  A patch never opens a row.                     *)
RowStep(t) ==
    \/ UNCHANGED ledger
    \/ \E g \in MaybeSig :
          /\ ledger' = [ledger EXCEPT ![t.ref] =
                          [status |-> Sticky(ledger[t.ref].status, t.status),
                           sig    |-> g]]
          /\ g = NewSig(t)
          /\ t.kind = "patch" => ledger[t.ref].status # "absent"

(* A step of a task t or its loss: the row, the tasks, what is lost. *)
TaskDone(t) ==
    /\ t \in tasks
    /\ RowStep(t)
    /\ \/ /\ tasks' = tasks \ {t}
          /\ t.ref \notin lost' => ledger'[t.ref].status
                = Sticky(ledger[t.ref].status, t.status)
       \/ /\ tasks' = (tasks \ {t}) \cup {[t EXCEPT !.retried = TRUE]}
          /\ UNCHANGED ledger
    /\ lost \subseteq lost' /\ lost' \subseteq Refs
    /\ faults' \in 0..MaxFaults

LEMMA LedgerStep ==
    ASSUME LedgerTypeOK, LedgerNext
    PROVE  \E t \in tasks : TaskDone(t)
  <1> USE DEF LedgerTypeOK
  <1>1. PICK t \in tasks : TaskStep(t) \/ DropTask(t)
    BY DEF LedgerNext
  <1>2. /\ t \in Task
        /\ t.ref \in Refs /\ t.status \in RowStatus /\ t.sig \in MaybeSig
        /\ t.kind \in {"log", "patch"}
    BY DEF Task
  <1>3. ledger[t.ref].sig \in MaybeSig
    BY <1>2
  <1>4. CASE RunLog(t)
    <2>1. Coalesce(ledger[t.ref].sig, t.sig) \in MaybeSig
      BY <1>2, <1>3, CoalesceType
    <2>2. ledger' = [ledger EXCEPT ![t.ref] =
                       [status |-> Sticky(ledger[t.ref].status, t.status),
                        sig |-> Coalesce(ledger[t.ref].sig, t.sig)]]
      BY <1>4 DEF RunLog, Upserted
    <2>3. RowStep(t)
      BY <1>4, <2>1, <2>2 DEF RowStep, NewSig, RunLog
    <2>4. ledger'[t.ref].status = Sticky(ledger[t.ref].status, t.status)
      BY <2>2, <1>2
    <2> QED BY <1>4, <2>3, <2>4 DEF RunLog, TaskDone
  <1>5. CASE RunPatch(t)
    <2>1. Coalesce(t.sig, ledger[t.ref].sig) \in MaybeSig
      BY <1>2, <1>3, CoalesceType
    <2>2. ledger' = [ledger EXCEPT ![t.ref] =
                       [status |-> Sticky(ledger[t.ref].status, t.status),
                        sig |-> Coalesce(t.sig, ledger[t.ref].sig)]]
      BY <1>5 DEF RunPatch, Patched
    <2>3. RowStep(t)
      BY <1>5, <2>1, <2>2 DEF RowStep, NewSig, RunPatch
    <2>4. ledger'[t.ref].status = Sticky(ledger[t.ref].status, t.status)
      BY <2>2, <1>2
    <2> QED BY <1>5, <2>3, <2>4 DEF RunPatch, TaskDone
  <1>6. CASE MissFirst(t)
    BY <1>6 DEF MissFirst, TaskDone, RowStep
  <1>7. CASE MissLast(t)
    BY <1>2, <1>7 DEF MissLast, TaskDone, RowStep
  <1>8. CASE DropTask(t)
    BY <1>2, <1>8, LedgerAssumption DEF DropTask, Fault, TaskDone, RowStep
  <1> QED BY <1>1, <1>4, <1>5, <1>6, <1>7, <1>8 DEF TaskStep

(* Ledger steps keep the types of the ledger. *)
LEMMA LedgerTyped ==
    ASSUME LedgerTypeOK, NEW t \in tasks, TaskDone(t)
    PROVE  LedgerTypeOK'
  <1> USE DEF LedgerTypeOK
  <1>1. /\ t \in Task /\ t.ref \in Refs /\ t.status \in RowStatus
        /\ [t EXCEPT !.retried = TRUE] \in Task
    BY DEF Task
  <1>2. Sticky(ledger[t.ref].status, t.status) \in RowStatus \cup {"absent"}
    BY <1>1 DEF Sticky
  <1>3. ledger' \in [Refs -> [status: RowStatus \cup {"absent"}, sig: MaybeSig]]
    <2>1. CASE UNCHANGED ledger
      BY <2>1
    <2>2. CASE ~UNCHANGED ledger
      <3>1. PICK g \in MaybeSig :
               ledger' = [ledger EXCEPT ![t.ref] =
                            [status |-> Sticky(ledger[t.ref].status, t.status),
                             sig    |-> g]]
        BY <2>2 DEF TaskDone, RowStep
      <3> QED BY <1>1, <1>2, <3>1
    <2> QED BY <2>1, <2>2
  <1>4. tasks' \subseteq Task
    BY <1>1 DEF TaskDone
  <1> QED BY <1>3, <1>4 DEF TaskDone

-----------------------------------------------------------------------------

Final == {"COMPLETED", "FAILED"}

StageOK(b) ==
    /\ pc[b] \in {"idle", "quoted"} =>
          bill[b].status = "absent" /\ bill[b].sig = NoSig
    /\ pc[b] \in {"idle", "quoted", "pending"} =>
          held[b] = NoSig /\ chain[b] = "none"
    /\ pc[b] \in {"pending", "sent", "sendFailed"} =>
          bill[b].status = "PENDING" /\ bill[b].sig = NoSig
    /\ pc[b] \in {"idle", "quoted", "pending", "sent", "sendFailed", "submitted"} =>
          vendor[b] = "none"
    /\ pc[b] = "sendFailed" => held[b] = NoSig
    /\ pc[b] \in {"sent", "submitted", "processed", "unprocessed"} =>
          held[b] # NoSig /\ chain[b] = "sent"
    /\ pc[b] \in {"submitted", "processed", "unprocessed"} =>
          bill[b].status = "ONCHAIN_SUBMITTED" /\ bill[b].sig = held[b]
    /\ pc[b] = "processed" => vendor[b] # "none"
    /\ bill[b].status \in Final => pc[b] = "returned"

(* The properties of a single bill, as they are proved. *)
BillOK(b) ==
    /\ bill[b].status = "COMPLETED" =>
          chain[b] = "sent" /\ bill[b].sig # NoSig /\ vendor[b] # "none"
    /\ vendor[b] # "none" => bill[b].sig # NoSig /\ bill[b].status # "PENDING"
    /\ pc[b] = "returned" /\ chain[b] = "sent" /\ faults = 0 =>
          bill[b].status \in Final

TaskOK(t) ==
    /\ bill[t.ref].status # "absent"
    /\ t.kind = "log" => t.status = "PENDING" /\ t.sig = NoSig
    /\ t.status \in Terminal =>
          /\ bill[t.ref].status \in Final
          /\ t.status = LedgerStatus(bill[t.ref].status)
    /\ t.status = "CONFIRMED" => t.sig # NoSig
    /\ t.sig # NoSig => t.sig = bill[t.ref].sig

RowOK(b) ==
    /\ ledger[b].status # "absent" => bill[b].status # "absent"
    /\ ledger[b].status \in Terminal =>
          /\ bill[b].status \in Final
          /\ ledger[b].status = LedgerStatus(bill[b].status)
    /\ ledger[b].status = "CONFIRMED" => ledger[b].sig # NoSig
    /\ ledger[b].sig # NoSig => ledger[b].sig = bill[b].sig

BillInv ==
    /\ BillTypeOK
    /\ \A b \in Refs : StageOK(b) /\ BillOK(b) /\ RowOK(b)
    /\ \A t \in tasks : TaskOK(t)

-----------------------------------------------------------------------------
(* A bill's row never goes away, its outcome and its signature never change. *)
BillGrows == \A b \in Refs :
    /\ bill[b].status # "absent" => bill'[b].status # "absent"
    /\ bill[b].status \in Final => bill'[b].status = bill[b].status
    /\ bill[b].sig # NoSig => bill'[b].sig = bill[b].sig

LEMMA Values ==
    /\ \A s : LedgerStatus(s) \in RowStatus
    /\ \A s : LedgerStatus(s) \in Terminal <=> s \in Final
    /\ \A s : LedgerStatus(s) = "CONFIRMED" <=> s = "COMPLETED"
    /\ "PENDING" \in RowStatus \ Terminal
    /\ "absent" \notin BillStatus
    /\ Final \subseteq BillStatus
    /\ {"PENDING", "ONCHAIN_SUBMITTED"} \subseteq BillStatus \ Final
  BY DEF LedgerStatus, RowStatus, Terminal, Final, BillStatus

LEMMA BillInitial == Init => BillInv
  <1> SUFFICES ASSUME Init PROVE BillInv
    OBVIOUS
  <1> USE DEF Init, LedgerInit
  <1>1. BillTypeOK
    BY LedgerAssumption DEF BillTypeOK, LedgerTypeOK, Stages, MaybeSig, VendorState
  <1>2. \A b \in Refs : StageOK(b) /\ BillOK(b) /\ RowOK(b)
    BY DEF StageOK, BillOK, RowOK, Final, Terminal
  <1> QED BY <1>1, <1>2 DEF BillInv

(* Rows and tasks follow their bills. *)
LEMMA FollowersKept ==
    ASSUME BillInv, BillGrows, UNCHANGED ledger
    PROVE  (\A b \in Refs : RowOK(b)') /\ (\A t \in tasks : TaskOK(t)')
  <1>1. \A t \in tasks : t.ref \in Refs
    BY DEF BillInv, BillTypeOK, LedgerTypeOK, Task
  <1>2. \A b \in Refs : RowOK(b)'
    BY DEF BillInv, BillGrows, RowOK
  <1>3. \A t \in tasks : TaskOK(t)'
    BY <1>1 DEF BillInv, BillGrows, TaskOK
  <1> QED BY <1>2, <1>3

(* A step of one bill's handler: what remains to be shown is about it. *)
LEMMA HandlerKeeps ==
    ASSUME BillInv, NEW b \in Refs, BillTypeOK',
           \A q \in Refs \ {b} :
              /\ pc'[q] = pc[q] /\ bill'[q] = bill[q] /\ held'[q] = held[q]
              /\ chain'[q] = chain[q] /\ vendor'[q] = vendor[q],
           faults' = 0 => faults = 0,
           UNCHANGED ledger,
           StageOK(b)', BillOK(b)', BillGrows,
           \A t \in tasks' : t \in tasks \/ TaskOK(t)'
    PROVE  BillInv'
  <1>1. \A q \in Refs : StageOK(q)' /\ BillOK(q)'
    BY DEF BillInv, StageOK, BillOK
  <1> QED BY <1>1, FollowersKept DEF BillInv

(* The steps that write neither the row nor a task. *)
LEMMA QuietKeeps ==
    ASSUME BillInv, NEW b \in Refs,
           \/ Refuse(b) \/ Transact(b) \/ InsertFails(b) \/ CannotSign(b)
           \/ SendFails(b) \/ Process(b) \/ ProcessFails(b)
           \/ \E g \in Sigs : Send(b, g)
    PROVE  BillInv'
  <1> USE DEF BillInv, BillTypeOK
  <1>1. UNCHANGED <<bill, ledger, tasks, lost, faults>>
    BY DEF Refuse, Transact, InsertFails, CannotSign, SendFails, Process,
       ProcessFails, Send, ledgerVars
  <1>2. /\ \E s \in Stages : pc' = [pc EXCEPT ![b] = s]
        /\ \E g \in MaybeSig : held' = [held EXCEPT ![b] = g]
        /\ \E c \in {"none", "sent"} : chain' = [chain EXCEPT ![b] = c]
        /\ \E v \in VendorState : vendor' = [vendor EXCEPT ![b] = v]
    BY DEF Refuse, Transact, InsertFails, CannotSign, SendFails, Process,
       ProcessFails, Send, Goto, Stages, Running, MaybeSig, VendorState
  <1>3. BillTypeOK'
    BY <1>1, <1>2 DEF LedgerTypeOK
  <1>4. \A q \in Refs \ {b} :
           /\ pc'[q] = pc[q] /\ bill'[q] = bill[q] /\ held'[q] = held[q]
           /\ chain'[q] = chain[q] /\ vendor'[q] = vendor[q]
    BY <1>1, <1>2
  <1>5. StageOK(b)' /\ BillOK(b)'
    <2> USE DEF StageOK, BillOK, Goto
    <2>1. CASE Refuse(b) \/ Transact(b) \/ InsertFails(b)
      BY <1>1, <2>1, Values DEF Refuse, Transact, InsertFails
    <2>2. CASE CannotSign(b)
      BY <1>1, <2>2, Values DEF CannotSign
    <2>3. CASE SendFails(b)
      BY <1>1, <2>3, Values DEF SendFails
    <2>4. CASE Process(b) \/ ProcessFails(b)
      BY <1>1, <2>4, Values DEF Process, ProcessFails, VendorState
    <2>5. CASE \E g \in Sigs : Send(b, g)
      BY <1>1, <2>5, Values, LedgerAssumption DEF Send
    <2> QED BY <2>1, <2>2, <2>3, <2>4, <2>5
  <1>6. BillGrows
    BY <1>1 DEF BillGrows
  <1> QED BY <1>1, <1>3, <1>4, <1>5, <1>6, HandlerKeeps

(* The row appears. *)
LEMMA InsertKeeps ==
    ASSUME BillInv, NEW b \in Refs, InsertOrderPending(b) \/ InsertUnacknowledged(b)
    PROVE  BillInv'
  <1> USE DEF BillInv, BillTypeOK
  <1> DEFINE log == LogTask(b, "PENDING", "PENDING")
  <1>1. /\ pc[b] = "quoted"
        /\ bill' = [bill EXCEPT ![b].status = "PENDING"]
        /\ UNCHANGED <<held, chain, vendor, ledger, lost>>
        /\ tasks' \subseteq tasks \cup {log}
    BY DEF InsertOrderPending, InsertUnacknowledged, Goto
  <1>2. \E s \in {"pending", "refused"} : pc' = [pc EXCEPT ![b] = s]
    BY DEF InsertOrderPending, InsertUnacknowledged, Goto
  <1>3. faults' \in 0..MaxFaults /\ (faults' = 0 => faults = 0)
    BY LedgerAssumption DEF InsertOrderPending, InsertUnacknowledged, Fault,
       LedgerTypeOK
  <1>4. BillTypeOK'
    <2>1. log \in Task
      BY BillAssumption DEF LogTask, Task, RowStatus, MaybeSig
    <2>2. bill' \in [Refs -> [status: BillStatus \cup {"absent"}, sig: MaybeSig]]
      BY <1>1 DEF BillStatus
    <2>3. pc' \in [Refs -> Stages]
      BY <1>2 DEF Stages, Running
    <2> QED BY <1>1, <1>3, <2>1, <2>2, <2>3 DEF LedgerTypeOK
  <1>5. bill'[b].status = "PENDING" /\ bill'[b].sig = NoSig
        /\ bill[b].status = "absent" /\ bill[b].sig = NoSig
    BY <1>1 DEF StageOK
  <1>6. \A q \in Refs \ {b} : pc'[q] = pc[q] /\ bill'[q] = bill[q]
    BY <1>1, <1>2
  <1>7. StageOK(b)' /\ BillOK(b)'
    BY <1>1, <1>2, <1>5, Values DEF StageOK, BillOK
  <1>8. BillGrows
    BY <1>5, <1>6, Values DEF BillGrows
  <1>9. TaskOK(log)'
    BY <1>5, Values DEF TaskOK, LogTask, Terminal
  <1> QED BY <1>1, <1>3, <1>4, <1>6, <1>7, <1>8, <1>9, HandlerKeeps

(* A status is written, with its patch spawned or lost.  The signature is  *)
(* the handler's, or none if the send failed.                              *)
LEMMA WriteKeeps ==
    ASSUME BillInv, NEW b \in Refs, NEW s \in {"ONCHAIN_SUBMITTED", "COMPLETED",
    "FAILED"},
           NEW to \in {"submitted", "returned"},
           pc[b] \in {"sent", "sendFailed", "processed", "unprocessed"},
           pc' = [pc EXCEPT ![b] = to],
           bill' = [bill EXCEPT ![b] = Updated(bill[b], s, held[b])],
           tasks' \subseteq tasks \cup {PatchTask(b, s, LedgerStatus(s), held[b])},
           UNCHANGED <<held, chain, vendor, ledger>>,
           lost' \subseteq Refs, faults' \in 0..MaxFaults,
           faults' = 0 => faults = 0,
           to = "submitted" <=> s = "ONCHAIN_SUBMITTED" /\ faults' = faults,
           to = "submitted" => pc[b] = "sent",
           s = "COMPLETED" <=> pc[b] = "processed",
           s = "ONCHAIN_SUBMITTED" /\ to = "returned" => faults' # 0
    PROVE  BillInv'
  <1> USE DEF BillInv, BillTypeOK
  <1> DEFINE patch == PatchTask(b, s, LedgerStatus(s), held[b])
  <1>1. /\ StageOK(b) /\ BillOK(b) /\ held[b] \in MaybeSig
        /\ bill[b].status \in {"PENDING", "ONCHAIN_SUBMITTED"}
        /\ bill[b].sig \in {NoSig, held[b]}
        /\ bill[b].sig \in MaybeSig
        /\ held[b] = NoSig => pc[b] = "sendFailed"
    BY DEF StageOK
  <1>2. bill'[b].status = s /\ bill'[b].sig = held[b]
    BY <1>1 DEF Updated, Coalesce
  <1>3. \A q \in Refs \ {b} : pc'[q] = pc[q] /\ bill'[q] = bill[q]
    OBVIOUS
  <1>4. BillTypeOK'
    <2>1. patch \in Task
      BY <1>1, Values, BillAssumption DEF PatchTask, Task
    <2>2. Updated(bill[b], s, held[b]) \in
             [status: BillStatus \cup {"absent"}, sig: MaybeSig]
      BY <1>1 DEF Updated, Coalesce, BillStatus
    <2>3. pc' \in [Refs -> Stages]
      BY DEF Stages, Running
    <2> QED BY <2>1, <2>2, <2>3 DEF LedgerTypeOK
  <1>5. pc'[b] = to
    OBVIOUS
  <1>6. StageOK(b)' /\ BillOK(b)'
    <2>1. StageOK(b)'
      BY <1>1, <1>2, <1>5, Values DEF StageOK, Final
    <2>2. BillOK(b)'
      BY <1>1, <1>2, <1>5, Values DEF StageOK, BillOK, Final
    <2> QED BY <2>1, <2>2
  <1>7. BillGrows
    BY <1>1, <1>2, <1>3, Values DEF BillGrows
  <1>8. TaskOK(patch)'
    <2>1. /\ patch.ref = b /\ patch.kind = "patch"
          /\ patch.status = LedgerStatus(s) /\ patch.sig = held[b]
      BY DEF PatchTask
    <2>2. s = "COMPLETED" => held[b] # NoSig
      BY <1>1
    <2> QED BY <1>2, <2>1, <2>2, Values DEF TaskOK
  <1> QED BY <1>3, <1>4, <1>6, <1>7, <1>8, HandlerKeeps

LEMMA RecordKeeps ==
    ASSUME BillInv, NEW b \in Refs,
           \/ RecordSendFailure(b) \/ RecordSubmitted(b)
           \/ RecordCompleted(b) \/ RecordVendorFailure(b)
    PROVE  BillInv'
  <1> USE DEF BillInv, BillTypeOK, LedgerTypeOK
  <1>1. faults \in 0..MaxFaults /\ 0..MaxFaults \subseteq Nat
    BY LedgerAssumption
  <1>2. CASE RecordSendFailure(b)
    <2>1. held[b] = NoSig
      BY <1>2 DEF RecordSendFailure, Goto, StageOK
    <2> QED BY <1>1, <1>2, <2>1, WriteKeeps DEF RecordSendFailure, Goto, UpdateOrderStatus
  <1>3. CASE RecordSubmitted(b)
    BY <1>1, <1>3, WriteKeeps DEF RecordSubmitted, Goto, UpdateOrderStatus
  <1>4. CASE RecordCompleted(b)
    BY <1>1, <1>4, WriteKeeps DEF RecordCompleted, Goto, UpdateOrderStatus
  <1>5. CASE RecordVendorFailure(b)
    BY <1>1, <1>5, WriteKeeps DEF RecordVendorFailure, Goto, UpdateOrderStatus
  <1> QED BY <1>2, <1>3, <1>4, <1>5

LEMMA UpdateFailsKeeps ==
    ASSUME BillInv, NEW b \in Refs, UpdateFails(b)
    PROVE  BillInv'
  <1> USE DEF BillInv, BillTypeOK, LedgerTypeOK
  <1> DEFINE s == StatusToWrite(pc[b])
  <1>1. /\ pc[b] \in {"sent", "sendFailed", "processed", "unprocessed"}
        /\ faults' \in 0..MaxFaults /\ faults' # 0 /\ faults' # faults
        /\ pc' = [pc EXCEPT ![b] = "returned"]
        /\ UNCHANGED <<held, chain, vendor, ledger, tasks>>
    BY LedgerAssumption DEF UpdateFails, Fault
  <1>2. CASE UNCHANGED <<bill, lost>>
    <2>1. BillTypeOK'
      BY <1>1, <1>2 DEF Stages
    <2>2. \A q \in Refs \ {b} : pc'[q] = pc[q]
      BY <1>1
    <2>3. pc'[b] = "returned"
      BY <1>1
    <2>4. StageOK(b)' /\ BillOK(b)'
      BY <1>1, <1>2, <2>3, Values DEF StageOK, BillOK
    <2>5. BillGrows
      BY <1>2 DEF BillGrows
    <2> QED BY <1>1, <1>2, <2>1, <2>2, <2>4, <2>5, HandlerKeeps
  <1>3. CASE bill' = [bill EXCEPT ![b] = Updated(bill[b], s, held[b])]
             /\ lost' = lost \cup {b}
    <2>1. /\ s \in {"ONCHAIN_SUBMITTED", "COMPLETED", "FAILED"}
          /\ s = "COMPLETED" <=> pc[b] = "processed"
      BY <1>1 DEF StatusToWrite
    <2> QED BY <1>1, <1>3, <2>1, WriteKeeps
  <1> QED BY <1>2, <1>3 DEF UpdateFails

LEMMA CrashKeeps ==
    ASSUME BillInv, Crash
    PROVE  BillInv'
  <1> USE DEF BillInv, BillTypeOK, LedgerTypeOK
  <1>1. /\ UNCHANGED <<bill, held, chain, vendor, ledger>>
        /\ tasks' = {}
        /\ lost' = lost \cup {t.ref : t \in tasks}
        /\ faults' \in 0..MaxFaults /\ faults' # 0
        /\ pc' = [b \in Refs |-> IF pc[b] \in Running THEN "died" ELSE pc[b]]
    BY LedgerAssumption DEF Crash, TasksDie, Fault
  <1>2. BillTypeOK'
    <2>1. lost' \subseteq Refs
      BY <1>1 DEF Task
    <2>2. pc' \in [Refs -> Stages]
      BY <1>1 DEF Stages
    <2> QED BY <1>1, <2>1, <2>2
  <1>3. \A b \in Refs : StageOK(b)' /\ BillOK(b)'
    <2> TAKE b \in Refs
    <2>1. pc'[b] = IF pc[b] \in Running THEN "died" ELSE pc[b]
      BY <1>1
    <2>2. StageOK(b)'
      BY <1>1, <2>1 DEF StageOK, Running
    <2>3. BillOK(b)'
      BY <1>1 DEF BillOK
    <2> QED BY <2>2, <2>3
  <1>4. \A b \in Refs : RowOK(b)'
    BY <1>1 DEF RowOK
  <1> QED BY <1>1, <1>2, <1>3, <1>4

(* What a ledger step does to its own row. *)
LEMMA LedgerRow ==
    ASSUME BillInv, NEW t \in tasks, TaskDone(t)
    PROVE  /\ \A b \in Refs \ {t.ref} : ledger'[b] = ledger[b]
           /\ \/ ledger' = ledger
              \/ /\ ledger'[t.ref].status = Sticky(ledger[t.ref].status, t.status)
                 /\ ledger'[t.ref].sig = NewSig(t)
                 /\ t.kind = "patch" => ledger[t.ref].status # "absent"
  <1>1. t.ref \in Refs
    BY DEF BillInv, BillTypeOK, LedgerTypeOK, Task
  <1>2. CASE UNCHANGED ledger
    BY <1>2
  <1>3. CASE ~UNCHANGED ledger
    <2>1. PICK g \in MaybeSig :
             /\ ledger' = [ledger EXCEPT ![t.ref] =
                             [status |-> Sticky(ledger[t.ref].status, t.status),
                              sig    |-> g]]
             /\ g = NewSig(t)
             /\ t.kind = "patch" => ledger[t.ref].status # "absent"
      BY <1>3 DEF TaskDone, RowStep
    <2> QED BY <1>1, <2>1 DEF BillInv, BillTypeOK, LedgerTypeOK
  <1> QED BY <1>2, <1>3

LEMMA LedgerKeeps ==
    ASSUME BillInv, LedgerNext, UNCHANGED billVars
    PROVE  BillInv'
  <1> USE DEF BillInv
  <1>1. UNCHANGED <<pc, bill, held, chain, vendor>>
    BY DEF billVars
  <1>2. LedgerTypeOK
    BY DEF BillTypeOK
  <1>3. PICK t \in tasks : TaskDone(t)
    BY <1>2, LedgerStep
  <1>4. /\ t.ref \in Refs /\ TaskOK(t) /\ t.status \in RowStatus
        /\ t.kind \in {"log", "patch"}
    BY <1>2 DEF LedgerTypeOK, Task
  <1>5. faults' = 0 => faults = 0
    BY LedgerAssumption DEF LedgerNext, TaskStep, RunLog, RunPatch, MissFirst,
       MissLast, DropTask, Fault, BillTypeOK, LedgerTypeOK
  <1>6. BillTypeOK'
    <2>1. LedgerTypeOK'
      BY <1>2, <1>3, LedgerTyped
    <2> QED BY <1>1, <2>1 DEF BillTypeOK
  <1>7. \A b \in Refs : StageOK(b)' /\ BillOK(b)'
    BY <1>1, <1>5 DEF StageOK, BillOK
  <1>8. \A u \in tasks' : TaskOK(u)'
    <2>1. \A u \in tasks' : \E v \in tasks :
             /\ u.ref = v.ref /\ u.kind = v.kind
             /\ u.status = v.status /\ u.sig = v.sig
      BY <1>2, <1>3, <1>4 DEF TaskDone, LedgerTypeOK, Task
    <2> QED BY <2>1, <1>1 DEF TaskOK
  <1>9. \A b \in Refs : RowOK(b)'
    <2>1. \A b \in Refs \ {t.ref} : RowOK(b)'
      BY <1>1, <1>3, LedgerRow DEF RowOK
    <2>2. CASE ledger' = ledger
      BY <1>1, <2>2 DEF RowOK
    <2>3. CASE ledger' # ledger
      <3>1. /\ ledger'[t.ref].status = Sticky(ledger[t.ref].status, t.status)
            /\ ledger'[t.ref].sig = NewSig(t)
        BY <1>3, <2>3, LedgerRow
      <3>2. RowOK(t.ref)
        BY <1>4
      <3>3. ledger'[t.ref].sig # NoSig => ledger'[t.ref].sig = bill[t.ref].sig
        BY <1>4, <3>1, <3>2 DEF NewSig, Coalesce, TaskOK, RowOK
      <3>4. ledger[t.ref].sig # NoSig \/ t.sig # NoSig => ledger'[t.ref].sig # NoSig
        BY <3>1 DEF NewSig, Coalesce
      <3>5. RowOK(t.ref)'
        BY <1>1, <1>4, <3>1, <3>2, <3>3, <3>4 DEF RowOK, TaskOK, Sticky
      <3> QED BY <2>1, <3>5
    <2> QED BY <2>2, <2>3
  <1> QED BY <1>6, <1>7, <1>8, <1>9

-----------------------------------------------------------------------------
LEMMA StepKeeps == BillInv /\ [Next]_vars => BillInv'
  <1> SUFFICES ASSUME BillInv, [Next]_vars PROVE BillInv'
    OBVIOUS
  <1>1. CASE UNCHANGED vars
    BY <1>1 DEF vars, BillInv, BillTypeOK, LedgerTypeOK, StageOK, BillOK, RowOK,
       TaskOK
  <1>2. CASE \E b \in Refs : Handler(b)
    BY <1>2, QuietKeeps, InsertKeeps, RecordKeeps, UpdateFailsKeeps DEF Handler
  <1>3. CASE Crash
    BY <1>3, CrashKeeps
  <1>4. CASE LedgerNext /\ UNCHANGED billVars
    BY <1>4, LedgerKeeps
  <1> QED BY <1>1, <1>2, <1>3, <1>4 DEF Next

LEMMA BillInvariant == Spec => []BillInv
  BY BillInitial, StepKeeps, PTL DEF Spec

(* The state of bills, the chain, the vendor and the ledger has its type. *)
THEOREM BillTyped == Spec => []BillTypeOK
  <1>1. BillInv => BillTypeOK
    BY DEF BillInv
  <1> QED BY <1>1, BillInvariant, PTL

(* The payment of a completed bill was sent and the vendor took the bill,  *)
(* whatever failed on the way.                                             *)
THEOREM CompletedAreTaken == Spec => []CompletedIsTaken
  <1>1. BillInv => CompletedIsTaken
    BY DEF BillInv, BillOK, CompletedIsTaken
  <1> QED BY <1>1, BillInvariant, PTL

(* The payment of a bill that the vendor has taken can be found, also      *)
(* after a crash.                                                          *)
THEOREM TakenAreTraceable == Spec => []TakenIsTraceable
  <1>1. BillInv => TakenIsTraceable
    BY DEF BillInv, BillOK, TakenIsTraceable
  <1> QED BY <1>1, BillInvariant, PTL

(* Without faults, a handler that paid leaves an outcome in the row. *)
THEOREM PaidBills == Spec => []PaidBillIsSettled
  <1>1. BillInv => PaidBillIsSettled
    BY DEF BillInv, BillOK, PaidBillIsSettled, Final
  <1> QED BY <1>1, BillInvariant, PTL

(* A confirmed ledger row has the bill's signature, in whatever order the  *)
(* tasks ran.                                                              *)
THEOREM ConfirmedRows == Spec => []ConfirmedLedgerHasSignature
  <1>1. BillInv => ConfirmedLedgerHasSignature
    BY DEF BillInv, RowOK, ConfirmedLedgerHasSignature
  <1> QED BY <1>1, BillInvariant, PTL

-----------------------------------------------------------------------------
(* Refinement. *)

LEMMA MapInit == Init => Mirrored!Init
  BY DEF Init, LedgerInit, Mirrored!Init, View

(* A step that changes one bill's row, seen through the mapping. *)
LEMMA MapBillStep ==
    ASSUME BillInv, NEW b \in Refs, UNCHANGED ledger,
           \A q \in Refs \ {b} : bill'[q] = bill[q],
           \/ View(bill'[b].status) = View(bill[b].status)
           \/ View(bill[b].status) = "absent" /\ View(bill'[b].status) = "open"
           \/ View(bill[b].status) = "open"
                 /\ View(bill'[b].status) \in Mirrored!Outcomes
    PROVE  [Mirrored!Next]_(Mirrored!vars)
  <1> DEFINE state == [q \in Refs |-> View(bill[q].status)]
             state2 == [q \in Refs |-> View(bill'[q].status)]
  <1>1. state2 = [state EXCEPT ![b] = View(bill'[b].status)]
    OBVIOUS
  <1>2. CASE View(bill'[b].status) = View(bill[b].status)
    BY <1>1, <1>2 DEF Mirrored!vars
  <1>3. CASE View(bill[b].status) = "absent" /\ View(bill'[b].status) = "open"
    BY <1>1, <1>3 DEF Mirrored!Next, Mirrored!Open
  <1>4. CASE View(bill[b].status) = "open"
               /\ View(bill'[b].status) \in Mirrored!Outcomes
    BY <1>1, <1>4 DEF Mirrored!Next, Mirrored!Close
  <1> QED BY <1>2, <1>3, <1>4

LEMMA MapLedgerStep ==
    ASSUME BillInv, LedgerNext, UNCHANGED bill
    PROVE  [Mirrored!Next]_(Mirrored!vars)
  <1> DEFINE mirror == [q \in Refs |-> View(ledger[q].status)]
             mirror2 == [q \in Refs |-> View(ledger'[q].status)]
  <1>1. LedgerTypeOK
    BY DEF BillInv, BillTypeOK
  <1>2. PICK t \in tasks : TaskDone(t)
    BY <1>1, LedgerStep
  <1> DEFINE b == t.ref
  <1>3. /\ b \in Refs /\ TaskOK(t) /\ t.status \in RowStatus
        /\ t.kind \in {"log", "patch"}
        /\ ledger[b].status \in RowStatus \cup {"absent"}
    BY <1>1 DEF BillInv, LedgerTypeOK, Task
  <1>4. CASE UNCHANGED ledger
    BY <1>4 DEF Mirrored!vars
  <1>5. CASE ~UNCHANGED ledger
    <2>1. /\ \A q \in Refs \ {b} : ledger'[q] = ledger[q]
          /\ ledger'[b].status = Sticky(ledger[b].status, t.status)
          /\ t.kind = "patch" => ledger[b].status # "absent"
      BY <1>2, <1>5, LedgerRow
    <2>2. mirror2 = [mirror EXCEPT ![b] = View(ledger'[b].status)]
      BY <2>1
    <2>3. CASE View(ledger'[b].status) = View(ledger[b].status)
      BY <2>2, <2>3 DEF Mirrored!vars
    <2>4. CASE View(ledger'[b].status) # View(ledger[b].status)
      <3>1. \/ /\ ledger[b].status = "absent"
               /\ ledger'[b].status = "PENDING"
            \/ /\ ledger[b].status = "PENDING"
               /\ ledger'[b].status = t.status /\ t.status \in Terminal
        BY <2>1, <2>4, <1>3 DEF Sticky, TaskOK, RowStatus, Terminal
      <3>2. CASE ledger[b].status = "absent"
        <4>1. View(bill[b].status) # "absent"
          BY <1>3 DEF TaskOK, View
        <4>2. View(ledger[b].status) = "absent" /\ View(ledger'[b].status) = "open"
          BY <3>1, <3>2 DEF View
        <4> QED BY <2>2, <4>1, <4>2, <1>3 DEF Mirrored!Next, Mirrored!MirrorOpen
      <3>3. CASE ledger[b].status = "PENDING"
        <4>1. bill[b].status \in Final /\ ledger'[b].status = LedgerStatus(bill[b].status)
          BY <3>1, <3>3, <1>3 DEF TaskOK
        <4>2. /\ View(bill[b].status) \in Mirrored!Outcomes
              /\ View(ledger'[b].status) = View(bill[b].status)
          BY <4>1 DEF View, LedgerStatus, Final, Mirrored!Outcomes
        <4>3. View(ledger[b].status) = "open"
          BY <3>3 DEF View
        <4> QED BY <2>2, <4>2, <4>3, <1>3 DEF Mirrored!Next, Mirrored!MirrorClose
      <3> QED BY <3>1, <3>2, <3>3
    <2> QED BY <2>3, <2>4
  <1> QED BY <1>4, <1>5

LEMMA MapStep == BillInv /\ [Next]_vars => [Mirrored!Next]_(Mirrored!vars)
  <1> SUFFICES ASSUME BillInv, [Next]_vars PROVE [Mirrored!Next]_(Mirrored!vars)
    OBVIOUS
  <1>1. CASE UNCHANGED <<bill, ledger>>
    BY <1>1 DEF Mirrored!vars
  <1>2. CASE \E b \in Refs : InsertOrderPending(b) \/ InsertUnacknowledged(b)
    <2>1. PICK b \in Refs : InsertOrderPending(b) \/ InsertUnacknowledged(b)
      BY <1>2
    <2>2. /\ UNCHANGED ledger
          /\ bill[b].status = "absent"
          /\ bill' = [bill EXCEPT ![b].status = "PENDING"]
      BY <2>1 DEF BillInv, StageOK, InsertOrderPending, InsertUnacknowledged, Goto
    <2>3. /\ bill'[b].status = "PENDING"
          /\ \A q \in Refs \ {b} : bill'[q] = bill[q]
      BY <2>2 DEF BillInv, BillTypeOK
    <2> QED BY <2>2, <2>3, MapBillStep DEF View
  <1>3. CASE \E b \in Refs :
                \/ RecordSendFailure(b) \/ RecordSubmitted(b)
                \/ RecordCompleted(b) \/ RecordVendorFailure(b)
                \/ UpdateFails(b) /\ ~UNCHANGED bill
    <2>1. PICK b \in Refs :
                \/ RecordSendFailure(b) \/ RecordSubmitted(b)
                \/ RecordCompleted(b) \/ RecordVendorFailure(b)
                \/ UpdateFails(b) /\ ~UNCHANGED bill
      BY <1>3
    <2>2. /\ UNCHANGED ledger
          /\ bill[b].status \in {"PENDING", "ONCHAIN_SUBMITTED"}
          /\ \E s \in {"ONCHAIN_SUBMITTED", "COMPLETED", "FAILED"}, g \in MaybeSig :
                bill' = [bill EXCEPT ![b] = Updated(bill[b], s, g)]
      BY <2>1 DEF BillInv, BillTypeOK, StageOK, RecordSendFailure, RecordSubmitted,
         RecordCompleted, RecordVendorFailure, UpdateFails, UpdateOrderStatus,
         StatusToWrite, Goto, MaybeSig
    <2>3. /\ bill'[b].status \in {"ONCHAIN_SUBMITTED", "COMPLETED", "FAILED"}
          /\ \A q \in Refs \ {b} : bill'[q] = bill[q]
      BY <2>2 DEF BillInv, BillTypeOK, Updated
    <2>4. \/ View(bill'[b].status) = View(bill[b].status)
          \/ View(bill[b].status) = "open"
                /\ View(bill'[b].status) \in Mirrored!Outcomes
      BY <2>2, <2>3 DEF View, Mirrored!Outcomes
    <2> QED BY <2>2, <2>3, <2>4, MapBillStep
  <1>4. CASE LedgerNext /\ UNCHANGED billVars
    BY <1>4, MapLedgerStep DEF billVars
  <1> QED
    BY <1>1, <1>2, <1>3, <1>4 DEF vars, Next, Handler, Refuse, Transact,
       InsertFails, CannotSign, Send, SendFails, Process, ProcessFails,
       UpdateFails, Crash, TasksDie, ledgerVars

(* Bills and their ledger rows refine the strict mirrored lifecycle: the   *)
(* ledger row closes with the bill's own outcome.                          *)
THEOREM BillRefinesMirror == Spec => ImplementsMirror
  <1>1. BillInv /\ [Next]_vars => [Mirrored!Next]_(Mirrored!vars)
    BY MapStep
  <1> QED BY <1>1, MapInit, BillInvariant, PTL
          DEF Spec, ImplementsMirror, Mirrored!Spec
==============================================================================
