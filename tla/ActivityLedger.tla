---------------------------- MODULE ActivityLedger ----------------------------
(***************************************************************************)
(* The activity ledger: the rows of user_activity that carry a ref_id, and *)
(* the background tasks (tokio::spawn) that write them.                    *)
(*                                                                         *)
(* An order table (PAJ orders, utility bills) never writes the ledger in   *)
(* its own transaction: it spawns a "log" task, which upserts the row, or  *)
(* a "patch" task, which only updates a row that is already there.  Tasks  *)
(* run in any order, after the handler that spawned them has gone on.      *)
(*                                                                         *)
(* A ref stands for one (ref_id, event_type) pair, the key of the unique   *)
(* index that migration 007 creates.  Amounts, rates and metadata are not  *)
(* modelled: no property tells them apart.                                 *)
(***************************************************************************)
EXTENDS Naturals

CONSTANTS
    Refs,       \* the ref_ids of one order table
    Causes,     \* what a task was spawned for: it tells equal tasks apart
    Sigs,       \* chain signatures
    NoSig,      \* SQL NULL in tx_signature
    MaxFaults   \* bound on infrastructure faults (Postgres errors, crashes)

ASSUME LedgerAssumption == NoSig \notin Sigs /\ MaxFaults \in Nat

VARIABLES
    ledger,     \* the row of each ref
    tasks,      \* tasks spawned and not yet finished
    lost,       \* ghost: refs one of whose writes was dropped or never spawned
    faults      \* ghost: faults so far, at most MaxFaults

ledgerVars == <<ledger, tasks, lost, faults>>

Terminal == {"CONFIRMED", "FAILED"}
RowStatus == {"PENDING"} \cup Terminal
MaybeSig == Sigs \cup {NoSig}
Task == [kind: {"log", "patch"}, ref: Refs, by: Causes,
         status: RowStatus, sig: MaybeSig, retried: BOOLEAN]

LedgerTypeOK ==
    /\ ledger \in [Refs -> [status: RowStatus \cup {"absent"}, sig: MaybeSig]]
    /\ tasks \subseteq Task
    /\ lost \subseteq Refs
    /\ faults \in 0..MaxFaults

LedgerInit ==
    /\ ledger = [r \in Refs |-> [status |-> "absent", sig |-> NoSig]]
    /\ tasks = {}
    /\ lost = {}
    /\ faults = 0

-----------------------------------------------------------------------------
(* Mutants of the definitions below. *)

LastWriteWins(old, new) == new
DropNewSig(row, t) == [status |-> IF row.status \in Terminal THEN row.status
                                                             ELSE t.status,
                       sig |-> row.sig]
-----------------------------------------------------------------------------

(* CASE WHEN status IN ('CONFIRMED','FAILED') THEN status ELSE new END *)
Sticky(old, new) == IF old \in Terminal THEN old ELSE new

(* SQL COALESCE of two signatures. *)
Coalesce(a, b) == IF a # NoSig THEN a ELSE b

(* The row after INSERT ... ON CONFLICT DO UPDATE: an absent row takes the *)
(* task's values, and the signature already stored wins.                   *)
Upserted(row, t) == [status |-> Sticky(row.status, t.status),
                     sig    |-> Coalesce(row.sig, t.sig)]

(* The row after the UPDATE of a patch: the new signature wins. *)
Patched(row, t) == [status |-> Sticky(row.status, t.status),
                    sig    |-> Coalesce(t.sig, row.sig)]

LogTask(r, c, s) == [kind |-> "log", ref |-> r, by |-> c, status |-> s,
                     sig |-> NoSig, retried |-> FALSE]
PatchTask(r, c, s, g) == [kind |-> "patch", ref |-> r, by |-> c, status |-> s,
                          sig |-> g, retried |-> FALSE]

Fault == faults < MaxFaults /\ faults' = faults + 1

-----------------------------------------------------------------------------
(* insert_ledger_row: the upsert succeeds. *)
RunLog(t) ==
    /\ t.kind = "log"
    /\ ledger' = [ledger EXCEPT ![t.ref] = Upserted(@, t)]
    /\ tasks' = tasks \ {t}
    /\ UNCHANGED <<lost, faults>>

(* patch_ledger_by_ref: the UPDATE (the first one or the retry) finds the row. *)
RunPatch(t) ==
    /\ t.kind = "patch"
    /\ ledger[t.ref].status # "absent"
    /\ ledger' = [ledger EXCEPT ![t.ref] = Patched(@, t)]
    /\ tasks' = tasks \ {t}
    /\ UNCHANGED <<lost, faults>>

(* The first UPDATE changes no row: the task sleeps 250 ms and retries once. *)
MissFirst(t) ==
    /\ t.kind = "patch"
    /\ ~t.retried
    /\ ledger[t.ref].status = "absent"
    /\ tasks' = (tasks \ {t}) \cup {[t EXCEPT !.retried = TRUE]}
    /\ UNCHANGED <<ledger, lost, faults>>

(* The retry changes no row either; its result is not looked at. *)
MissLast(t) ==
    /\ t.kind = "patch"
    /\ t.retried
    /\ ledger[t.ref].status = "absent"
    /\ tasks' = tasks \ {t}
    /\ lost' = lost \cup {t.ref}
    /\ UNCHANGED <<ledger, faults>>

(* No connection, or the statement fails: the task logs a warning and ends. *)
DropTask(t) ==
    /\ Fault
    /\ tasks' = tasks \ {t}
    /\ lost' = lost \cup {t.ref}
    /\ UNCHANGED ledger

TaskStep(t) == RunLog(t) \/ RunPatch(t) \/ MissFirst(t) \/ MissLast(t)
LedgerNext == \E t \in tasks : TaskStep(t) \/ DropTask(t)

(* The process dies: every spawned task dies with it. *)
TasksDie(inFlight) ==
    /\ tasks' = {}
    /\ lost' = lost \cup {t.ref : t \in tasks} \cup inFlight
    /\ UNCHANGED ledger
=============================================================================
