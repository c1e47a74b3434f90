------------------------------ MODULE Migrations ------------------------------
(***************************************************************************)
(* Startup migrations: every process that starts goes through the files in *)
(* order, skips those that schema_migrations names, runs the others and    *)
(* records them, and serves requests only after the last one.  Nothing     *)
(* keeps two processes from migrating at the same time, and a process may  *)
(* stop between running a file and recording it.                           *)
(*                                                                         *)
(* A file is sent as one batch, which Postgres commits or rolls back as a  *)
(* whole.  File 1 creates the users table; every file needs the one before.*)
(***************************************************************************)
EXTENDS Naturals

CONSTANTS
    Procs,      \* the processes that may start
    N,          \* the number of files
    Strict,     \* files without IF NOT EXISTS: they fail when run again
    SaysWhy,    \* whether the error's text has Postgres's own message in it
    MaxFaults   \* bound on failed statements and crashes

Files == 1..N

ASSUME MigrationAssumption ==
    /\ N \in Nat \ {0}
    /\ Strict \subseteq Files
    /\ SaysWhy \in BOOLEAN
    /\ MaxFaults \in Nat
    /\ Procs \cap {"nobody", "earlier"} = {}

VARIABLES
    schema,     \* the files whose objects exist
    by,         \* schema_migrations: who recorded each file, or "nobody"
    tableBy,    \* who created schema_migrations, or "nobody"
    pc,         \* where each process is
    cur,        \* the file it is at
    faults      \* ghost: faults so far

migrationVars == <<schema, by, tableBy, pc, cur, faults>>

Who == Procs \cup {"nobody", "earlier"}

MigrationTypeOK ==
    /\ schema \subseteq Files
    /\ by \in [Files -> Who]
    /\ tableBy \in Who
    /\ pc \in [Procs -> {"down", "create", "check", "users", "mark", "run",
                         "record", "serving"}]
    /\ cur \in [Procs -> 1..(N + 1)]
    /\ faults \in 0..MaxFaults

(* An empty database, one migrated by hand before there was a runner, or   *)
(* one migrated by an earlier release that had fewer files.                *)
MigrationInit ==
    /\ \E k \in 0..N :
          /\ schema = 1..k
          /\ \/ tableBy = "nobody" /\ by = [f \in Files |-> "nobody"]
             \/ /\ k > 0
                /\ tableBy = "earlier"
                /\ by = [f \in Files |-> IF f <= k THEN "earlier" ELSE "nobody"]
    /\ pc = [p \in Procs |-> "down"]
    /\ cur = [p \in Procs |-> 1]
    /\ faults = 0

Goto(p, from, to) == pc[p] = from /\ pc' = [pc EXCEPT ![p] = to]
NextFile(p) == cur' = [cur EXCEPT ![p] = @ + 1]
Running(p) == pc[p] \notin {"down", "serving"}

-----------------------------------------------------------------------------
(* Mutants of the definitions below. *)

SwallowError(p) ==
    /\ faults < MaxFaults
    /\ faults' = faults + 1
    /\ pc[p] = "run"
    /\ pc' = [pc EXCEPT ![p] = "record"]
    /\ UNCHANGED <<schema, by, tableBy, cur>>
NothingTolerated(p) ==
    /\ pc[p] = "run"
    /\ cur[p] \in schema \cap Strict
    /\ pc' = [pc EXCEPT ![p] = "down"]
    /\ UNCHANGED <<schema, by, tableBy, cur, faults>>
-----------------------------------------------------------------------------

(* CREATE TABLE IF NOT EXISTS schema_migrations. *)
Begin(p) ==
    /\ Goto(p, "down", IF tableBy = "nobody" THEN "create" ELSE "check")
    /\ cur' = [cur EXCEPT ![p] = 1]
    /\ UNCHANGED <<schema, by, tableBy, faults>>

CreateTable(p) ==
    /\ Goto(p, "create", "check")
    /\ tableBy' = IF tableBy = "nobody" THEN p ELSE tableBy
    /\ UNCHANGED <<schema, by, cur, faults>>

(* Another process creates it at the same moment: IF NOT EXISTS does not   *)
(* help, the statement fails and the process panics.                       *)
CreateRaces(p) ==
    /\ tableBy # "nobody"
    /\ Goto(p, "create", "down")
    /\ UNCHANGED <<schema, by, tableBy, cur, faults>>

(* SELECT filename FROM schema_migrations *)
AlreadyApplied(p) == by[cur[p]] # "nobody"

Skip(p) ==
    /\ cur[p] \in Files
    /\ AlreadyApplied(p)
    /\ Goto(p, "check", "check")
    /\ NextFile(p)
    /\ UNCHANGED <<schema, by, tableBy, faults>>

Check(p) ==
    /\ cur[p] \in Files
    /\ ~AlreadyApplied(p)
    /\ Goto(p, "check", IF cur[p] = 1 THEN "users" ELSE "run")
    /\ UNCHANGED <<schema, by, tableBy, cur, faults>>

(* Every file is done: run() goes on and binds the port. *)
Serve(p) ==
    /\ cur[p] \notin Files
    /\ Goto(p, "check", "serving")
    /\ UNCHANGED <<schema, by, tableBy, cur, faults>>

(* to_regclass('public.users') *)
LookForUsers(p) ==
    /\ Goto(p, "users", IF 1 \in schema THEN "mark" ELSE "run")
    /\ UNCHANGED <<schema, by, tableBy, cur, faults>>

(* The INSERT into schema_migrations, when no row of the file is there. *)
Insert(f, p) == by' = [by EXCEPT ![f] = p]

(* INSERT ... ON CONFLICT DO NOTHING *)
Mark(p) ==
    /\ Goto(p, "mark", "check")
    /\ IF AlreadyApplied(p) THEN UNCHANGED by ELSE Insert(cur[p], p)
    /\ NextFile(p)
    /\ UNCHANGED <<schema, tableBy, faults>>

(* The batch commits. *)
Run(p) ==
    /\ cur[p] - 1 \in schema \cup {0}
    /\ cur[p] \notin schema \cap Strict
    /\ Goto(p, "run", "record")
    /\ schema' = schema \cup {cur[p]}
    /\ UNCHANGED <<by, tableBy, cur, faults>>

(* "already exists" or "duplicate key value": rolled back and tolerated,   *)
(* as long as the error's text says so.                                    *)
RunAgain(p) ==
    /\ cur[p] \in schema \cap Strict
    /\ Goto(p, "run", IF SaysWhy THEN "record" ELSE "down")
    /\ UNCHANGED <<schema, by, tableBy, cur, faults>>

Record(p) ==
    /\ Goto(p, "record", "check")
    /\ ~AlreadyApplied(p)
    /\ Insert(cur[p], p)
    /\ NextFile(p)
    /\ UNCHANGED <<schema, tableBy, faults>>

(* This INSERT has no ON CONFLICT: a row that came in since the check is a *)
(* duplicate key, and the process panics.                                  *)
RecordRaces(p) ==
    /\ Goto(p, "record", "down")
    /\ AlreadyApplied(p)
    /\ UNCHANGED <<schema, by, tableBy, cur, faults>>

-----------------------------------------------------------------------------
(* A statement fails or the process dies: nothing more of it is done. *)
Abort(p) ==
    /\ faults < MaxFaults
    /\ faults' = faults + 1
    /\ Running(p)
    /\ pc' = [pc EXCEPT ![p] = "down"]
    /\ UNCHANGED <<schema, by, tableBy, cur>>

(* The same, after Postgres committed the statement under way. *)
AbortUnacknowledged(p) ==
    /\ faults < MaxFaults
    /\ faults' = faults + 1
    /\ pc' = [pc EXCEPT ![p] = "down"]
    /\ \/ /\ pc[p] = "run"
          /\ cur[p] - 1 \in schema \cup {0}
          /\ schema' = schema \cup {cur[p]}
          /\ UNCHANGED <<by, tableBy>>
       \/ /\ pc[p] \in {"mark", "record"}
          /\ ~AlreadyApplied(p)
          /\ Insert(cur[p], p)
          /\ UNCHANGED <<schema, tableBy>>
       \/ /\ pc[p] = "create" /\ tableBy = "nobody"
          /\ tableBy' = p
          /\ UNCHANGED <<schema, by>>
    /\ UNCHANGED cur

(* A serving process is stopped, for a restart or a deployment. *)
Stop(p) ==
    /\ Goto(p, "serving", "down")
    /\ UNCHANGED <<schema, by, tableBy, cur, faults>>

Step(p) ==
    \/ Begin(p) \/ CreateTable(p) \/ CreateRaces(p) \/ Skip(p) \/ Check(p)
    \/ Serve(p) \/ LookForUsers(p) \/ Mark(p) \/ Run(p) \/ RunAgain(p)
    \/ Record(p) \/ RecordRaces(p)

MigrationNext == \E p \in Procs :
    Step(p) \/ Abort(p) \/ AbortUnacknowledged(p) \/ Stop(p)

MigrationSpec == MigrationInit /\ [][MigrationNext]_migrationVars

-----------------------------------------------------------------------------
(* Properties. *)

(* No process serves requests on a database that lacks a migration,        *)
(* whatever crashes, races and tolerated errors came before.               *)
ServingMeansMigrated ==
    \A p \in Procs : pc[p] = "serving" => schema = Files

(* A start fails only because of a fault or of another process that did    *)
(* the same thing since this one looked: it never trips over what itself   *)
(* or an earlier release left half done.  Idempotent, in the README's      *)
(* words, for databases that exist already.                                *)
LoneStartSucceeds == [][
    \A p \in Procs :
        Running(p) /\ pc'[p] = "down" =>
            \/ faults' > faults
            \/ pc[p] = "create" /\ tableBy \in Procs \ {p}
            \/ pc[p] = "record" /\ by[cur[p]] \in Procs \ {p}]_migrationVars
=============================================================================
