-------------------------------- MODULE DbPool --------------------------------
(***************************************************************************)
(* The Postgres connection pool under concurrent handlers and ledger       *)
(* tasks.  create_pool gives the pool a size and no wait timeout, so       *)
(* pool.get() waits until a client comes back; it never gives up.          *)
(*                                                                         *)
(* Each handler runs a program: the number of clients it holds after each  *)
(* get and each return (HandlerPrograms lists the programs of the code).   *)
(* It may return early at any point but while it waits for a client.       *)
(* Between two steps it calls Postgres, Redis or another service.  Not     *)
(* every such call has a timeout (SolanaRpc and the pool itself have       *)
(* none), so a call may never return, and keeps its actor's clients.       *)
(***************************************************************************)
EXTENDS Naturals, Sequences, FiniteSets

CONSTANTS
    Conns,      \* the clients of the pool: DATABASE_POOL_MAX_SIZE of them
    Handlers,   \* slots for concurrent requests
    Tasks,      \* slots for concurrent ledger tasks
    Programs,   \* what a handler may run
    Depth,      \* the most clients a program holds
    MaxHung,    \* bound on the calls that never return
    Free        \* not a handler or task

Actors == Handlers \cup Tasks

(* Clients are taken and returned one at a time, the last taken first, and *)
(* all are returned in the end.                                            *)
IsProgram(p, d) ==
    /\ p \in Seq(0..d)
    /\ Len(p) > 0
    /\ p[1] = 1
    /\ p[Len(p)] = 0
    /\ \A i \in 1..(Len(p) - 1) : p[i + 1] = p[i] + 1 \/ p[i] = p[i + 1] + 1

ASSUME PoolAssumption ==
    /\ IsFiniteSet(Conns) /\ IsFiniteSet(Handlers)
    /\ Free \notin Actors
    /\ Handlers \cap Tasks = {}
    /\ Depth \in Nat \ {0}
    /\ MaxHung \in Nat
    /\ \A p \in Programs : IsProgram(p, Depth)

VARIABLES
    mode,       \* [Actors -> what the actor is doing]
    prog,       \* its program
    at,         \* the last step of its program that is done
    held,       \* how many clients it holds
    owner,      \* [Conns -> who has the client]
    rank        \* [Conns -> how many its owner had when it got this one]

vars == <<mode, prog, at, held, owner, rank>>

PoolTypeOK ==
    /\ mode \in [Actors -> {"idle", "working", "waiting", "leaving", "hung"}]
    /\ prog \in [Actors -> Programs \cup {<<1, 0>>}]
    /\ at \in [Actors -> Nat]
    /\ held \in [Actors -> 0..Depth]
    /\ owner \in [Conns -> Actors \cup {Free}]
    /\ rank \in [Conns -> 0..Depth]

Init ==
    /\ mode = [a \in Actors |-> "idle"]
    /\ prog = [a \in Actors |-> <<1, 0>>]
    /\ at = [a \in Actors |-> 0]
    /\ held = [a \in Actors |-> 0]
    /\ owner = [c \in Conns |-> Free]
    /\ rank = [c \in Conns |-> 0]

NextHeld(a) == prog[a][at[a] + 1]
FreeConns == {c \in Conns : owner[c] = Free}
Hung == {a \in Actors : mode[a] = "hung"}

-----------------------------------------------------------------------------
(* Mutants of the definitions below. *)

GetYields(a) ==
    /\ mode[a] = "waiting"
    /\ FreeConns # {}
    /\ a \in Tasks => \A h \in Handlers : mode[h] = "idle"
    /\ LET c == CHOOSE c \in FreeConns : TRUE IN
       /\ owner' = [owner EXCEPT ![c] = a]
       /\ rank' = [rank EXCEPT ![c] = held[a] + 1]
    /\ mode' = [mode EXCEPT ![a] = "working"]
    /\ at' = [at EXCEPT ![a] = @ + 1]
    /\ held' = [held EXCEPT ![a] = @ + 1]
    /\ UNCHANGED prog
TasksNest(a) == IF a \in Handlers THEN Programs ELSE {<<1, 2, 1, 0>>}
TakeMiscounts(a) ==
    LET c == CHOOSE c \in FreeConns : TRUE IN
    /\ owner' = [owner EXCEPT ![c] = a]
    /\ rank' = [rank EXCEPT ![c] = held[a] + Depth]
-----------------------------------------------------------------------------

(* A ledger task only gets a client, for its one statement. *)
MayRun(a) == IF a \in Handlers THEN Programs ELSE {<<1, 0>>}

(* The pool hands out a free client; which one makes no difference. *)
Take(a) ==
    LET c == CHOOSE c \in FreeConns : TRUE IN
    /\ owner' = [owner EXCEPT ![c] = a]
    /\ rank' = [rank EXCEPT ![c] = held[a] + 1]

(* The client the actor took last goes back to the pool. *)
Release(a) ==
    LET top(c) == owner[c] = a /\ rank[c] = held[a] IN
    /\ owner' = [c \in Conns |-> IF top(c) THEN Free ELSE owner[c]]
    /\ rank' = [c \in Conns |-> IF top(c) THEN 0 ELSE rank[c]]

-----------------------------------------------------------------------------
(* A request arrives, or a handler spawns a ledger task. *)
Start(a, p) ==
    /\ mode[a] = "idle"
    /\ mode' = [mode EXCEPT ![a] = "working"]
    /\ prog' = [prog EXCEPT ![a] = p]
    /\ UNCHANGED <<at, held, owner, rank>>

(* pool.get().await: from here on the actor can only wait. *)
Ask(a) ==
    /\ mode[a] = "working"
    /\ NextHeld(a) > held[a]
    /\ mode' = [mode EXCEPT ![a] = "waiting"]
    /\ UNCHANGED <<prog, at, held, owner, rank>>

Get(a) ==
    /\ mode[a] = "waiting"
    /\ FreeConns # {}
    /\ Take(a)
    /\ mode' = [mode EXCEPT ![a] = "working"]
    /\ at' = [at EXCEPT ![a] = @ + 1]
    /\ held' = [held EXCEPT ![a] = @ + 1]
    /\ UNCHANGED prog

(* A client goes out of scope; the last one ends the program. *)
GiveBack(a) ==
    /\ mode[a] = "working"
    /\ NextHeld(a) < held[a]
    /\ Release(a)
    /\ held' = [held EXCEPT ![a] = @ - 1]
    /\ IF at[a] + 1 = Len(prog[a])
       THEN mode' = [mode EXCEPT ![a] = "idle"] /\ at' = [at EXCEPT ![a] = 0]
       ELSE at' = [at EXCEPT ![a] = @ + 1] /\ UNCHANGED mode
    /\ UNCHANGED prog

(* An error or an early answer: every client is returned on the way out. *)
Leave(a) ==
    /\ mode[a] = "working"
    /\ mode' = [mode EXCEPT ![a] = IF held[a] = 0 THEN "idle" ELSE "leaving"]
    /\ at' = [at EXCEPT ![a] = 0]
    /\ UNCHANGED <<prog, held, owner, rank>>

Unwind(a) ==
    /\ mode[a] = "leaving"
    /\ Release(a)
    /\ held' = [held EXCEPT ![a] = @ - 1]
    /\ mode' = [mode EXCEPT ![a] = IF held[a] = 1 THEN "idle" ELSE "leaving"]
    /\ UNCHANGED <<prog, at>>

(* A call that the actor makes while it holds a client never returns. *)
Hang(a) ==
    /\ mode[a] = "working" /\ held[a] > 0
    /\ Cardinality(Hung) < MaxHung
    /\ mode' = [mode EXCEPT ![a] = "hung"]
    /\ UNCHANGED <<prog, at, held, owner, rank>>

Work(a) == Ask(a) \/ GiveBack(a) \/ Unwind(a)

Next == \E a \in Actors :
    \/ \E p \in MayRun(a) : Start(a, p)
    \/ Work(a) \/ Get(a) \/ Leave(a) \/ Hang(a)

Spec == Init /\ [][Next]_vars

(* The runtime polls every task that is not waiting for a call that hangs, *)
(* and the pool's semaphore serves waiters first come, first served: no    *)
(* waiter is passed over for ever.                                         *)
FairSpec ==
    /\ Spec
    /\ \A a \in Actors : WF_vars(Work(a)) /\ SF_vars(Get(a))

-----------------------------------------------------------------------------
(* Properties. *)

(* Someone waits for a client, none is free, and nobody can give one back. *)
Stuck ==
    /\ \E a \in Actors : mode[a] = "waiting"
    /\ \A a \in Actors : mode[a] \in {"idle", "waiting", "hung"}
    /\ FreeConns = {}

(* The handlers and tasks never wait for one another's clients for ever.   *)
(* It holds when the handlers, each short of its last client, and one more *)
(* client for every call that hangs cannot use up the pool; ledger tasks   *)
(* do not matter, however many there are.                                  *)
NeverStuck == ~Stuck

(* Every request is answered and every ledger task ends, unless its own    *)
(* call never returns: nobody waits for a client for ever, also when a     *)
(* call of somebody else hangs.  The handlers say as much: each has an     *)
(* answer ready for a pool that has no client.                             *)
EveryoneAnswered ==
    \A a \in Actors : mode[a] # "idle" ~> mode[a] \in {"idle", "hung"}
=============================================================================
