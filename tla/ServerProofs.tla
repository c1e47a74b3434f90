----------------------------- MODULE ServerProofs -----------------------------
(***************************************************************************)
(* Proofs about what every request of the server stands on.                *)
(*                                                                         *)
(* The connection pool, for any number of clients, handlers and ledger     *)
(* tasks and any set of programs:                                          *)
(*   - PoolTyped: the type invariant;                                      *)
(*   - DeadlockFree: if Cardinality(Handlers) * (Depth - 1) + MaxHung is   *)
(*     less than the number of clients, nobody is ever stuck.              *)
(*                                                                         *)
(* The startup migrations, for any number of processes, files and faults:  *)
(*   - MigrationTyped: the type invariant;                                 *)
(*   - ServersAreMigrated: no process serves on a database that lacks a    *)
(*     migration;                                                          *)
(*   - LoneStarts: a start fails only because of a fault or of another     *)
(*     process that did the same thing.                                    *)
(***************************************************************************)
EXTENDS DbPool, Migrations, FiniteSetTheorems, SequenceTheorems, TLAPS

(* Where an actor is in its program. *)
AtOK(a) ==
    /\ prog[a] \in MayRun(a) \cup {<<1, 0>>}
    /\ mode[a] = "idle" => at[a] = 0 /\ held[a] = 0
    /\ mode[a] \in {"working", "waiting", "hung"} =>
          /\ at[a] < Len(prog[a])
          /\ held[a] = IF at[a] = 0 THEN 0 ELSE prog[a][at[a]]
    /\ mode[a] = "waiting" => NextHeld(a) = held[a] + 1
    /\ mode[a] = "leaving" => at[a] = 0 /\ held[a] > 0

(* An actor's clients have ranks from 1 to the number it holds. *)
RankOK(c) == owner[c] # Free => rank[c] \in 1..held[owner[c]]

(* No two clients of one actor have the same rank. *)
Distinct(c, d) ==
    owner[c] # Free /\ owner[c] = owner[d] /\ rank[c] = rank[d] => c = d

PoolInv ==
    /\ PoolTypeOK
    /\ \A a \in Actors : AtOK(a)
    /\ \A c \in Conns : RankOK(c)
    /\ \A c, d \in Conns : Distinct(c, d)

(* No more calls hang than the bound allows. *)
FewHung == IsFiniteSet(Hung) /\ Cardinality(Hung) <= MaxHung

-----------------------------------------------------------------------------
(* What a program's steps look like. *)
LEMMA ProgramSteps ==
    ASSUME NEW a \in Actors, NEW p \in MayRun(a) \cup {<<1, 0>>}
    PROVE  /\ p \in Seq(0..Depth)
           /\ Len(p) \in Nat \ {0}
           /\ p[1] = 1
           /\ p[Len(p)] = 0
           /\ \A i \in 1..Len(p) : p[i] \in 0..Depth
           /\ \A i \in 1..(Len(p) - 1) :
                 p[i + 1] = p[i] + 1 \/ p[i] = p[i + 1] + 1
  <1>1. CASE p \in Programs
    <2>1. IsProgram(p, Depth)
      BY <1>1, PoolAssumption
    <2>2. p \in Seq(0..Depth) /\ Len(p) > 0 /\ p[1] = 1 /\ p[Len(p)] = 0
      BY <2>1 DEF IsProgram
    <2>3. \A i \in 1..(Len(p) - 1) : p[i + 1] = p[i] + 1 \/ p[i] = p[i + 1] + 1
      BY <2>1 DEF IsProgram
    <2>4. p \in Seq(0..Depth)
      BY <2>2
    <2>5. Len(p) \in Nat
      BY <2>4, LenProperties, Zenon
    <2>6. \A i \in 1..Len(p) : p[i] \in 0..Depth
      BY <2>4, ElementOfSeq, Zenon
    <2> QED BY <2>2, <2>3, <2>5, <2>6
  <1>2. CASE p = <<1, 0>>
    <2>1. Depth \in Nat \ {0}
      BY PoolAssumption
    <2>2. p \in Seq(0..Depth) /\ Len(p) = 2 /\ p[1] = 1 /\ p[2] = 0
      BY <1>2, <2>1
    <2> QED BY <2>1, <2>2
  <1> QED BY <1>1, <1>2 DEF MayRun

LEMMA PoolInitial == Init => PoolInv
  <1> SUFFICES ASSUME Init PROVE PoolInv
    OBVIOUS
  <1> USE DEF Init
  <1>1. PoolTypeOK
    BY PoolAssumption DEF PoolTypeOK
  <1>2. \A a \in Actors : AtOK(a)
    BY DEF AtOK
  <1>3. (\A c \in Conns : RankOK(c)) /\ (\A c, d \in Conns : Distinct(c, d))
    BY DEF RankOK, Distinct
  <1> QED BY <1>1, <1>2, <1>3 DEF PoolInv

(* Steps that move one actor and touch no client. *)
LEMMA ClientsUntouched ==
    ASSUME PoolInv, NEW a \in Actors,
           UNCHANGED <<held, owner, rank>>,
           mode' \in [Actors -> {"idle", "working", "waiting", "leaving", "hung"}],
           prog' \in [Actors -> Programs \cup {<<1, 0>>}],
           at' \in [Actors -> Nat],
           AtOK(a)',
           \A b \in Actors \ {a} : /\ mode'[b] = mode[b]
                                   /\ prog'[b] = prog[b]
                                   /\ at'[b] = at[b]
    PROVE  PoolInv'
  <1>1. PoolTypeOK'
    BY DEF PoolInv, PoolTypeOK
  <1>2. \A b \in Actors : AtOK(b)'
    BY DEF PoolInv, AtOK, NextHeld
  <1>3. (\A c \in Conns : RankOK(c)') /\ (\A c, d \in Conns : Distinct(c, d)')
    BY DEF PoolInv, RankOK, Distinct
  <1> QED BY <1>1, <1>2, <1>3 DEF PoolInv

LEMMA StartKeeps ==
    ASSUME PoolInv, NEW a \in Actors, NEW p \in MayRun(a), Start(a, p)
    PROVE  PoolInv'
  <1> USE DEF PoolInv, PoolTypeOK, Start
  <1>1. p \in Programs \cup {<<1, 0>>}
    BY DEF MayRun
  <1>2. Len(p) \in Nat \ {0}
    BY ProgramSteps
  <1>3. AtOK(a)'
    BY <1>1, <1>2 DEF AtOK
  <1> QED BY <1>1, <1>3, ClientsUntouched

LEMMA AskKeeps ==
    ASSUME PoolInv, NEW a \in Actors, Ask(a)
    PROVE  PoolInv'
  <1> USE DEF PoolInv, PoolTypeOK, Ask
  <1>1. AtOK(a) /\ held[a] \in Nat /\ at[a] \in Nat
    BY PoolAssumption
  <1> DEFINE p == prog[a]
  <1>2. p \in MayRun(a) \cup {<<1, 0>>} /\ at[a] < Len(p)
        /\ held[a] = IF at[a] = 0 THEN 0 ELSE p[at[a]]
    BY <1>1 DEF AtOK
  <1>3. NextHeld(a) = held[a] + 1
    <2>1. CASE at[a] = 0
      BY <2>1, <1>2, ProgramSteps DEF NextHeld
    <2>2. CASE at[a] # 0
      <3>1. at[a] \in 1..(Len(p) - 1) /\ Len(p) \in Nat
        BY <2>2, <1>1, <1>2, ProgramSteps
      <3>2. p[at[a] + 1] = p[at[a]] + 1 \/ p[at[a]] = p[at[a] + 1] + 1
        BY <3>1, <1>2, ProgramSteps
      <3>3. p[at[a]] \in Nat /\ p[at[a] + 1] \in Nat
        BY <3>1, <1>2, ProgramSteps, PoolAssumption
      <3> QED BY <2>2, <3>2, <3>3, <1>2 DEF NextHeld
    <2> QED BY <2>1, <2>2
  <1>4. AtOK(a)'
    BY <1>1, <1>3 DEF AtOK, NextHeld
  <1> QED BY <1>4, ClientsUntouched

LEMMA LeaveKeeps ==
    ASSUME PoolInv, NEW a \in Actors, Leave(a)
    PROVE  PoolInv'
  <1> USE DEF PoolInv, PoolTypeOK, Leave
  <1>1. AtOK(a) /\ held[a] \in Nat
    BY PoolAssumption
  <1>2. AtOK(a)'
    BY <1>1 DEF AtOK
  <1> QED BY <1>2, ClientsUntouched

LEMMA GetKeeps ==
    ASSUME PoolInv, NEW a \in Actors, Get(a)
    PROVE  PoolInv'
  <1> USE DEF PoolInv, PoolTypeOK
  <1> DEFINE p == prog[a]
             new == CHOOSE c \in FreeConns : TRUE
  <1>1. /\ mode[a] = "waiting" /\ AtOK(a) /\ a # Free
        /\ held[a] \in Nat /\ at[a] \in Nat /\ Depth \in Nat
    BY PoolAssumption DEF Get
  <1>2. new \in Conns /\ owner[new] = Free
    BY DEF Get, FreeConns
  <1>3. /\ owner' = [owner EXCEPT ![new] = a]
        /\ rank' = [rank EXCEPT ![new] = held[a] + 1]
        /\ mode' = [mode EXCEPT ![a] = "working"]
        /\ at' = [at EXCEPT ![a] = at[a] + 1]
        /\ held' = [held EXCEPT ![a] = held[a] + 1]
        /\ prog' = prog
    BY DEF Get, Take
  <1>4. /\ p \in MayRun(a) \cup {<<1, 0>>}
        /\ at[a] < Len(p)
        /\ p[at[a] + 1] = held[a] + 1
    BY <1>1 DEF AtOK, NextHeld
  <1>5. Len(p) \in Nat /\ p[Len(p)] = 0 /\ \A i \in 1..Len(p) : p[i] \in 0..Depth
    BY <1>4, ProgramSteps
  <1>6. at[a] + 1 < Len(p) /\ held[a] + 1 \in 0..Depth
    BY <1>1, <1>4, <1>5
  <1>7. PoolTypeOK'
    BY <1>1, <1>2, <1>3, <1>6
  <1>8. \A b \in Actors : AtOK(b)'
    <2>1. AtOK(a)'
      BY <1>1, <1>3, <1>4, <1>6 DEF AtOK
    <2>2. \A b \in Actors \ {a} : AtOK(b)'
      BY <1>3 DEF AtOK, NextHeld
    <2> QED BY <2>1, <2>2
  <1>9. \A c \in Conns : RankOK(c)'
    BY <1>1, <1>2, <1>3, <1>6 DEF RankOK
  <1>10. \A c, d \in Conns : Distinct(c, d)'
    <2>1. owner'[new] = a /\ rank'[new] = held[a] + 1
      BY <1>2, <1>3
    <2>2. \A c \in Conns \ {new} : owner'[c] = owner[c] /\ rank'[c] = rank[c]
      BY <1>3
    <2>3. \A c \in Conns \ {new} : owner[c] = a => rank[c] # held[a] + 1
      BY <1>1 DEF RankOK
    <2> QED BY <2>1, <2>2, <2>3, <1>1, Zenon DEF Distinct
  <1> QED BY <1>7, <1>8, <1>9, <1>10, Zenon

(* What Release and the new count do to the clients. *)
LEMMA ReleaseKeeps ==
    ASSUME PoolInv, NEW a \in Actors, held[a] > 0,
           Release(a), held' = [held EXCEPT ![a] = @ - 1]
    PROVE  /\ held' \in [Actors -> 0..Depth]
           /\ owner' \in [Conns -> Actors \cup {Free}]
           /\ rank' \in [Conns -> 0..Depth]
           /\ \A c \in Conns : RankOK(c)'
           /\ \A c, d \in Conns : Distinct(c, d)'
  <1> USE DEF PoolInv, PoolTypeOK
  <1>1. Depth \in Nat /\ held[a] \in 1..Depth /\ a # Free
    BY PoolAssumption
  <1>2. /\ held' \in [Actors -> 0..Depth]
        /\ held'[a] = held[a] - 1
        /\ \A b \in Actors \ {a} : held'[b] = held[b]
    BY <1>1
  <1>3. \A c \in Conns :
           IF owner[c] = a /\ rank[c] = held[a]
           THEN owner'[c] = Free /\ rank'[c] = 0
           ELSE owner'[c] = owner[c] /\ rank'[c] = rank[c]
    BY DEF Release
  <1>4. owner' \in [Conns -> Actors \cup {Free}]
    BY DEF Release
  <1>5. rank' \in [Conns -> 0..Depth]
    BY <1>1 DEF Release
  <1>6. \A c \in Conns : RankOK(c)'
    BY <1>1, <1>2, <1>3 DEF RankOK
  <1>7. \A c, d \in Conns : Distinct(c, d)'
    BY <1>3 DEF Distinct
  <1> QED BY <1>2, <1>4, <1>5, <1>6, <1>7

LEMMA GiveBackKeeps ==
    ASSUME PoolInv, NEW a \in Actors, GiveBack(a)
    PROVE  PoolInv'
  <1> USE DEF PoolInv, PoolTypeOK
  <1> DEFINE p == prog[a]
  <1>1. /\ mode[a] = "working" /\ AtOK(a)
        /\ held[a] \in Nat /\ at[a] \in Nat /\ Depth \in Nat
    BY PoolAssumption DEF GiveBack
  <1>2. /\ p \in MayRun(a) \cup {<<1, 0>>}
        /\ at[a] < Len(p)
        /\ held[a] = IF at[a] = 0 THEN 0 ELSE p[at[a]]
        /\ p[at[a] + 1] < held[a]
    BY <1>1 DEF AtOK, GiveBack, NextHeld
  <1>3. /\ Len(p) \in Nat /\ p[1] = 1 /\ p[Len(p)] = 0
        /\ \A i \in 1..Len(p) : p[i] \in 0..Depth
        /\ \A i \in 1..(Len(p) - 1) :
              p[i + 1] = p[i] + 1 \/ p[i] = p[i + 1] + 1
    BY <1>2, ProgramSteps
  <1>4. /\ held[a] = p[at[a]] /\ p[at[a] + 1] = held[a] - 1 /\ held[a] > 0
    <2>1. at[a] \in 1..(Len(p) - 1)
      BY <1>1, <1>2, <1>3
    <2>2. p[at[a]] \in Nat /\ p[at[a] + 1] \in Nat
      BY <2>1, <1>1, <1>3
    <2>3. p[at[a] + 1] = p[at[a]] + 1 \/ p[at[a]] = p[at[a] + 1] + 1
      BY <2>1, <1>3
    <2>4. held[a] = p[at[a]]
      BY <2>1, <1>2, <1>3
    <2> QED BY <2>2, <2>3, <2>4, <1>2
  <1>5. /\ held' = [held EXCEPT ![a] = @ - 1]
        /\ prog' = prog
        /\ Release(a)
    BY DEF GiveBack
  <1>6. /\ mode' \in [Actors -> {"idle", "working", "waiting", "leaving", "hung"}]
        /\ at' \in [Actors -> Nat]
        /\ \A b \in Actors \ {a} : mode'[b] = mode[b] /\ at'[b] = at[b]
    <2>1. CASE at[a] + 1 = Len(p)
      <3>1. /\ mode' = [mode EXCEPT ![a] = "idle"]
            /\ at' = [at EXCEPT ![a] = 0]
        BY <2>1 DEF GiveBack
      <3> QED BY <3>1
    <2>2. CASE at[a] + 1 # Len(p)
      <3>1. at' = [at EXCEPT ![a] = at[a] + 1] /\ mode' = mode
        BY <2>2 DEF GiveBack
      <3>2. at[a] + 1 \in Nat
        BY <1>1
      <3> QED BY <3>1, <3>2
    <2> QED BY <2>1, <2>2
  <1>7. AtOK(a)'
    <2>1. held'[a] = p[at[a] + 1]
      BY <1>4, <1>5
    <2>2. CASE at[a] + 1 = Len(p)
      <3>1. mode'[a] = "idle" /\ at'[a] = 0 /\ held'[a] = 0
        BY <2>1, <2>2, <1>3 DEF GiveBack
      <3> QED BY <3>1, <1>2, <1>5 DEF AtOK
    <2>3. CASE at[a] + 1 # Len(p)
      <3>1. mode'[a] = "working" /\ at'[a] = at[a] + 1
        BY <2>3, <1>1 DEF GiveBack
      <3>2. at[a] + 1 < Len(p)
        BY <2>3, <1>1, <1>2, <1>3
      <3> QED BY <2>1, <3>1, <3>2, <1>1, <1>2, <1>5 DEF AtOK
    <2> QED BY <2>2, <2>3
  <1>8. \A b \in Actors : AtOK(b)'
    BY <1>5, <1>6, <1>7 DEF AtOK, NextHeld
  <1>9. PoolTypeOK' /\ (\A c \in Conns : RankOK(c)')
          /\ (\A c, d \in Conns : Distinct(c, d)')
    BY <1>4, <1>5, <1>6, ReleaseKeeps
  <1> QED BY <1>8, <1>9, Zenon

LEMMA UnwindKeeps ==
    ASSUME PoolInv, NEW a \in Actors, Unwind(a)
    PROVE  PoolInv'
  <1> USE DEF PoolInv, PoolTypeOK
  <1>1. /\ mode[a] = "leaving" /\ AtOK(a) /\ held[a] > 0 /\ held[a] \in Nat
        /\ held' = [held EXCEPT ![a] = @ - 1]
        /\ Release(a) /\ prog' = prog /\ at' = at
    BY PoolAssumption DEF Unwind, AtOK
  <1>2. mode' \in [Actors -> {"idle", "working", "waiting", "leaving", "hung"}]
    BY DEF Unwind
  <1>3. \A b \in Actors : AtOK(b)'
    <2>1. \A b \in Actors \ {a} : AtOK(b)'
      BY <1>1 DEF Unwind, AtOK, NextHeld
    <2>2. AtOK(a)'
      BY <1>1 DEF Unwind, AtOK, NextHeld
    <2> QED BY <2>1, <2>2
  <1>4. PoolTypeOK' /\ (\A c \in Conns : RankOK(c)')
          /\ (\A c, d \in Conns : Distinct(c, d)')
    BY <1>1, <1>2, ReleaseKeeps
  <1> QED BY <1>3, <1>4, Zenon

LEMMA HangKeeps ==
    ASSUME PoolInv, NEW a \in Actors, Hang(a)
    PROVE  PoolInv'
  <1> USE DEF PoolInv, PoolTypeOK, Hang
  <1>1. AtOK(a) /\ AtOK(a)'
    BY DEF AtOK
  <1> QED BY <1>1, ClientsUntouched

(* Only Hang adds to the calls that hang, one at a time. *)
LEMMA HungInitial == Init => FewHung
  <1> SUFFICES ASSUME Init PROVE FewHung
    OBVIOUS
  <1>1. Hung = {}
    BY DEF Init, Hung
  <1> QED BY <1>1, FS_EmptySet, PoolAssumption DEF FewHung

LEMMA HungKeeps == PoolInv /\ FewHung /\ [Next]_vars => FewHung'
  <1> SUFFICES ASSUME PoolInv, FewHung, [Next]_vars PROVE FewHung'
    OBVIOUS
  <1> USE DEF PoolInv, PoolTypeOK
  <1>1. ASSUME NEW a \in Actors, Hang(a) PROVE FewHung'
    <2>1. Hung' = Hung \cup {a} /\ a \notin Hung
      BY <1>1 DEF Hang, Hung
    <2>2. IsFiniteSet(Hung) /\ Cardinality(Hung) \in Nat /\ Cardinality(Hung) < MaxHung
      BY <1>1, FS_CardinalityType DEF FewHung, Hang
    <2>3. IsFiniteSet(Hung \cup {a}) /\ Cardinality(Hung \cup {a}) = Cardinality(Hung) + 1
      BY <2>1, <2>2, FS_AddElement
    <2> QED BY <2>1, <2>2, <2>3, PoolAssumption DEF FewHung
  <1>2. CASE Hung' = Hung
    BY <1>2 DEF FewHung
  <1>3. CASE UNCHANGED vars
    BY <1>2, <1>3 DEF vars, Hung
  <1>4. ASSUME NEW a \in Actors,
               (\E p \in MayRun(a) : Start(a, p)) \/ Work(a) \/ Get(a) \/ Leave(a)
        PROVE  FewHung'
    <2>1. /\ mode[a] # "hung" /\ mode'[a] # "hung"
          /\ \A b \in Actors \ {a} : mode'[b] = mode[b]
      <3>1. CASE \E p \in MayRun(a) : Start(a, p)
        BY <3>1 DEF Start
      <3>2. CASE Ask(a)
        BY <3>2 DEF Ask
      <3>3. CASE GiveBack(a)
        BY <3>3 DEF GiveBack
      <3>4. CASE Unwind(a)
        BY <3>4 DEF Unwind
      <3>5. CASE Get(a)
        BY <3>5 DEF Get
      <3>6. CASE Leave(a)
        BY <3>6 DEF Leave
      <3> QED BY <1>4, <3>1, <3>2, <3>3, <3>4, <3>5, <3>6 DEF Work
    <2> QED BY <1>2, <2>1 DEF Hung
  <1> QED BY <1>1, <1>3, <1>4 DEF Next

-----------------------------------------------------------------------------
LEMMA StepKeeps == PoolInv /\ [Next]_vars => PoolInv'
  <1> SUFFICES ASSUME PoolInv, [Next]_vars PROVE PoolInv'
    OBVIOUS
  <1>1. CASE UNCHANGED vars
    BY <1>1 DEF vars, PoolInv, PoolTypeOK, AtOK, RankOK, Distinct, NextHeld
  <1>2. CASE Next
    <2>1. PICK a \in Actors :
             (\E p \in MayRun(a) : Start(a, p)) \/ Work(a) \/ Get(a) \/ Leave(a)
             \/ Hang(a)
      BY <1>2 DEF Next
    <2>2. CASE \E p \in MayRun(a) : Start(a, p)
      BY <2>2, StartKeeps
    <2>3. CASE Ask(a)
      BY <2>3, AskKeeps
    <2>4. CASE GiveBack(a)
      BY <2>4, GiveBackKeeps
    <2>5. CASE Unwind(a)
      BY <2>5, UnwindKeeps
    <2>6. CASE Get(a)
      BY <2>6, GetKeeps
    <2>7. CASE Leave(a)
      BY <2>7, LeaveKeeps
    <2>8. CASE Hang(a)
      BY <2>8, HangKeeps
    <2> QED BY <2>1, <2>2, <2>3, <2>4, <2>5, <2>6, <2>7, <2>8 DEF Work
  <1> QED BY <1>1, <1>2

(* A state of the inductive invariant is not stuck when the handlers, each *)
(* short of its last client, and one client for each call that hangs leave *)
(* one client over.  Otherwise the clients would map one to one into the   *)
(* ranks 1..(Depth - 1) of the handlers and one more place for each actor  *)
(* that hangs: the last client of a handler, the only one of a task.       *)
LEMMA EnoughClients ==
    ASSUME PoolInv, FewHung,
           Cardinality(Handlers) * (Depth - 1) + MaxHung < Cardinality(Conns)
    PROVE  NeverStuck
  <1> SUFFICES ASSUME Stuck PROVE FALSE
    BY DEF NeverStuck
  <1> DEFINE Ranks == 1..(Depth - 1)
             low(c) == owner[c] \in Handlers /\ rank[c] < Depth
             seat == [c \in Conns |-> <<owner[c], IF low(c) THEN rank[c] ELSE Depth>>]
             Seats == (Handlers \X Ranks) \cup (Hung \X {Depth})
  <1>1. \A c \in Conns :
           /\ rank[c] \in Nat /\ rank[c] > 0 /\ rank[c] <= Depth
           /\ low(c) \/ owner[c] \in Hung
           /\ owner[c] \in Handlers \/ rank[c] = 1
    <2> TAKE c \in Conns
    <2> DEFINE a == owner[c]
               p == prog[a]
    <2>1. a \in Actors /\ a # Free
      BY DEF Stuck, FreeConns, PoolInv, PoolTypeOK
    <2>2. /\ rank[c] \in 1..held[a] /\ held[a] \in 0..Depth
          /\ held[a] \in Nat /\ at[a] \in Nat
      BY <2>1, PoolAssumption DEF PoolInv, PoolTypeOK, RankOK
    <2>3. AtOK(a) /\ mode[a] \in {"idle", "waiting", "hung"}
      BY <2>1 DEF Stuck, PoolInv
    <2>4. mode[a] \in {"waiting", "hung"} /\ held[a] > 0
      BY <2>2, <2>3 DEF AtOK
    <2>5. /\ p \in MayRun(a) \cup {<<1, 0>>}
          /\ at[a] < Len(p) /\ at[a] # 0
          /\ held[a] = p[at[a]]
      BY <2>2, <2>3, <2>4 DEF AtOK
    <2>6. Len(p) \in Nat /\ \A i \in 1..Len(p) : p[i] \in 0..Depth
      BY <2>1, <2>5, ProgramSteps
    <2>7. p = <<1, 0>> => mode[a] = "hung" /\ rank[c] = 1
      <3>1. CASE p = <<1, 0>>
        <4>1. at[a] = 1 /\ held[a] = 1
          BY <2>2, <2>5, <3>1
        <4>2. p[at[a] + 1] = 0
          BY <3>1, <4>1
        <4>3. mode[a] # "waiting"
          BY <2>3, <4>1, <4>2 DEF AtOK, NextHeld
        <4> QED BY <2>2, <2>4, <4>1, <4>3
      <3> QED BY <3>1
    <2>8. a \in Handlers \/ p = <<1, 0>>
      BY <2>1, <2>5 DEF MayRun, Actors
    <2>9. mode[a] = "waiting" => rank[c] < Depth
      <3>1. CASE mode[a] = "waiting"
        <4>1. p[at[a] + 1] = held[a] + 1
          BY <2>3, <3>1 DEF AtOK, NextHeld
        <4>2. held[a] + 1 \in 0..Depth
          BY <2>2, <2>5, <2>6, <4>1
        <4> QED BY <2>2, <4>2, PoolAssumption
      <3> QED BY <3>1
    <2>10. mode[a] = "hung" => a \in Hung
      BY <2>1 DEF Hung
    <2>11. rank[c] \in Nat /\ rank[c] > 0 /\ rank[c] <= Depth
      BY <2>2, PoolAssumption
    <2> QED BY <2>4, <2>7, <2>8, <2>9, <2>10, <2>11
  <1>2. \A c \in Conns : seat[c] \in Seats
    <2> SUFFICES ASSUME NEW c \in Conns PROVE seat[c] \in Seats
      OBVIOUS
    <2>1. CASE low(c)
      <3>1. rank[c] \in Ranks
        BY <1>1, <2>1, PoolAssumption
      <3> QED BY <2>1, <3>1
    <2>2. CASE ~low(c)
      BY <1>1, <2>2
    <2> QED BY <2>1, <2>2
  <1>3. \A c, d \in Conns : seat[c] = seat[d] => c = d
    <2> TAKE c, d \in Conns
    <2> SUFFICES ASSUME seat[c] = seat[d] PROVE c = d
      OBVIOUS
    <2>1. owner[c] = owner[d]
      OBVIOUS
    <2>2. (IF low(c) THEN rank[c] ELSE Depth) = (IF low(d) THEN rank[d] ELSE Depth)
      OBVIOUS
    <2>3. rank[c] = rank[d]
      BY <1>1, <2>1, <2>2, PoolAssumption
    <2>4. owner[c] # Free
      BY DEF Stuck, FreeConns
    <2> QED BY <2>1, <2>3, <2>4 DEF PoolInv, Distinct
  <1>4. seat \in Injection(Conns, Seats)
    BY <1>2, <1>3 DEF Injection, IsInjective
  <1>5. /\ IsFiniteSet(Handlers \X Ranks)
        /\ Cardinality(Handlers \X Ranks) = Cardinality(Handlers) * (Depth - 1)
    <2>1. IsFiniteSet(Ranks) /\ Cardinality(Ranks) = Depth - 1
      BY PoolAssumption, FS_Interval
    <2> QED BY <2>1, PoolAssumption, FS_Product
  <1>6. IsFiniteSet(Hung \X {Depth}) /\ Cardinality(Hung \X {Depth}) = Cardinality(Hung)
    <2>1. IsFiniteSet({Depth}) /\ Cardinality({Depth}) = 1
      BY FS_Singleton
    <2>2. Cardinality(Hung) \in Nat
      BY FS_CardinalityType DEF FewHung
    <2>3. /\ IsFiniteSet(Hung \X {Depth})
          /\ Cardinality(Hung \X {Depth}) = Cardinality(Hung) * Cardinality({Depth})
      BY <2>1, FS_Product DEF FewHung
    <2> QED BY <2>1, <2>2, <2>3
  <1>7. /\ IsFiniteSet(Seats)
        /\ Cardinality(Seats) <= Cardinality(Handlers) * (Depth - 1) + MaxHung
    <2> DEFINE A == Handlers \X Ranks
               B == Hung \X {Depth}
    <2>1. IsFiniteSet(A) /\ IsFiniteSet(B)
      BY <1>5, <1>6
    <2> HIDE DEF A, B
    <2>2. /\ IsFiniteSet(A \cup B) /\ IsFiniteSet(A \cap B)
          /\ Cardinality(A \cup B)
                = Cardinality(A) + Cardinality(B) - Cardinality(A \cap B)
      BY <2>1, FS_Union, FS_Intersection
    <2>3. /\ Cardinality(A) \in Nat /\ Cardinality(B) \in Nat
          /\ Cardinality(A \cap B) \in Nat /\ Cardinality(A \cup B) \in Nat
      BY <2>1, <2>2, FS_CardinalityType
    <2>4. Cardinality(A \cup B) <= Cardinality(A) + Cardinality(B)
      BY <2>2, <2>3
    <2>5. /\ Cardinality(A) = Cardinality(Handlers) * (Depth - 1)
          /\ Cardinality(B) <= MaxHung
      BY <1>5, <1>6 DEF A, B, FewHung
    <2>6. Cardinality(A \cup B) <= Cardinality(Handlers) * (Depth - 1) + MaxHung
      <3> DEFINE n == Cardinality(Handlers) * (Depth - 1)
      <3>1. Cardinality(A) = n /\ Cardinality(B) <= MaxHung
        BY <2>5
      <3> HIDE DEF n
      <3>2. Cardinality(A \cup B) <= n + MaxHung
        BY <2>3, <2>4, <3>1, PoolAssumption
      <3> QED BY <3>2 DEF n
    <2> QED BY <2>2, <2>6 DEF A, B
  <1> HIDE DEF seat, Seats
  <1>8. Cardinality(Conns) <= Cardinality(Seats)
    BY <1>4, <1>7, FS_Injection
  <1>9. Cardinality(Conns) \in Nat /\ Cardinality(Seats) \in Nat
    BY <1>7, PoolAssumption, FS_CardinalityType
  <1>10. Cardinality(Handlers) * (Depth - 1) + MaxHung \in Int
    <2>1. Cardinality(Handlers) \in Nat
      BY PoolAssumption, FS_CardinalityType
    <2>2. Cardinality(Handlers) * (Depth - 1) \in Int
      BY <2>1, PoolAssumption
    <2> QED BY <2>2, PoolAssumption
  <1> QED BY <1>7, <1>8, <1>9, <1>10

-----------------------------------------------------------------------------
(* The state of the pool always has its type. *)
THEOREM PoolTyped == Spec => []PoolTypeOK
  <1>1. PoolInv => PoolTypeOK
    BY DEF PoolInv
  <1> QED BY <1>1, PoolInitial, StepKeeps, PTL DEF Spec

(* Whatever handlers and ledger tasks run, and however they interleave,    *)
(* the pool never deadlocks if the handlers' slots times the deepest       *)
(* program less one, and one for each call that never returns, are fewer   *)
(* than the clients.  Ledger tasks do not count.                           *)
THEOREM DeadlockFree ==
    ASSUME Cardinality(Handlers) * (Depth - 1) + MaxHung < Cardinality(Conns)
    PROVE  Spec => []NeverStuck
  <1>1. PoolInv /\ FewHung => NeverStuck
    BY EnoughClients
  <1> QED BY <1>1, PoolInitial, StepKeeps, HungInitial, HungKeeps, PTL DEF Spec

-----------------------------------------------------------------------------
(* The startup migrations. *)

(* What a process has passed is in the schema. *)
DoneFiles ==
    /\ \A f \in Files : by[f] # "nobody" => f \in schema
    /\ \A p \in Procs :
          /\ Running(p) => 1..(cur[p] - 1) \subseteq schema
          /\ pc[p] \in {"mark", "record"} => cur[p] \in schema
          /\ pc[p] \in {"users", "mark", "run", "record"} => cur[p] \in Files
          /\ pc[p] = "users" => cur[p] = 1
          /\ pc[p] = "serving" => schema = Files

(* What a process found missing, nobody but another process has added. *)
AddedByOthers ==
    \A p \in Procs :
       /\ pc[p] = "create" => tableBy \notin {"earlier", p}
       /\ pc[p] \in {"users", "mark", "run", "record"} =>
             by[cur[p]] \notin {"earlier", p}

MigrationInv == MigrationTypeOK /\ DoneFiles /\ AddedByOthers

-----------------------------------------------------------------------------

LEMMA MigrationInitInv == MigrationInit => MigrationInv
  <1> SUFFICES ASSUME MigrationInit PROVE MigrationInv
    OBVIOUS
  <1> USE MigrationAssumption DEF MigrationInit, Files
  <1>1. MigrationTypeOK
    BY DEF MigrationTypeOK, Who
  <1>2. DoneFiles
    BY DEF DoneFiles, Running
  <1>3. AddedByOthers
    BY DEF AddedByOthers
  <1> QED BY <1>1, <1>2, <1>3 DEF MigrationInv

LEMMA TypeStep ==
  ASSUME MigrationTypeOK, DoneFiles, [MigrationNext]_migrationVars
  PROVE  MigrationTypeOK'
  <1> USE MigrationAssumption 
      DEF MigrationTypeOK, DoneFiles, Who, Files, Goto, NextFile, Running, Insert,
          AlreadyApplied
  <1>1. ASSUME NEW p \in Procs, Begin(p) PROVE MigrationTypeOK'
    BY <1>1 DEF Begin
  <1>2. ASSUME NEW p \in Procs, CreateTable(p) PROVE MigrationTypeOK'
    BY <1>2 DEF CreateTable
  <1>3. ASSUME NEW p \in Procs, CreateRaces(p) PROVE MigrationTypeOK'
    BY <1>3 DEF CreateRaces
  <1>4. ASSUME NEW p \in Procs, Skip(p) PROVE MigrationTypeOK'
    BY <1>4 DEF Skip
  <1>5. ASSUME NEW p \in Procs, Check(p) PROVE MigrationTypeOK'
    BY <1>5 DEF Check
  <1>6. ASSUME NEW p \in Procs, Serve(p) PROVE MigrationTypeOK'
    BY <1>6 DEF Serve
  <1>7. ASSUME NEW p \in Procs, LookForUsers(p) PROVE MigrationTypeOK'
    BY <1>7 DEF LookForUsers
  <1>8. ASSUME NEW p \in Procs, Mark(p) PROVE MigrationTypeOK'
    BY <1>8 DEF Mark
  <1>9. ASSUME NEW p \in Procs, Run(p) PROVE MigrationTypeOK'
    BY <1>9 DEF Run
  <1>10. ASSUME NEW p \in Procs, RunAgain(p) PROVE MigrationTypeOK'
    BY <1>10 DEF RunAgain
  <1>11. ASSUME NEW p \in Procs, Record(p) PROVE MigrationTypeOK'
    BY <1>11 DEF Record
  <1>12. ASSUME NEW p \in Procs, RecordRaces(p) PROVE MigrationTypeOK'
    BY <1>12 DEF RecordRaces
  <1>13. ASSUME NEW p \in Procs, Abort(p) PROVE MigrationTypeOK'
    BY <1>13 DEF Abort
  <1>14. ASSUME NEW p \in Procs, AbortUnacknowledged(p) PROVE MigrationTypeOK'
    <2>1. faults' \in 0..MaxFaults
      BY <1>14 DEF AbortUnacknowledged
    <2>2. pc' \in [Procs -> {"down", "create", "check", "users", "mark", "run",
                             "record", "serving"}]
      BY <1>14 DEF AbortUnacknowledged
    <2>3. schema' \subseteq Files
      BY <1>14 DEF AbortUnacknowledged
    <2>4. by' \in [Files -> Who]
      BY <1>14 DEF AbortUnacknowledged
    <2>5. tableBy' \in Who /\ cur' = cur
      BY <1>14 DEF AbortUnacknowledged
    <2> QED BY <2>1, <2>2, <2>3, <2>4, <2>5
  <1>15. ASSUME NEW p \in Procs, Stop(p) PROVE MigrationTypeOK'
    BY <1>15 DEF Stop
  <1>16. CASE UNCHANGED migrationVars
    BY <1>16 DEF migrationVars
  <1> QED
    BY <1>1, <1>2, <1>3, <1>4, <1>5, <1>6, <1>7, <1>8, <1>9,
       <1>10, <1>11, <1>12, <1>13, <1>14, <1>15, <1>16
    DEF MigrationNext, Step

LEMMA DoneStep ==
  ASSUME MigrationTypeOK, DoneFiles, [MigrationNext]_migrationVars
  PROVE  DoneFiles'
  <1> USE MigrationAssumption 
      DEF MigrationTypeOK, DoneFiles, Who, Files, Goto, NextFile, Running, Insert,
          AlreadyApplied
  <1>1. ASSUME NEW p \in Procs, Begin(p) PROVE DoneFiles'
    BY <1>1 DEF Begin
  <1>2. ASSUME NEW p \in Procs, CreateTable(p) PROVE DoneFiles'
    BY <1>2 DEF CreateTable
  <1>3. ASSUME NEW p \in Procs, CreateRaces(p) PROVE DoneFiles'
    BY <1>3 DEF CreateRaces
  <1>4. ASSUME NEW p \in Procs, Skip(p) PROVE DoneFiles'
    BY <1>4 DEF Skip
  <1>5. ASSUME NEW p \in Procs, Check(p) PROVE DoneFiles'
    BY <1>5 DEF Check
  <1>6. ASSUME NEW p \in Procs, Serve(p) PROVE DoneFiles'
    <2>1. cur[p] - 1 = N /\ 1..(cur[p] - 1) \subseteq schema
      BY <1>6 DEF Serve
    <2>2. schema = Files
      BY <2>1
    <2> QED BY <1>6, <2>2 DEF Serve
  <1>7. ASSUME NEW p \in Procs, LookForUsers(p) PROVE DoneFiles'
    BY <1>7 DEF LookForUsers
  <1>8. ASSUME NEW p \in Procs, Mark(p) PROVE DoneFiles'
    BY <1>8 DEF Mark
  <1>9. ASSUME NEW p \in Procs, Run(p) PROVE DoneFiles'
    BY <1>9 DEF Run
  <1>10. ASSUME NEW p \in Procs, RunAgain(p) PROVE DoneFiles'
    BY <1>10 DEF RunAgain
  <1>11. ASSUME NEW p \in Procs, Record(p) PROVE DoneFiles'
    BY <1>11 DEF Record
  <1>12. ASSUME NEW p \in Procs, RecordRaces(p) PROVE DoneFiles'
    BY <1>12 DEF RecordRaces
  <1>13. ASSUME NEW p \in Procs, Abort(p) PROVE DoneFiles'
    BY <1>13 DEF Abort
  <1>14. ASSUME NEW p \in Procs, AbortUnacknowledged(p) PROVE DoneFiles'
    <2>1. /\ cur' = cur /\ pc'[p] = "down" /\ schema \subseteq schema'
          /\ schema' \subseteq Files
          /\ \A q \in Procs \ {p} : pc'[q] = pc[q]
      BY <1>14 DEF AbortUnacknowledged
    <2>2. \A f \in Files : by'[f] # "nobody" => f \in schema'
      BY <1>14 DEF AbortUnacknowledged
    <2>3. schema = Files => schema' = Files
      BY <2>1
    <2> HIDE DEF Files
    <2> QED BY <2>1, <2>2, <2>3
  <1>15. ASSUME NEW p \in Procs, Stop(p) PROVE DoneFiles'
    BY <1>15 DEF Stop
  <1>16. CASE UNCHANGED migrationVars
    BY <1>16 DEF migrationVars
  <1> QED
    BY <1>1, <1>2, <1>3, <1>4, <1>5, <1>6, <1>7, <1>8, <1>9,
       <1>10, <1>11, <1>12, <1>13, <1>14, <1>15, <1>16
    DEF MigrationNext, Step

LEMMA AddedStep ==
  ASSUME MigrationTypeOK, DoneFiles, AddedByOthers, [MigrationNext]_migrationVars
  PROVE  AddedByOthers'
  <1> USE MigrationAssumption 
      DEF MigrationTypeOK, DoneFiles, AddedByOthers, Who, Files, Goto,
          NextFile, Running, Insert, AlreadyApplied
  <1>1. ASSUME NEW p \in Procs, Begin(p) PROVE AddedByOthers'
    BY <1>1 DEF Begin
  <1>2. ASSUME NEW p \in Procs, CreateTable(p) PROVE AddedByOthers'
    BY <1>2 DEF CreateTable
  <1>3. ASSUME NEW p \in Procs, CreateRaces(p) PROVE AddedByOthers'
    BY <1>3 DEF CreateRaces
  <1>4. ASSUME NEW p \in Procs, Skip(p) PROVE AddedByOthers'
    BY <1>4 DEF Skip
  <1>5. ASSUME NEW p \in Procs, Check(p) PROVE AddedByOthers'
    BY <1>5 DEF Check
  <1>6. ASSUME NEW p \in Procs, Serve(p) PROVE AddedByOthers'
    BY <1>6 DEF Serve
  <1>7. ASSUME NEW p \in Procs, LookForUsers(p) PROVE AddedByOthers'
    BY <1>7 DEF LookForUsers
  <1>8. ASSUME NEW p \in Procs, Mark(p) PROVE AddedByOthers'
    BY <1>8 DEF Mark
  <1>9. ASSUME NEW p \in Procs, Run(p) PROVE AddedByOthers'
    BY <1>9 DEF Run
  <1>10. ASSUME NEW p \in Procs, RunAgain(p) PROVE AddedByOthers'
    BY <1>10 DEF RunAgain
  <1>11. ASSUME NEW p \in Procs, Record(p) PROVE AddedByOthers'
    BY <1>11 DEF Record
  <1>12. ASSUME NEW p \in Procs, RecordRaces(p) PROVE AddedByOthers'
    BY <1>12 DEF RecordRaces
  <1>13. ASSUME NEW p \in Procs, Abort(p) PROVE AddedByOthers'
    BY <1>13 DEF Abort
  <1>14. ASSUME NEW p \in Procs, AbortUnacknowledged(p) PROVE AddedByOthers'
    BY <1>14 DEF AbortUnacknowledged
  <1>15. ASSUME NEW p \in Procs, Stop(p) PROVE AddedByOthers'
    BY <1>15 DEF Stop
  <1>16. CASE UNCHANGED migrationVars
    BY <1>16 DEF migrationVars
  <1> QED
    BY <1>1, <1>2, <1>3, <1>4, <1>5, <1>6, <1>7, <1>8, <1>9,
       <1>10, <1>11, <1>12, <1>13, <1>14, <1>15, <1>16
    DEF MigrationNext, Step

(* The invariant is inductive. *)
THEOREM MigrationInvariant == MigrationSpec => []MigrationInv
  <1>1. MigrationInv /\ [MigrationNext]_migrationVars => MigrationInv'
    BY TypeStep, DoneStep, AddedStep DEF MigrationInv
  <1> QED BY <1>1, MigrationInitInv, PTL DEF MigrationSpec

-----------------------------------------------------------------------------

(* Every variable keeps its type. *)
THEOREM MigrationTyped == MigrationSpec => []MigrationTypeOK
  <1>1. MigrationInv => MigrationTypeOK
    BY DEF MigrationInv
  <1> QED BY <1>1, MigrationInvariant, PTL

(* No process serves requests on a database that lacks a migration: what a *)
(* process has passed, recorded or tolerated is in the schema.             *)
THEOREM ServersAreMigrated == MigrationSpec => []ServingMeansMigrated
  <1>1. MigrationInv => ServingMeansMigrated
    BY DEF MigrationInv, DoneFiles, ServingMeansMigrated
  <1> QED BY <1>1, MigrationInvariant, PTL

(* As long as Postgres's message is in the error's text, a start fails     *)
(* only because of a fault or of another process.                          *)
THEOREM LoneStarts ==
  ASSUME SaysWhy
  PROVE  MigrationSpec => LoneStartSucceeds
  <1> DEFINE
       Excused ==
         \A p \in Procs :
            Running(p) /\ pc'[p] = "down" =>
               \/ faults' > faults
               \/ pc[p] = "create" /\ tableBy \in Procs \ {p}
               \/ pc[p] = "record" /\ by[cur[p]] \in Procs \ {p}
  <1>1. MigrationInv /\ [MigrationNext]_migrationVars => Excused
    <2> SUFFICES ASSUME MigrationInv, [MigrationNext]_migrationVars,
                        NEW p \in Procs, Running(p), pc'[p] = "down"
                 PROVE  \/ faults' > faults
                        \/ pc[p] = "create" /\ tableBy \in Procs \ {p}
                        \/ pc[p] = "record" /\ by[cur[p]] \in Procs \ {p}
      OBVIOUS
    <2> USE DEF MigrationInv, MigrationTypeOK, Running, Goto
    <2>1. CASE Abort(p) \/ AbortUnacknowledged(p)
      BY <2>1, MigrationAssumption DEF Abort, AbortUnacknowledged
    <2>2. CASE CreateRaces(p)
      BY <2>2 DEF CreateRaces, AddedByOthers, Who
    <2>3. CASE RecordRaces(p)
      BY <2>3 DEF RecordRaces, AddedByOthers, DoneFiles, AlreadyApplied, Who
    <2>4. ~(Step(p) \/ Stop(p)) \/ CreateRaces(p) \/ RecordRaces(p)
      BY SaysWhy
      DEF Step, Stop, Begin, CreateTable, Skip, Check, Serve, LookForUsers, Mark,
          Run, RunAgain, Record
    <2>5. ASSUME NEW q \in Procs \ {p},
                 Step(q) \/ Abort(q) \/ AbortUnacknowledged(q) \/ Stop(q)
          PROVE  pc'[p] = pc[p]
      BY <2>5
      DEF Step, Abort, AbortUnacknowledged, Stop, Begin, CreateTable, CreateRaces,
          Skip, Check, Serve, LookForUsers, Mark, Run, RunAgain, Record,
            RecordRaces
    <2>6. CASE UNCHANGED migrationVars
      BY <2>6 DEF migrationVars
    <2> QED BY <2>1, <2>2, <2>3, <2>4, <2>5, <2>6 DEF MigrationNext
  <1> QED BY <1>1, MigrationInvariant, PTL DEF MigrationSpec, LoneStartSucceeds
=============================================================================
