---------------------------- MODULE PinGuardProofs ----------------------------
(***************************************************************************)
(* Proofs about the PIN guard, for any number of concurrent requests, any  *)
(* limit and any number of failed calls:                                   *)
(*   - PinTyped: the type invariant;                                       *)
(*   - CountersEnd, LimitLeadsToLock: what no interleaving of the counter  *)
(*     and lockout calls can lose;                                         *)
(*   - LockoutHolds: no success under a lockout that stands;               *)
(*   - GuessesBounded: how many wrong guesses one window allows.           *)
(***************************************************************************)
EXTENDS PinGuard, FiniteSetTheorems, TLAPS

(* A counter at the limit has somebody who saw it there.  LimitAlwaysLocks *)
(* does not say so, and a request that saw less leaves "arm" for "idle".   *)
LimitSeen ==
    attempts >= Max /\ faults = 0 =>
        \E r \in Requests : \/ pc[r] = "arm" /\ got[r] >= Max
                            \/ pc[r] \in {"lock", "clear"}

(* Who began under the lockout that stands has not got past the check. *)
BarredStay ==
    /\ barred # {} => locked
    /\ \A r \in barred : /\ pc[r] \in {"idle", "unlock", "check"}
                         /\ pc[r] = "idle" => result[r] # "success"

(* The lockout key outlives the request that set it. *)
ClearsUnderLock ==
    \A r \in Requests : pc[r] = "clear" => locked /\ r \in lockAge

-----------------------------------------------------------------------------
(* The requests that a wrong guess goes through: compared, counted, and    *)
(* past the limit on the way to the lockout.                               *)

Comparing == {r \in Requests : pc[r] = "compare"}
Uncounted == {r \in Requests : pc[r] = "wrong"}
Locking == {r \in Requests : \/ pc[r] = "arm" /\ got[r] >= Max
                             \/ pc[r] \in {"lock", "clear"}}

(* The counter passes the limit only by requests that are on their way to  *)
(* the lockout, and by failed calls.                                       *)
CounterBound == attempts + 1 <= Max + Cardinality(Locking) + faults

(* Without a lockout, a guess of this window is counted, is about to be    *)
(* counted, or failed; and the two bounds do not share a failed call.      *)
OpenBound ==
    /\ tried <= attempts + Cardinality(Uncounted) + faults
    /\ tried + 1 <= Max + Cardinality(Locking) + Cardinality(Uncounted) + faults

(* Under a lockout nobody enters "compare" any more. *)
ShutBound ==
    tried + 1 + Cardinality(Comparing) <= Max + Cardinality(Requests) + faults

WindowBound ==
    /\ CounterBound
    /\ IF locked THEN ShutBound ELSE OpenBound

PinInv ==
    /\ PinTypeOK /\ CounterHasDeadline /\ LimitSeen /\ BarredStay
    /\ ClearsUnderLock /\ WindowBound

-----------------------------------------------------------------------------

LEMMA TypeStep ==
  ASSUME PinTypeOK, [Next]_vars
  PROVE  PinTypeOK'
  <1> USE PinAssumption
      DEF PinTypeOK, Stages, Fault, redis, users, Goto, Answer,
          Ages, NoTtlSet, StillRunning
  <1>1. ASSUME NEW r \in Requests, Begin(r) PROVE PinTypeOK'
    BY <1>1 DEF Begin
  <1>2. ASSUME NEW r \in Requests, Unlock(r) PROVE PinTypeOK'
    BY <1>2 DEF Unlock
  <1>3. ASSUME NEW r \in Requests, NoPinNeeded(r) PROVE PinTypeOK'
    BY <1>3 DEF NoPinNeeded
  <1>4. ASSUME NEW r \in Requests, CheckLock(r) PROVE PinTypeOK'
    BY <1>4 DEF CheckLock
  <1>5. ASSUME NEW r \in Requests, Compare(r) PROVE PinTypeOK'
    BY <1>5 DEF Compare
  <1>6. ASSUME NEW r \in Requests, Succeed(r) PROVE PinTypeOK'
    BY <1>6 DEF Succeed
  <1>7. ASSUME NEW r \in Requests, Count(r) PROVE PinTypeOK'
    BY <1>7 DEF Count
  <1>8. ASSUME NEW r \in Requests, Arm(r) PROVE PinTypeOK'
    BY <1>8 DEF Arm
  <1>9. ASSUME NEW r \in Requests, SetLock(r) PROVE PinTypeOK'
    BY <1>9 DEF SetLock
  <1>10. ASSUME NEW r \in Requests, Clear(r) PROVE PinTypeOK'
    BY <1>10 DEF Clear
  <1>11. ASSUME NEW r \in Requests, Mark(r) PROVE PinTypeOK'
    BY <1>11 DEF Mark
  <1>12. ASSUME NEW r \in Requests, Abort(r) PROVE PinTypeOK'
    BY <1>12 DEF Abort
  <1>13. CASE LockExpires
    BY <1>13 DEF LockExpires
  <1>14. CASE CounterExpires
    BY <1>14 DEF CounterExpires
  <1>15. CASE UntilPasses
    BY <1>15 DEF UntilPasses
  <1>16. CASE UNCHANGED vars
    BY <1>16 DEF vars
  <1> QED
    BY <1>1, <1>2, <1>3, <1>4, <1>5, <1>6, <1>7, <1>8, <1>9, <1>10,
       <1>11, <1>12, <1>13, <1>14, <1>15, <1>16
    DEF Next, Step

LEMMA DeadlineStep ==
  ASSUME PinTypeOK, CounterHasDeadline, [Next]_vars
  PROVE  CounterHasDeadline'
  <1> USE PinAssumption
      DEF PinTypeOK, CounterHasDeadline, Stages, Fault, redis, users, Goto, Answer,
          Ages, NoTtlSet, StillRunning
  <1>1. ASSUME NEW r \in Requests, Begin(r) PROVE CounterHasDeadline'
    BY <1>1 DEF Begin
  <1>2. ASSUME NEW r \in Requests, Unlock(r) PROVE CounterHasDeadline'
    BY <1>2 DEF Unlock
  <1>3. ASSUME NEW r \in Requests, NoPinNeeded(r) PROVE CounterHasDeadline'
    BY <1>3 DEF NoPinNeeded
  <1>4. ASSUME NEW r \in Requests, CheckLock(r) PROVE CounterHasDeadline'
    BY <1>4 DEF CheckLock
  <1>5. ASSUME NEW r \in Requests, Compare(r) PROVE CounterHasDeadline'
    BY <1>5 DEF Compare
  <1>6. ASSUME NEW r \in Requests, Succeed(r) PROVE CounterHasDeadline'
    BY <1>6 DEF Succeed
  <1>7. ASSUME NEW r \in Requests, Count(r) PROVE CounterHasDeadline'
    BY <1>7 DEF Count
  <1>8. ASSUME NEW r \in Requests, Arm(r) PROVE CounterHasDeadline'
    BY <1>8 DEF Arm
  <1>9. ASSUME NEW r \in Requests, SetLock(r) PROVE CounterHasDeadline'
    BY <1>9 DEF SetLock
  <1>10. ASSUME NEW r \in Requests, Clear(r) PROVE CounterHasDeadline'
    BY <1>10 DEF Clear
  <1>11. ASSUME NEW r \in Requests, Mark(r) PROVE CounterHasDeadline'
    BY <1>11 DEF Mark
  <1>12. ASSUME NEW r \in Requests, Abort(r) PROVE CounterHasDeadline'
    BY <1>12 DEF Abort
  <1>13. CASE LockExpires
    BY <1>13 DEF LockExpires
  <1>14. CASE CounterExpires
    BY <1>14 DEF CounterExpires
  <1>15. CASE UntilPasses
    BY <1>15 DEF UntilPasses
  <1>16. CASE UNCHANGED vars
    BY <1>16 DEF vars
  <1> QED
    BY <1>1, <1>2, <1>3, <1>4, <1>5, <1>6, <1>7, <1>8, <1>9, <1>10,
       <1>11, <1>12, <1>13, <1>14, <1>15, <1>16
    DEF Next, Step

LEMMA LimitStep ==
  ASSUME PinTypeOK, LimitSeen, [Next]_vars
  PROVE  LimitSeen'
  <1> USE PinAssumption
      DEF PinTypeOK, LimitSeen, Stages, Fault, redis, users, Goto, Answer
  <1>1. ASSUME NEW r \in Requests, Begin(r) PROVE LimitSeen'
    BY <1>1 DEF Begin
  <1>2. ASSUME NEW r \in Requests, Unlock(r) PROVE LimitSeen'
    BY <1>2 DEF Unlock
  <1>3. ASSUME NEW r \in Requests, NoPinNeeded(r) PROVE LimitSeen'
    BY <1>3 DEF NoPinNeeded
  <1>4. ASSUME NEW r \in Requests, CheckLock(r) PROVE LimitSeen'
    BY <1>4 DEF CheckLock
  <1>5. ASSUME NEW r \in Requests, Compare(r) PROVE LimitSeen'
    BY <1>5 DEF Compare
  <1>6. ASSUME NEW r \in Requests, Succeed(r) PROVE LimitSeen'
    BY <1>6 DEF Succeed
  <1>7. ASSUME NEW r \in Requests, Count(r) PROVE LimitSeen'
    BY <1>7 DEF Count
  <1>8. ASSUME NEW r \in Requests, Arm(r) PROVE LimitSeen'
    BY <1>8 DEF Arm
  <1>9. ASSUME NEW r \in Requests, SetLock(r) PROVE LimitSeen'
    BY <1>9 DEF SetLock
  <1>10. ASSUME NEW r \in Requests, Clear(r) PROVE LimitSeen'
    BY <1>10 DEF Clear
  <1>11. ASSUME NEW r \in Requests, Mark(r) PROVE LimitSeen'
    BY <1>11 DEF Mark
  <1>12. ASSUME NEW r \in Requests, Abort(r) PROVE LimitSeen'
    BY <1>12 DEF Abort
  <1>13. CASE LockExpires
    BY <1>13 DEF LockExpires
  <1>14. CASE CounterExpires
    BY <1>14 DEF CounterExpires
  <1>15. CASE UntilPasses
    BY <1>15 DEF UntilPasses
  <1>16. CASE UNCHANGED vars
    BY <1>16 DEF vars
  <1> QED
    BY <1>1, <1>2, <1>3, <1>4, <1>5, <1>6, <1>7, <1>8, <1>9, <1>10,
       <1>11, <1>12, <1>13, <1>14, <1>15, <1>16
    DEF Next, Step

LEMMA BarredStep ==
  ASSUME PinTypeOK, BarredStay, [Next]_vars
  PROVE  BarredStay'
  <1> USE DEF PinTypeOK, BarredStay, Stages, redis, users, Goto, Answer
  <1>1. ASSUME NEW r \in Requests, Begin(r) PROVE BarredStay'
    BY <1>1 DEF Begin
  <1>2. ASSUME NEW r \in Requests, Unlock(r) PROVE BarredStay'
    BY <1>2 DEF Unlock
  <1>3. ASSUME NEW r \in Requests, NoPinNeeded(r) PROVE BarredStay'
    BY <1>3 DEF NoPinNeeded
  <1>4. ASSUME NEW r \in Requests, CheckLock(r) PROVE BarredStay'
    BY <1>4 DEF CheckLock
  <1>5. ASSUME NEW r \in Requests, Compare(r) PROVE BarredStay'
    BY <1>5 DEF Compare
  <1>6. ASSUME NEW r \in Requests, Succeed(r) PROVE BarredStay'
    BY <1>6 DEF Succeed
  <1>7. ASSUME NEW r \in Requests, Count(r) PROVE BarredStay'
    BY <1>7 DEF Count
  <1>8. ASSUME NEW r \in Requests, Arm(r) PROVE BarredStay'
    BY <1>8 DEF Arm
  <1>9. ASSUME NEW r \in Requests, SetLock(r) PROVE BarredStay'
    BY <1>9 DEF SetLock
  <1>10. ASSUME NEW r \in Requests, Clear(r) PROVE BarredStay'
    BY <1>10 DEF Clear
  <1>11. ASSUME NEW r \in Requests, Mark(r) PROVE BarredStay'
    BY <1>11 DEF Mark
  <1>12. ASSUME NEW r \in Requests, Abort(r) PROVE BarredStay'
    BY <1>12 DEF Abort
  <1>13. CASE LockExpires
    BY <1>13 DEF LockExpires
  <1>14. CASE CounterExpires
    BY <1>14 DEF CounterExpires
  <1>15. CASE UntilPasses
    BY <1>15 DEF UntilPasses
  <1>16. CASE UNCHANGED vars
    BY <1>16 DEF vars
  <1> QED
    BY <1>1, <1>2, <1>3, <1>4, <1>5, <1>6, <1>7, <1>8, <1>9, <1>10,
       <1>11, <1>12, <1>13, <1>14, <1>15, <1>16
    DEF Next, Step

LEMMA ClearStep ==
  ASSUME PinTypeOK, ClearsUnderLock, [Next]_vars
  PROVE  ClearsUnderLock'
  <1> USE DEF PinTypeOK, ClearsUnderLock, Stages, redis, users, Goto, Answer,
          Ages, NoTtlSet, StillRunning
  <1>1. ASSUME NEW r \in Requests, Begin(r) PROVE ClearsUnderLock'
    BY <1>1 DEF Begin
  <1>2. ASSUME NEW r \in Requests, Unlock(r) PROVE ClearsUnderLock'
    BY <1>2 DEF Unlock
  <1>3. ASSUME NEW r \in Requests, NoPinNeeded(r) PROVE ClearsUnderLock'
    BY <1>3 DEF NoPinNeeded
  <1>4. ASSUME NEW r \in Requests, CheckLock(r) PROVE ClearsUnderLock'
    BY <1>4 DEF CheckLock
  <1>5. ASSUME NEW r \in Requests, Compare(r) PROVE ClearsUnderLock'
    BY <1>5 DEF Compare
  <1>6. ASSUME NEW r \in Requests, Succeed(r) PROVE ClearsUnderLock'
    BY <1>6 DEF Succeed
  <1>7. ASSUME NEW r \in Requests, Count(r) PROVE ClearsUnderLock'
    BY <1>7 DEF Count
  <1>8. ASSUME NEW r \in Requests, Arm(r) PROVE ClearsUnderLock'
    BY <1>8 DEF Arm
  <1>9. ASSUME NEW r \in Requests, SetLock(r) PROVE ClearsUnderLock'
    BY <1>9 DEF SetLock
  <1>10. ASSUME NEW r \in Requests, Clear(r) PROVE ClearsUnderLock'
    BY <1>10 DEF Clear
  <1>11. ASSUME NEW r \in Requests, Mark(r) PROVE ClearsUnderLock'
    BY <1>11 DEF Mark
  <1>12. ASSUME NEW r \in Requests, Abort(r) PROVE ClearsUnderLock'
    BY <1>12 DEF Abort
  <1>13. CASE LockExpires
    BY <1>13 DEF LockExpires
  <1>14. CASE CounterExpires
    BY <1>14 DEF CounterExpires
  <1>15. CASE UntilPasses
    BY <1>15 DEF UntilPasses
  <1>16. CASE UNCHANGED vars
    BY <1>16 DEF vars
  <1> QED
    BY <1>1, <1>2, <1>3, <1>4, <1>5, <1>6, <1>7, <1>8, <1>9, <1>10,
       <1>11, <1>12, <1>13, <1>14, <1>15, <1>16
    DEF Next, Step

-----------------------------------------------------------------------------
(* How many requests are where. *)

LEMMA Sizes ==
  ASSUME NEW A \in SUBSET Requests
  PROVE  /\ IsFiniteSet(A)
         /\ Cardinality(A) \in Nat
         /\ Cardinality(A) <= Cardinality(Requests)
  BY PinAssumption, FS_Subset, FS_CardinalityType

LEMMA Joins ==
  ASSUME NEW A \in SUBSET Requests, NEW r, r \notin A
  PROVE  Cardinality(A \cup {r}) = Cardinality(A) + 1
  BY Sizes, FS_AddElement

LEMMA Leaves ==
  ASSUME NEW A \in SUBSET Requests, NEW r \in A
  PROVE  Cardinality(A \ {r}) = Cardinality(A) - 1
  BY Sizes, FS_RemoveElement

LEMMA DisjointSizes ==
  ASSUME NEW A \in SUBSET Requests, NEW B \in SUBSET Requests,
         A \cap B = {}
  PROVE  /\ A \cup B \in SUBSET Requests
         /\ Cardinality(A \cup B) = Cardinality(A) + Cardinality(B)
  <1>1. Cardinality(A \cup B)
          = Cardinality(A) + Cardinality(B) - Cardinality(A \cap B)
    BY Sizes, FS_Union
  <1>2. Cardinality(A \cap B) = 0
    BY FS_EmptySet
  <1> QED BY <1>1, <1>2, Sizes

(* Nobody is at two places. *)
LEMMA Places ==
  /\ {Cardinality(Comparing), Cardinality(Uncounted), Cardinality(Locking),
      Cardinality(Requests)} \subseteq Nat
  /\ Cardinality(Comparing) + Cardinality(Uncounted) + Cardinality(Locking)
       <= Cardinality(Requests)
  <1>1. /\ {Comparing, Uncounted, Locking} \subseteq SUBSET Requests
        /\ Comparing \cap Uncounted = {}
        /\ (Comparing \cup Uncounted) \cap Locking = {}
    BY DEF Comparing, Uncounted, Locking
  <1>2. /\ Comparing \cup Uncounted \in SUBSET Requests
        /\ Cardinality(Comparing \cup Uncounted)
             = Cardinality(Comparing) + Cardinality(Uncounted)
    BY <1>1, DisjointSizes
  <1>3. /\ (Comparing \cup Uncounted) \cup Locking \in SUBSET Requests
        /\ Cardinality((Comparing \cup Uncounted) \cup Locking)
             = Cardinality(Comparing \cup Uncounted) + Cardinality(Locking)
    BY <1>1, <1>2, DisjointSizes
  <1>4. Cardinality((Comparing \cup Uncounted) \cup Locking) <= Cardinality(Requests)
    BY <1>3, Sizes
  <1>5. Requests \in SUBSET Requests
    OBVIOUS
  <1> QED BY <1>1, <1>2, <1>3, <1>4, <1>5, Sizes

-----------------------------------------------------------------------------
(* The bounds are kept. *)

LEMMA OneBound ==
  ASSUME WindowBound, CounterBound', UNCHANGED locked,
         OpenBound => OpenBound', ShutBound => ShutBound'
  PROVE  WindowBound'
  BY Zenon DEF WindowBound

LEMMA Quiet ==
  ASSUME PinTypeOK, WindowBound, faults' \in Nat, faults <= faults',
         UNCHANGED <<Comparing, Uncounted, Locking>>,
         UNCHANGED <<tried, attempts, locked>>
  PROVE  WindowBound'
  <1> USE PinAssumption
      DEF PinTypeOK, CounterBound, OpenBound, ShutBound
  <1>1. CounterBound'
    BY Places DEF WindowBound
  <1>2. OpenBound => OpenBound'
    BY Places
  <1>3. ShutBound => ShutBound'
    BY Places
  <1> QED BY <1>1, <1>2, <1>3, OneBound

LEMMA WindowStep ==
  ASSUME PinTypeOK, PinTypeOK', ClearsUnderLock, WindowBound, [Next]_vars
  PROVE  WindowBound'
  <1> USE PinAssumption
      DEF PinTypeOK, Stages, Goto, Answer, Fault
  <1>1. ASSUME NEW r \in Requests, Begin(r) PROVE WindowBound'
    <2>1. UNCHANGED <<Comparing, Uncounted, Locking>>
      BY <1>1 DEF Begin, Comparing, Uncounted, Locking
    <2>2. UNCHANGED <<tried, attempts, locked>> /\ faults <= faults'
      BY <1>1 DEF Begin, redis, users
    <2> QED BY <2>1, <2>2, Quiet
  <1>2. ASSUME NEW r \in Requests, Unlock(r) PROVE WindowBound'
    <2>1. UNCHANGED <<Comparing, Uncounted, Locking>>
      BY <1>2 DEF Unlock, Comparing, Uncounted, Locking
    <2>2. UNCHANGED <<tried, attempts, locked>> /\ faults <= faults'
      BY <1>2 DEF Unlock, redis, users
    <2> QED BY <2>1, <2>2, Quiet
  <1>3. ASSUME NEW r \in Requests, NoPinNeeded(r) PROVE WindowBound'
    <2>1. UNCHANGED <<Comparing, Uncounted, Locking>>
      BY <1>3 DEF NoPinNeeded, Comparing, Uncounted, Locking
    <2>2. UNCHANGED <<tried, attempts, locked>> /\ faults <= faults'
      BY <1>3 DEF NoPinNeeded, redis, users
    <2> QED BY <2>1, <2>2, Quiet
  <1>4. ASSUME NEW r \in Requests, CheckLock(r) PROVE WindowBound'
    <2>1. CASE locked
      <3>1. UNCHANGED <<Comparing, Uncounted, Locking>>
        BY <1>4, <2>1 DEF CheckLock, Comparing, Uncounted, Locking
      <3>2. UNCHANGED <<tried, attempts, locked, faults>>
        BY <1>4 DEF CheckLock, redis
      <3> QED BY <3>1, <3>2, Quiet
    <2>2. CASE ~locked
      <3>1. UNCHANGED <<Uncounted, Locking>>
        BY <1>4, <2>2 DEF CheckLock, Uncounted, Locking
      <3>2. UNCHANGED <<tried, attempts, locked, faults>>
        BY <1>4 DEF CheckLock, redis
      <3>3. CounterBound'
        BY <3>1, <3>2 DEF WindowBound, CounterBound
      <3>4. OpenBound => OpenBound'
        BY <3>1, <3>2 DEF OpenBound
      <3> QED BY <2>2, <3>2, <3>3, <3>4, Zenon DEF WindowBound
    <2> QED BY <2>1, <2>2
  <1>5. ASSUME NEW r \in Requests, Compare(r) PROVE WindowBound'
    <2>1. CASE pc'[r] = "right"
      <3>0. {Comparing, Uncounted, Locking} \subseteq SUBSET Requests
        BY DEF Comparing, Uncounted, Locking
      <3>1. /\ r \in Comparing /\ Comparing' = Comparing \ {r}
            /\ UNCHANGED <<Uncounted, Locking>>
        BY <1>5, <2>1 DEF Compare, Comparing, Uncounted, Locking
      <3>2. /\ Cardinality(Comparing)' = Cardinality(Comparing) - 1
            /\ Cardinality(Uncounted)' = Cardinality(Uncounted)
            /\ Cardinality(Locking)' = Cardinality(Locking)
        BY <3>1, Joins, Leaves, <3>0
      <3>3. UNCHANGED <<tried, attempts, faults, locked>>
        BY <1>5, <2>1 DEF Compare, redis, users
      <3>4. CounterBound'
        BY <3>2, <3>3, Places DEF WindowBound, CounterBound
      <3>5. OpenBound => OpenBound'
        BY <3>2, <3>3, Places DEF OpenBound
      <3>6. ShutBound => ShutBound'
        BY <3>2, <3>3, Places DEF ShutBound
      <3> QED BY <3>3, <3>4, <3>5, <3>6, OneBound
    <2>2. CASE pc'[r] = "wrong"
      <3>0. {Comparing, Uncounted, Locking} \subseteq SUBSET Requests
        BY DEF Comparing, Uncounted, Locking
      <3>1. /\ r \in Comparing /\ Comparing' = Comparing \ {r}
            /\ r \notin Uncounted /\ Uncounted' = Uncounted \cup {r}
            /\ UNCHANGED Locking
        BY <1>5, <2>2 DEF Compare, Comparing, Uncounted, Locking
      <3>2. /\ Cardinality(Comparing)' = Cardinality(Comparing) - 1
            /\ Cardinality(Uncounted)' = Cardinality(Uncounted) + 1
            /\ Cardinality(Locking)' = Cardinality(Locking)
        BY <3>1, Joins, Leaves, <3>0
      <3>3. /\ tried' = tried + 1
            /\ UNCHANGED <<attempts, faults, locked>>
        BY <1>5, <2>2 DEF Compare, redis, users
      <3>4. CounterBound'
        BY <3>2, <3>3, Places DEF WindowBound, CounterBound
      <3>5. OpenBound => OpenBound'
        BY <3>2, <3>3, Places DEF OpenBound
      <3>6. ShutBound => ShutBound'
        BY <3>2, <3>3, Places DEF ShutBound
      <3> QED BY <3>3, <3>4, <3>5, <3>6, OneBound
    <2> QED BY <1>5, <2>1, <2>2 DEF Compare
  <1>6. ASSUME NEW r \in Requests, Succeed(r) PROVE WindowBound'
    <2>0. {Comparing, Uncounted, Locking} \subseteq SUBSET Requests
      BY DEF Comparing, Uncounted, Locking
    <2>1. UNCHANGED <<Comparing, Uncounted, Locking>>
      BY <1>6 DEF Succeed, Comparing, Uncounted, Locking
    <2>2. /\ Cardinality(Comparing)' = Cardinality(Comparing)
          /\ Cardinality(Uncounted)' = Cardinality(Uncounted)
          /\ Cardinality(Locking)' = Cardinality(Locking)
      BY <2>1, Joins, Leaves, <2>0
    <2>3. /\ tried' = 0 /\ attempts' = 0
          /\ UNCHANGED <<faults, locked>>
      BY <1>6 DEF Succeed, redis, users
    <2>4. CounterBound'
      BY <2>2, <2>3, Places DEF WindowBound, CounterBound
    <2>5. OpenBound => OpenBound'
      BY <2>2, <2>3, Places DEF OpenBound
    <2>6. ShutBound => ShutBound'
      BY <2>2, <2>3, Places DEF ShutBound
    <2> QED BY <2>3, <2>4, <2>5, <2>6, OneBound
  <1>7. ASSUME NEW r \in Requests, Count(r) PROVE WindowBound'
    <2>1. CASE attempts' >= Max
      <3>0. {Comparing, Uncounted, Locking} \subseteq SUBSET Requests
        BY DEF Comparing, Uncounted, Locking
      <3>1. /\ r \in Uncounted /\ Uncounted' = Uncounted \ {r}
            /\ r \notin Locking /\ Locking' = Locking \cup {r}
            /\ UNCHANGED Comparing
        BY <1>7, <2>1 DEF Count, Comparing, Uncounted, Locking
      <3>2. /\ Cardinality(Comparing)' = Cardinality(Comparing)
            /\ Cardinality(Uncounted)' = Cardinality(Uncounted) - 1
            /\ Cardinality(Locking)' = Cardinality(Locking) + 1
        BY <3>1, Joins, Leaves, <3>0
      <3>3. /\ attempts' = attempts + 1
            /\ UNCHANGED <<tried, faults, locked>>
        BY <1>7, <2>1 DEF Count, redis, users
      <3>4. CounterBound'
        BY <3>2, <3>3, Places DEF WindowBound, CounterBound
      <3>5. OpenBound => OpenBound'
        BY <3>2, <3>3, Places DEF OpenBound
      <3>6. ShutBound => ShutBound'
        BY <3>2, <3>3, Places DEF ShutBound
      <3> QED BY <3>3, <3>4, <3>5, <3>6, OneBound
    <2>2. CASE attempts' < Max
      <3>0. {Comparing, Uncounted, Locking} \subseteq SUBSET Requests
        BY DEF Comparing, Uncounted, Locking
      <3>1. /\ r \in Uncounted /\ Uncounted' = Uncounted \ {r}
            /\ UNCHANGED <<Comparing, Locking>>
        BY <1>7, <2>2 DEF Count, Comparing, Uncounted, Locking
      <3>2. /\ Cardinality(Comparing)' = Cardinality(Comparing)
            /\ Cardinality(Uncounted)' = Cardinality(Uncounted) - 1
            /\ Cardinality(Locking)' = Cardinality(Locking)
        BY <3>1, Joins, Leaves, <3>0
      <3>3. /\ attempts' = attempts + 1 /\ attempts' < Max
            /\ UNCHANGED <<tried, faults, locked>>
        BY <1>7, <2>2 DEF Count, redis, users
      <3>4. CounterBound'
        BY <3>2, <3>3, Places DEF WindowBound, CounterBound
      <3>5. OpenBound => OpenBound'
        BY <3>2, <3>3, Places DEF OpenBound
      <3>6. ShutBound => ShutBound'
        BY <3>2, <3>3, Places DEF ShutBound
      <3> QED BY <3>3, <3>4, <3>5, <3>6, OneBound
    <2> QED BY <2>1, <2>2
  <1>8. ASSUME NEW r \in Requests, Arm(r) PROVE WindowBound'
    <2>0. {Comparing, Uncounted, Locking} \subseteq SUBSET Requests
      BY DEF Comparing, Uncounted, Locking
    <2>1. UNCHANGED <<Comparing, Uncounted, Locking>>
      BY <1>8 DEF Arm, Comparing, Uncounted, Locking
    <2>2. /\ Cardinality(Comparing)' = Cardinality(Comparing)
          /\ Cardinality(Uncounted)' = Cardinality(Uncounted)
          /\ Cardinality(Locking)' = Cardinality(Locking)
      BY <2>1, Joins, Leaves, <2>0
    <2>3. UNCHANGED <<tried, attempts, faults, locked>>
      BY <1>8 DEF Arm, redis, users
    <2>4. CounterBound'
      BY <2>2, <2>3, Places DEF WindowBound, CounterBound
    <2>5. OpenBound => OpenBound'
      BY <2>2, <2>3, Places DEF OpenBound
    <2>6. ShutBound => ShutBound'
      BY <2>2, <2>3, Places DEF ShutBound
    <2> QED BY <2>3, <2>4, <2>5, <2>6, OneBound
  <1>9. ASSUME NEW r \in Requests, SetLock(r) PROVE WindowBound'
    <2>0. {Comparing, Uncounted, Locking} \subseteq SUBSET Requests
      BY DEF Comparing, Uncounted, Locking
    <2>1. UNCHANGED <<Comparing, Uncounted, Locking>>
      BY <1>9 DEF SetLock, Comparing, Uncounted, Locking
    <2>2. /\ Cardinality(Comparing)' = Cardinality(Comparing)
          /\ Cardinality(Uncounted)' = Cardinality(Uncounted)
          /\ Cardinality(Locking)' = Cardinality(Locking)
      BY <2>1, Joins, Leaves, <2>0
    <2>3. /\ UNCHANGED <<tried, attempts, faults>>
          /\ locked' = TRUE
      BY <1>9 DEF SetLock, redis, users
    <2>4. CounterBound'
      BY <2>2, <2>3, Places DEF WindowBound, CounterBound
    <2>5. OpenBound => ShutBound'
      BY <2>2, <2>3, Places DEF OpenBound, ShutBound
    <2>6. ShutBound => ShutBound'
      BY <2>2, <2>3, Places DEF ShutBound
    <2> QED BY <2>3, <2>4, <2>5, <2>6, Zenon DEF WindowBound
  <1>10. ASSUME NEW r \in Requests, Clear(r) PROVE WindowBound'
    <2>0. {Comparing, Uncounted, Locking} \subseteq SUBSET Requests
      BY DEF Comparing, Uncounted, Locking
    <2>1. /\ r \in Locking /\ Locking' = Locking \ {r}
          /\ UNCHANGED <<Comparing, Uncounted>>
      BY <1>10 DEF Clear, Comparing, Uncounted, Locking
    <2>2. /\ Cardinality(Comparing)' = Cardinality(Comparing)
          /\ Cardinality(Uncounted)' = Cardinality(Uncounted)
          /\ Cardinality(Locking)' = Cardinality(Locking) - 1
          /\ Cardinality(Locking)' \in Nat
      BY <2>1, Joins, Leaves, Sizes, <2>0
    <2>3. /\ attempts' = 0
          /\ UNCHANGED <<tried, faults, locked>>
      BY <1>10 DEF Clear, redis, users
    <2>4. CounterBound'
      BY <2>2, <2>3, Places DEF WindowBound, CounterBound
    <2>5. locked
      BY <1>10 DEF Clear, ClearsUnderLock
    <2>6. ShutBound => ShutBound'
      BY <2>2, <2>3, Places DEF ShutBound
    <2> QED BY <2>3, <2>4, <2>5, <2>6, Zenon DEF WindowBound
  <1>11. ASSUME NEW r \in Requests, Mark(r) PROVE WindowBound'
    <2>1. UNCHANGED <<Comparing, Uncounted, Locking>>
      BY <1>11 DEF Mark, Comparing, Uncounted, Locking
    <2>2. UNCHANGED <<tried, attempts, locked>> /\ faults <= faults'
      BY <1>11 DEF Mark, redis, users
    <2> QED BY <2>1, <2>2, Quiet
  <1>12. ASSUME NEW r \in Requests, Abort(r) PROVE WindowBound'
    <2>0. {Comparing, Uncounted, Locking} \subseteq SUBSET Requests
      BY DEF Comparing, Uncounted, Locking
    <2>1. /\ Comparing' = Comparing \ {r}
          /\ Uncounted' = Uncounted \ {r}
          /\ Locking' = Locking \ {r}
      BY <1>12 DEF Abort, Comparing, Uncounted, Locking
    <2>2. /\ r \in Uncounted => r \notin Locking
          /\ r \in Comparing => r \notin Locking
          /\ r \in Comparing => r \notin Uncounted
      BY DEF Comparing, Uncounted, Locking
    <2>3. \A A \in SUBSET Requests :
             r \notin A => Cardinality(A \ {r}) = Cardinality(A)
      BY Sizes, FS_RemoveElement
    <2>4. \A A \in SUBSET Requests :
             r \in A => Cardinality(A \ {r}) = Cardinality(A) - 1
      BY Leaves
    <2>5. faults' = faults + 1 /\ UNCHANGED <<tried, attempts, locked>>
      BY <1>12 DEF Abort, Fault, redis
    <2>6. CounterBound'
      BY <2>0, <2>1, <2>3, <2>4, <2>5, Places DEF WindowBound, CounterBound
    <2>7. OpenBound => OpenBound'
      <3>1. Cardinality(Uncounted)' + 1 >= Cardinality(Uncounted)
        BY <2>0, <2>1, <2>3, <2>4, Places
      <3>2. Cardinality(Uncounted)' + Cardinality(Locking)' + 1
              >= Cardinality(Uncounted) + Cardinality(Locking)
        <4>1. CASE r \in Uncounted
          <5>1. /\ Cardinality(Uncounted)' = Cardinality(Uncounted) - 1
                /\ Cardinality(Locking)' = Cardinality(Locking)
            BY <4>1, <2>0, <2>1, <2>2, <2>3, <2>4
          <5> QED BY <5>1, Places
        <4>2. CASE r \notin Uncounted
          <5>1. /\ Cardinality(Uncounted)' = Cardinality(Uncounted)
                /\ Cardinality(Locking)' + 1 >= Cardinality(Locking)
            BY <4>2, <2>0, <2>1, <2>3, <2>4, Places
          <5>2. {Cardinality(Locking)', Cardinality(Uncounted)'} \subseteq Nat
            BY <2>0, <2>1, Sizes
          <5> QED BY <5>1, <5>2, Places
        <4> QED BY <4>1, <4>2
      <3>3. {Cardinality(Uncounted)', Cardinality(Locking)'} \subseteq Nat
        BY <2>0, <2>1, Sizes
      <3> QED BY <2>5, <3>1, <3>2, <3>3, Places DEF OpenBound
    <2>8. ShutBound => ShutBound'
      BY <2>0, <2>1, <2>3, <2>4, <2>5, Places DEF ShutBound
    <2> QED BY <2>5, <2>6, <2>7, <2>8, OneBound
  <1>13. CASE LockExpires
    <2>0. {Comparing, Uncounted, Locking} \subseteq SUBSET Requests
      BY DEF Comparing, Uncounted, Locking
    <2>1. UNCHANGED <<Comparing, Uncounted, Locking>>
      BY <1>13 DEF LockExpires, Comparing, Uncounted, Locking
    <2>2. /\ Cardinality(Comparing)' = Cardinality(Comparing)
          /\ Cardinality(Uncounted)' = Cardinality(Uncounted)
          /\ Cardinality(Locking)' = Cardinality(Locking)
      BY <2>1, Joins, Leaves, <2>0
    <2>3. /\ tried' = 0 /\ locked' = FALSE
          /\ UNCHANGED <<attempts, faults>>
      BY <1>13 DEF LockExpires, redis, users
    <2>4. CounterBound'
      BY <2>2, <2>3, Places DEF WindowBound, CounterBound
    <2>5. OpenBound'
      BY <2>2, <2>3, <2>4, Places DEF OpenBound
    <2> QED BY <2>3, <2>4, <2>5, Zenon DEF WindowBound
  <1>14. CASE CounterExpires
    <2>1. UNCHANGED <<Comparing, Uncounted, Locking>>
      BY <1>14 DEF CounterExpires, Comparing, Uncounted, Locking
    <2>2. attempts' = 0 /\ UNCHANGED <<faults, locked>>
      BY <1>14 DEF CounterExpires, users
    <2>3. CounterBound'
      BY <2>1, <2>2, Places DEF WindowBound, CounterBound
    <2>4. CASE locked
      <3>1. tried' = tried
        BY <1>14, <2>4 DEF CounterExpires
      <3>2. ShutBound => ShutBound'
        BY <2>1, <2>2, <3>1 DEF ShutBound
      <3> QED BY <2>2, <2>3, <2>4, <3>2, Zenon DEF WindowBound
    <2>5. CASE ~locked
      <3>1. tried' = 0
        BY <1>14, <2>5 DEF CounterExpires
      <3>2. OpenBound'
        BY <2>1, <2>2, <3>1, Places DEF OpenBound
      <3> QED BY <2>2, <2>3, <2>5, <3>2, Zenon DEF WindowBound
    <2> QED BY <2>4, <2>5
  <1>15. CASE UntilPasses
    <2>1. UNCHANGED <<Comparing, Uncounted, Locking>>
      BY <1>15 DEF UntilPasses, Comparing, Uncounted, Locking
    <2>2. UNCHANGED <<tried, attempts, locked>> /\ faults <= faults'
      BY <1>15 DEF UntilPasses, redis, users
    <2> QED BY <2>1, <2>2, Quiet
  <1>16. CASE UNCHANGED vars
    <2>1. UNCHANGED <<Comparing, Uncounted, Locking>>
      BY <1>16 DEF vars, Comparing, Uncounted, Locking
    <2>2. UNCHANGED <<tried, attempts, locked>> /\ faults <= faults'
      BY <1>16 DEF vars, redis, users
    <2> QED BY <2>1, <2>2, Quiet
  <1> QED
    BY <1>1, <1>2, <1>3, <1>4, <1>5, <1>6, <1>7, <1>8, <1>9, <1>10,
       <1>11, <1>12, <1>13, <1>14, <1>15, <1>16
    DEF Next, Step

-----------------------------------------------------------------------------

LEMMA InitInv == Init => PinInv
  <1> SUFFICES ASSUME Init PROVE PinInv
    OBVIOUS
  <1> USE PinAssumption DEF Init
  <1>1. PinTypeOK
    <2>1. attempts \in Nat /\ tried \in Nat /\ faults \in 0..MaxFaults
      OBVIOUS
    <2>2. ttl \in BOOLEAN /\ locked \in BOOLEAN
      OBVIOUS
    <2> QED BY <2>1, <2>2 DEF PinTypeOK, Stages
  <1>2. CounterHasDeadline /\ LimitSeen /\ BarredStay /\ ClearsUnderLock
    BY DEF CounterHasDeadline, LimitSeen, BarredStay, ClearsUnderLock
  <1>3. CounterBound /\ OpenBound
    BY Places DEF CounterBound, OpenBound
  <1> QED BY <1>1, <1>2, <1>3 DEF PinInv, WindowBound

(* The invariant is inductive. *)
THEOREM PinInvariant == Spec => []PinInv
  <1>1. PinInv /\ [Next]_vars => PinInv'
    BY TypeStep, DeadlineStep, LimitStep, BarredStep, ClearStep, WindowStep
       DEF PinInv
  <1> QED BY <1>1, InitInv, PTL DEF Spec

-----------------------------------------------------------------------------

(* Every variable keeps its type. *)
THEOREM PinTyped == Spec => []PinTypeOK
  <1>1. PinInv => PinTypeOK
    BY DEF PinInv
  <1> QED BY <1>1, PinInvariant, PTL

(* Unless a call failed, the counter of wrong guesses has a TTL or is      *)
(* about to get it.                                                        *)
THEOREM CountersEnd == Spec => []CounterHasDeadline
  <1>1. PinInv => CounterHasDeadline
    BY DEF PinInv
  <1> QED BY <1>1, PinInvariant, PTL

(* Unless a call failed, a counter at the limit leads to the lockout. *)
THEOREM LimitLeadsToLock == Spec => []LimitAlwaysLocks
  <1>1. PinInv => LimitAlwaysLocks
    BY DEF PinInv, LimitSeen, LimitAlwaysLocks
  <1> QED BY <1>1, PinInvariant, PTL

(* Nobody who began under a lockout that stands is told success. *)
THEOREM LockoutHolds == Spec => []LockoutIsEffective
  <1>1. PinInv => LockoutIsEffective
    BY DEF PinInv, BarredStay, LockoutIsEffective
  <1> QED BY <1>1, PinInvariant, PTL

(* One window allows Max wrong guesses, one more for each other request    *)
(* that is past the lockout check and one for each failed call.            *)
THEOREM GuessesBounded == Spec => []GuessBound
  <1>1. ASSUME PinInv PROVE GuessBound
    <2> USE PinAssumption, <1>1 DEF PinInv, PinTypeOK, GuessBound
    <2>1. OpenBound => GuessBound
      BY Places DEF OpenBound
    <2>2. ShutBound => GuessBound
      BY Places DEF ShutBound
    <2> HIDE DEF GuessBound
    <2> QED BY <2>1, <2>2, Zenon DEF WindowBound
  <1> QED BY <1>1, PinInvariant, PTL
=============================================================================
