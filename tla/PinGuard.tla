------------------------------- MODULE PinGuard -------------------------------
(***************************************************************************)
(* The PIN guard of one user: verify_pin, its attempt counter and lockout  *)
(* key in Redis, and the LOCKED status in Postgres that                    *)
(* handle_ussd_request reads first.                                        *)
(*                                                                         *)
(* Requests of the user run concurrently, each a sequence of separate      *)
(* Redis and Postgres calls with the PIN hash computed in between.  Any    *)
(* call may fail and end the request where it stands.                      *)
(*                                                                         *)
(* Time: a key with a TTL goes away at some moment, but not before the     *)
(* requests that were running when the TTL was set have ended: lockouts    *)
(* last minutes, requests seconds.                                         *)
(***************************************************************************)
EXTENDS Naturals, FiniteSets

CONSTANTS
    Requests,   \* request slots: the bound on concurrent requests
    Max,        \* max_pin_attempts
    MaxFaults   \* bound on failed calls

ASSUME PinAssumption ==
    /\ IsFiniteSet(Requests)
    /\ Max \in Nat \ {0}
    /\ MaxFaults \in Nat

VARIABLES
    pc,         \* where each request is
    got,        \* what INCR returned to it
    result,     \* what the last request of the slot was told
    attempts,   \* pin:attempts, 0 when the key is absent
    ttl,        \* whether that key has a TTL
    locked,     \* whether pin:lockout is set (it always has a TTL)
    status,     \* users.status
    until,      \* users.locked_until, seen from now
    lockAge,    \* requests still running since the lockout key was set
    counterAge, \* requests still running since the counter's TTL was set
    barred,     \* ghost: requests that began under the lockout that stands
    tried,      \* ghost: wrong guesses compared in this window
    faults      \* ghost: failed calls so far

vars == <<pc, got, result, attempts, ttl, locked, status, until, lockAge,
          counterAge, barred, tried, faults>>
redis == <<attempts, ttl, locked>>
users == <<status, until>>

Stages == {"idle", "unlock", "check", "compare", "right", "wrong", "arm",
           "lock", "clear", "mark"}

PinTypeOK ==
    /\ pc \in [Requests -> Stages]
    /\ got \in [Requests -> Nat]
    /\ result \in [Requests -> {"none", "success", "wrong", "locked", "error"}]
    /\ attempts \in Nat
    /\ ttl \in BOOLEAN /\ locked \in BOOLEAN
    /\ status \in {"ACTIVE", "LOCKED"}
    /\ until \in {"null", "future", "past"}
    /\ lockAge \subseteq Requests /\ counterAge \subseteq Requests
    /\ barred \subseteq Requests
    /\ tried \in Nat
    /\ faults \in 0..MaxFaults

Init ==
    /\ pc = [r \in Requests |-> "idle"]
    /\ got = [r \in Requests |-> 0]
    /\ result = [r \in Requests |-> "none"]
    /\ attempts = 0 /\ ttl = FALSE /\ locked = FALSE
    /\ status = "ACTIVE" /\ until = "null"
    /\ lockAge = {} /\ counterAge = {} /\ barred = {}
    /\ tried = 0 /\ faults = 0

Fault == faults < MaxFaults /\ faults' = faults + 1

Goto(r, from, to) ==
    /\ pc[r] = from
    /\ pc' = [pc EXCEPT ![r] = to]
    /\ UNCHANGED result
Answer(r, from, what) ==
    /\ pc[r] = from
    /\ pc' = [pc EXCEPT ![r] = "idle"]
    /\ result' = [result EXCEPT ![r] = what]

\* A request that ends no longer holds back a TTL; setting one starts anew.
StillRunning == {r \in Requests : pc'[r] # "idle"}
Ages(setsLock, setsCounter) ==
    /\ lockAge' = IF setsLock THEN StillRunning ELSE lockAge \cap StillRunning
    /\ counterAge' = IF setsCounter THEN StillRunning
                                    ELSE counterAge \cap StillRunning
NoTtlSet == Ages(FALSE, FALSE)

-----------------------------------------------------------------------------
(* handle_ussd_request, up to the menu. *)

(* The row is read.  A lock that has not run out ends the request. *)
Begin(r) ==
    /\ pc[r] = "idle"
    /\ barred' = IF locked THEN barred \cup {r} ELSE barred \ {r}
    /\ \/ /\ status = "LOCKED" /\ until = "future"
          /\ Answer(r, "idle", "locked")
       \/ /\ status = "LOCKED" /\ until # "future"
          /\ Goto(r, "idle", "unlock")
       \/ /\ status # "LOCKED"
          /\ Goto(r, "idle", "check")
    /\ NoTtlSet
    /\ UNCHANGED <<got, redis, users, tried, faults>>

(* The row is set ACTIVE whatever it holds by now; an error is ignored. *)
Unlock(r) ==
    /\ Goto(r, "unlock", "check")
    /\ \/ status' = "ACTIVE" /\ until' = "null" /\ UNCHANGED faults
       \/ Fault /\ UNCHANGED users
    /\ NoTtlSet
    /\ UNCHANGED <<got, redis, barred, tried>>

(* The menu asks for no PIN this time. *)
NoPinNeeded(r) ==
    /\ Answer(r, "check", "none")
    /\ NoTtlSet
    /\ UNCHANGED <<got, redis, users, barred, tried, faults>>

-----------------------------------------------------------------------------
(* Mutants of verify_pin. *)

LockoutNotRead(r) ==
    /\ Goto(r, "check", "compare")
    /\ NoTtlSet
    /\ UNCHANGED <<got, redis, users, barred, tried, faults>>
LockOneLate(r) ==
    /\ IF got[r] > Max THEN Goto(r, "arm", "lock") ELSE Answer(r, "arm", "wrong")
    /\ ttl' = (attempts > 0)
    /\ Ages(FALSE, TRUE)
    /\ UNCHANGED <<got, attempts, locked, users, barred, tried, faults>>
ArmOnlyWhenLocking(r) ==
    /\ IF got[r] >= Max THEN Goto(r, "arm", "lock")
                        ELSE Answer(r, "arm", "wrong")
    /\ ttl' = (got[r] >= Max /\ attempts > 0)
    /\ Ages(FALSE, TRUE)
    /\ UNCHANGED <<got, attempts, locked, users, barred, tried, faults>>
-----------------------------------------------------------------------------
(* verify_pin. *)

(* GET pin:lockout. *)
CheckLock(r) ==
    /\ \/ locked /\ Answer(r, "check", "locked")
       \/ ~locked /\ Goto(r, "check", "compare")
    /\ NoTtlSet
    /\ UNCHANGED <<got, redis, users, barred, tried, faults>>

(* The hash is read and compared on a blocking thread. *)
Compare(r) ==
    /\ \/ Goto(r, "compare", "right") /\ UNCHANGED tried
       \/ Goto(r, "compare", "wrong") /\ tried' = tried + 1
    /\ NoTtlSet
    /\ UNCHANGED <<got, redis, users, barred, faults>>

(* DEL pin:attempts; the PIN is accepted. *)
Succeed(r) ==
    /\ Answer(r, "right", "success")
    /\ attempts' = 0 /\ ttl' = FALSE
    /\ tried' = 0
    /\ NoTtlSet
    /\ UNCHANGED <<got, locked, users, barred, faults>>

(* INCR pin:attempts: a new key has no TTL. *)
Count(r) ==
    /\ Goto(r, "wrong", "arm")
    /\ attempts' = attempts + 1
    /\ got' = [got EXCEPT ![r] = attempts']
    /\ NoTtlSet
    /\ UNCHANGED <<ttl, locked, users, barred, tried, faults>>

(* EXPIRE pin:attempts, which does nothing to an absent key; then the      *)
(* branch on what INCR returned.                                           *)
Arm(r) ==
    /\ IF got[r] >= Max THEN Goto(r, "arm", "lock")
                        ELSE Answer(r, "arm", "wrong")
    /\ ttl' = (attempts > 0)
    /\ Ages(FALSE, TRUE)
    /\ UNCHANGED <<got, attempts, locked, users, barred, tried, faults>>

(* SET_EX pin:lockout. *)
SetLock(r) ==
    /\ Goto(r, "lock", "clear")
    /\ locked' = TRUE
    /\ Ages(TRUE, FALSE)
    /\ UNCHANGED <<got, attempts, ttl, users, barred, tried, faults>>

(* DEL pin:attempts after locking. *)
Clear(r) ==
    /\ Goto(r, "clear", "mark")
    /\ attempts' = 0 /\ ttl' = FALSE
    /\ NoTtlSet
    /\ UNCHANGED <<got, locked, users, barred, tried, faults>>

(* The users row is LOCKED; an error is ignored. *)
Mark(r) ==
    /\ Answer(r, "mark", "locked")
    /\ \/ status' = "LOCKED" /\ until' = "future" /\ UNCHANGED faults
       \/ Fault /\ UNCHANGED users
    /\ NoTtlSet
    /\ UNCHANGED <<got, redis, barred, tried>>

(* A Redis or Postgres error, or the process dies: the request ends. *)
Abort(r) ==
    /\ Fault
    /\ \E s \in Stages \ {"idle"} : Answer(r, s, "error")
    /\ NoTtlSet
    /\ UNCHANGED <<got, redis, users, barred, tried>>

-----------------------------------------------------------------------------
(* Time. *)

LockExpires ==
    /\ locked /\ lockAge = {}
    /\ locked' = FALSE
    /\ barred' = {}
    /\ tried' = 0
    /\ UNCHANGED <<pc, got, result, attempts, ttl, users, lockAge, counterAge,
                   faults>>

CounterExpires ==
    /\ ttl /\ counterAge = {}
    /\ attempts' = 0 /\ ttl' = FALSE
    /\ tried' = IF locked THEN tried ELSE 0
    /\ UNCHANGED <<pc, got, result, locked, users, lockAge, counterAge, barred,
                   faults>>

UntilPasses ==
    /\ until = "future"
    /\ until' = "past"
    /\ UNCHANGED <<pc, got, result, redis, status, lockAge, counterAge, barred,
                   tried, faults>>

Step(r) ==
    \/ Unlock(r) \/ NoPinNeeded(r) \/ CheckLock(r) \/ Compare(r) \/ Succeed(r)
    \/ Count(r) \/ Arm(r) \/ SetLock(r) \/ Clear(r) \/ Mark(r)

Next ==
    \/ \E r \in Requests : Begin(r) \/ Step(r) \/ Abort(r)
    \/ LockExpires \/ CounterExpires \/ UntilPasses

Spec == Init /\ [][Next]_vars

(* A request that began is polled until it ends, and Redis drops a key     *)
(* whose TTL ran out.                                                      *)
FairSpec ==
    /\ Spec
    /\ \A r \in Requests : WF_vars(Step(r))
    /\ WF_vars(LockExpires)

-----------------------------------------------------------------------------
(* Properties. *)

(* In one window (from a success, or from the end of a lockout or of the   *)
(* counter's TTL) a guesser compares at most Max wrong PINs, plus one for  *)
(* each other request that was already past the lockout check, plus one    *)
(* for each call that failed.                                              *)
GuessBound == tried + 1 <= Max + Cardinality(Requests) + faults

(* No request that began while the lockout key was set is ever told        *)
(* success under that lockout, not even after a stale request set the      *)
(* users row ACTIVE again, or the LOCKED write was lost.                   *)
LockoutIsEffective == \A r \in barred : result[r] # "success" \/ pc[r] # "idle"

(* A counter at the limit always has a request on its way to the lockout,  *)
(* unless a call failed: no interleaving of INCR and DEL lets it pass.     *)
LimitAlwaysLocks ==
    attempts >= Max /\ faults = 0 =>
        \E r \in Requests : pc[r] \in {"arm", "lock", "clear"}

(* Unless a call failed, old wrong guesses are forgotten some day: the     *)
(* counter has a TTL, or the request that counted is about to set it.      *)
CounterHasDeadline ==
    attempts > 0 /\ faults = 0 =>
        ttl \/ \E r \in Requests : pc[r] = "arm"

(* A locked-out user gets another chance, however many requests go on      *)
(* coming in meanwhile.                                                    *)
LockoutEnds == locked ~> ~locked
=============================================================================
