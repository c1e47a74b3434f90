------------------------------- MODULE Accounts -------------------------------
(***************************************************************************)
(* The account behind one phone number, from the first dial on: the rate   *)
(* limit of the USSD entry, the users row that registration writes in      *)
(* three steps (INSERT, wallet, PIN), the keys that an import replaces and *)
(* the merchant row.                                                       *)
(*                                                                         *)
(* Requests of the phone run concurrently, and none holds a lock between   *)
(* what it reads and what it writes.  Any call may fail, and the answer to *)
(* one that was done may be lost.  The process is built with               *)
(* panic = "abort": an unwrap of an error ends every request.              *)
(*                                                                         *)
(* The PIN check is one step here and a module of its own, PinGuard.       *)
(***************************************************************************)
EXTENDS Naturals

CONSTANTS
    Requests,   \* request slots: the bound on concurrent requests
    Limit,      \* rate_limit_max_per_phone
    Imported,   \* private keys the user may import
    Codes,      \* merchant codes that nobody has
    MaxFaults   \* bound on failed calls

Derived == "derived"    \* the key derived from the master seed and the phone
None == "none"          \* NULL

ASSUME AccountAssumption ==
    /\ Limit \in Nat \ {0}
    /\ MaxFaults \in Nat
    /\ {Derived, None} \cap (Imported \cup Codes) = {}

VARIABLES
    at,         \* where each request is
    held,       \* the key an import read, and then puts second
    hits,       \* rl:phone; all values above Limit + 1 are alike
    deadline,   \* whether that key has a TTL
    row,        \* whether the phone has a users row
    pinSet,     \* whether pin_hash is not NULL
    wallet,     \* encrypted_keypair
    second,     \* secondary_encrypted_keypair
    merchant,   \* the user's merchant_code
    ready,      \* ghost: the user was told that the account is ready
    code,       \* ghost: the merchant code the user was told
    raced,      \* ghost: two registrations were past the look-up at once
    overlapped, \* ghost: two requests were changing keys at once
    aborted,    \* ghost: a panic has ended the process
    faults      \* ghost: failed calls so far

vars == <<at, held, hits, deadline, row, pinSet, wallet, second, merchant,
          ready, code, raced, overlapped, aborted, faults>>
limiter == <<hits, deadline>>
keys == <<wallet, second>>
users == <<row, pinSet, wallet, second>>
ghosts == <<raced, overlapped, aborted>>

Stages == {"idle", "window", "look up", "insert", "wallet", "finish", "set pin",
           "check pin", "read keys", "write keys", "find merchant",
           "insert merchant"}
Keys == {None, Derived} \cup Imported

AccountTypeOK ==
    /\ at \in [Requests -> Stages]
    /\ held \in [Requests -> Keys]
    /\ hits \in 0..Limit + 1
    /\ {deadline, row, pinSet, ready, raced, overlapped, aborted} \subseteq BOOLEAN
    /\ {wallet, second} \subseteq Keys
    /\ {merchant, code} \subseteq Codes \cup {None}
    /\ faults \in 0..MaxFaults

Init ==
    /\ at = [r \in Requests |-> "idle"]
    /\ held = [r \in Requests |-> None]
    /\ hits = 0 /\ deadline = FALSE
    /\ row = FALSE /\ pinSet = FALSE
    /\ wallet = None /\ second = None /\ merchant = None
    /\ ready = FALSE /\ code = None
    /\ raced = FALSE /\ overlapped = FALSE /\ aborted = FALSE
    /\ faults = 0

Goto(r, from, to) == at[r] = from /\ at' = [at EXCEPT ![r] = to]
Answer(r, from) == Goto(r, from, "idle")
Fault == faults < MaxFaults /\ faults' = faults + 1
Failed == faults > 0

\* A call that fails may have been done all the same.
Maybe(done, variables) == done \/ UNCHANGED variables

\* Another request that is at one of these stages.
Beside(r, stages) == \E q \in Requests \ {r} : at[q] \in stages

(* unwrap of an error. *)
Panic(r) ==
    /\ at[r] = "insert"
    /\ at' = [q \in Requests |-> "idle"]
    /\ held' = [q \in Requests |-> None]
    /\ aborted' = TRUE

-----------------------------------------------------------------------------
(* Mutants of the definitions below. *)

WindowOfTheLimited(r) ==
    /\ at[r] = "window"
    /\ deadline' = (hits > Limit)
    /\ Goto(r, "window", "look up")
    /\ UNCHANGED <<held, hits, users, merchant, ready, code, ghosts, faults>>
RegisterAgain(r) ==
    /\ \/ ~pinSet /\ (Answer(r, "look up") \/ Goto(r, "look up", "insert"))
       \/ pinSet /\ \/ Answer(r, "look up")
                    \/ Goto(r, "look up", "check pin")
                    \/ Goto(r, "look up", "find merchant")
    /\ UNCHANGED <<held, limiter, users, merchant, ready, code, ghosts, faults>>
WalletLater(r) ==
    /\ Goto(r, "wallet", "finish")
    /\ UNCHANGED <<held, limiter, users, merchant, ready, code, ghosts, faults>>
SecondKept(r) ==
    /\ Answer(r, "write keys")
    /\ wallet' \in Imported
    /\ second' = IF second = None THEN held[r] ELSE second
    /\ held' = [held EXCEPT ![r] = None]
    /\ UNCHANGED <<limiter, row, pinSet, merchant, ready, code, ghosts, faults>>
-----------------------------------------------------------------------------
(* is_phone_rate_limited. *)

CountHit == hits' = IF hits > Limit THEN hits ELSE hits + 1

(* INCR, and for a new key EXPIRE comes next. *)
Arrive(r) ==
    /\ CountHit
    /\ IF hits' = 1 THEN Goto(r, "idle", "window")
       ELSE IF hits' > Limit THEN Answer(r, "idle")
       ELSE Goto(r, "idle", "look up")
    /\ UNCHANGED <<held, deadline, users, merchant, ready, code, ghosts, faults>>

(* Redis fails: the phone counts as limited. *)
ArriveFails(r) ==
    /\ Fault
    /\ Answer(r, "idle")
    /\ Maybe(CountHit, hits)
    /\ UNCHANGED <<held, deadline, users, merchant, ready, code, ghosts>>

SetWindow(r) ==
    /\ Goto(r, "window", "look up")
    /\ deadline' = TRUE
    /\ UNCHANGED <<held, hits, users, merchant, ready, code, ghosts, faults>>

SetWindowFails(r) ==
    /\ Fault
    /\ Answer(r, "window")
    /\ Maybe(deadline' = TRUE, deadline)
    /\ UNCHANGED <<held, hits, users, merchant, ready, code, ghosts>>

(* Redis drops the key. *)
WindowEnds ==
    /\ deadline
    /\ hits' = 0 /\ deadline' = FALSE
    /\ UNCHANGED <<at, held, users, merchant, ready, code, ghosts, faults>>

-----------------------------------------------------------------------------
(* handle_ussd_request: the row decides on the menu.  The last request of  *)
(* a menu does the work, the others ask their questions.                   *)
LookUp(r) ==
    /\ \/ Answer(r, "look up")
       \/ ~row /\ Goto(r, "look up", "insert")
       \/ row /\ ~pinSet /\ Goto(r, "look up", "set pin")
       \/ row /\ pinSet /\ \/ Goto(r, "look up", "check pin")
                           \/ Goto(r, "look up", "find merchant")
    /\ UNCHANGED <<held, limiter, users, merchant, ready, code, ghosts, faults>>

(* A query that fails looks like a phone that is not registered. *)
LookUpFails(r) ==
    /\ Fault
    /\ Goto(r, "look up", "insert")
    /\ UNCHANGED <<held, limiter, users, merchant, ready, code, ghosts>>

-----------------------------------------------------------------------------
(* handle_registration. *)

(* INSERT INTO users: the phone number is unique, and the result unwrapped. *)
Insert(r) ==
    /\ \/ ~row /\ Goto(r, "insert", "wallet") /\ UNCHANGED <<held, aborted>>
       \/ row /\ Panic(r)
    /\ row' = TRUE
    /\ raced' = IF Beside(r, {"insert"}) THEN TRUE ELSE raced
    /\ UNCHANGED <<limiter, pinSet, keys, merchant, ready, code,
                   overlapped, faults>>

InsertFails(r) ==
    /\ Fault
    /\ Panic(r)
    /\ Maybe(row' = TRUE, row)
    /\ UNCHANGED <<limiter, pinSet, keys, merchant, ready, code, raced,
                   overlapped>>

(* create_wallet: token accounts on the chain, then the UPDATE. *)
CreateWallet(r) ==
    /\ Goto(r, "wallet", "finish")
    /\ wallet' = Derived
    /\ overlapped' = IF Beside(r, {"read keys", "write keys"}) THEN TRUE ELSE overlapped
    /\ UNCHANGED <<held, limiter, row, pinSet, second, merchant, ready, code,
                   raced, aborted, faults>>

CreateWalletFails(r) ==
    /\ Fault
    /\ Answer(r, "wallet")
    /\ Maybe(wallet' = Derived, wallet)
    /\ overlapped' = IF Beside(r, {"read keys", "write keys"}) THEN TRUE ELSE overlapped
    /\ UNCHANGED <<held, limiter, row, pinSet, second, merchant, ready, code,
                   raced, aborted>>

(* set_user_pin, at the end of the registration or of handle_pin_setup, *)
(* which a row without a PIN leads to.                                  *)
SetUserPin(r) ==
    /\ Answer(r, "finish") \/ Answer(r, "set pin")
    /\ pinSet' = TRUE
    /\ ready' = IF at[r] = "finish" THEN TRUE ELSE ready
    /\ UNCHANGED <<held, limiter, row, keys, merchant, code, ghosts, faults>>

SetUserPinFails(r) ==
    /\ Fault
    /\ Answer(r, "finish") \/ Answer(r, "set pin")
    /\ Maybe(pinSet' = TRUE, pinSet)
    /\ UNCHANGED <<held, limiter, row, keys, merchant, ready, code, ghosts>>

-----------------------------------------------------------------------------
(* My Account, "Import private key". *)

(* verify_pin_or_fail. *)
VerifyPin(r) ==
    /\ Answer(r, "check pin") \/ Goto(r, "check pin", "read keys")
    /\ UNCHANGED <<held, limiter, users, merchant, ready, code, ghosts, faults>>

(* import_private_key: the keys are read, the new one gets its token        *)
(* accounts on the chain, and the one that was read becomes the second.     *)
ReadKeys(r) ==
    /\ Goto(r, "read keys", "write keys")
    /\ held' = [held EXCEPT ![r] = wallet]
    /\ overlapped' = IF Beside(r, {"wallet", "write keys"}) THEN TRUE ELSE overlapped
    /\ UNCHANGED <<limiter, users, merchant, ready, code, raced, aborted, faults>>

WriteKeys(r) ==
    /\ Answer(r, "write keys")
    /\ wallet' \in Imported
    /\ second' = held[r]
    /\ held' = [held EXCEPT ![r] = None]
    /\ UNCHANGED <<limiter, row, pinSet, merchant, ready, code, ghosts, faults>>

ImportFails(r) ==
    /\ Fault
    /\ Answer(r, "check pin") \/ Answer(r, "read keys") \/ Answer(r, "write keys")
    /\ Maybe(at[r] = "write keys" /\ wallet' \in Imported /\ second' = held[r], keys)
    /\ held' = [held EXCEPT ![r] = None]
    /\ UNCHANGED <<limiter, row, pinSet, merchant, ready, code, ghosts>>

-----------------------------------------------------------------------------
(* "Register as Merchant". *)

(* get_merchant_by_user_id, and the questions. *)
FindMerchant(r) ==
    /\ \/ Answer(r, "find merchant")
       \/ merchant = None /\ Goto(r, "find merchant", "insert merchant")
    /\ UNCHANGED <<held, limiter, users, merchant, ready, code, ghosts, faults>>

(* A query that fails looks like a user who is no merchant. *)
FindMerchantFails(r) ==
    /\ Fault
    /\ Goto(r, "find merchant", "insert merchant")
    /\ UNCHANGED <<held, limiter, users, merchant, ready, code, ghosts>>

(* register_merchant: user_id is unique. *)
InsertMerchant(r) ==
    /\ Answer(r, "insert merchant")
    /\ IF merchant = None
       THEN merchant' \in Codes /\ code' = merchant'
       ELSE UNCHANGED <<merchant, code>>
    /\ UNCHANGED <<held, limiter, users, ready, ghosts, faults>>

InsertMerchantFails(r) ==
    /\ Fault
    /\ Answer(r, "insert merchant")
    /\ Maybe(merchant = None /\ merchant' \in Codes, merchant)
    /\ UNCHANGED <<held, limiter, users, ready, code, ghosts>>

-----------------------------------------------------------------------------

Step(r) ==
    \/ SetWindow(r) \/ LookUp(r) \/ Insert(r) \/ CreateWallet(r) \/ SetUserPin(r)
    \/ VerifyPin(r) \/ ReadKeys(r) \/ WriteKeys(r) \/ FindMerchant(r)
    \/ InsertMerchant(r)

StepFails(r) ==
    \/ ArriveFails(r) \/ SetWindowFails(r) \/ LookUpFails(r) \/ InsertFails(r)
    \/ CreateWalletFails(r) \/ SetUserPinFails(r) \/ ImportFails(r)
    \/ FindMerchantFails(r) \/ InsertMerchantFails(r)

Next ==
    \/ \E r \in Requests : Arrive(r) \/ Step(r) \/ StepFails(r)
    \/ WindowEnds

Spec == Init /\ [][Next]_vars

(* A request that began is polled until it ends, and Redis drops a key     *)
(* whose TTL ran out.                                                      *)
FairSpec ==
    /\ Spec
    /\ \A r \in Requests : WF_vars(Step(r))
    /\ WF_vars(WindowEnds)

-----------------------------------------------------------------------------
(* Properties. *)

(* What the user was told stays so: an account that is "ready" has a wallet *)
(* and a PIN, a merchant code that was announced belongs to the user.  And  *)
(* the menus behind the PIN are entered with a wallet, or it is still being *)
(* created - unless a call failed: no later dial creates it then.           *)
AnswersHold ==
    /\ ready => pinSet /\ wallet # None
    /\ code # None => merchant = code
    /\ pinSet => \/ wallet # None
                 \/ \E r \in Requests : at[r] = "wallet"
                 \/ Failed \/ aborted

(* A key that is replaced is kept as the second one, unless two requests    *)
(* changed keys at once: none gets lost in a single import.                 *)
OldKeyIsKept ==
    [][wallet' # wallet /\ wallet # None => second' = wallet \/ overlapped]_vars

(* The process, and with it everyone's requests, only dies when a call      *)
(* failed or two registrations of the phone were on their way together.     *)
DiesOnlyByRace == aborted => Failed \/ raced

(* A phone that is limited is let in again, unless a call failed or the     *)
(* process died between INCR and EXPIRE.                                    *)
LimitEnds == hits > Limit ~> (hits <= Limit \/ Failed \/ aborted)
=============================================================================
