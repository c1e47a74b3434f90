------------------------------- MODULE RampFlow -------------------------------
(***************************************************************************)
(* The PAJ ramp menus: one user's USSD sessions that buy (onramp) or sell  *)
(* (offramp) a token.  A session's requests carry all its inputs so far,   *)
(* but what they have agreed on is kept in Redis, under a key that names   *)
(* the user and the direction, not the session.  Each step after the first *)
(* loads that flow, adds its own entry and stores the whole; the last step *)
(* checks the PIN, places the order from the copy it loaded, and deletes   *)
(* the key.                                                                *)
(*                                                                         *)
(* A user may have several sessions; the gateway may repeat a request; the *)
(* flow expires after a while.  An entry stands for what its session typed *)
(* and is stamped with the token pick that the session had made by then:   *)
(* a user who goes back from the token's screen picks a token again.       *)
(***************************************************************************)
EXTENDS Naturals, Sequences, FiniteSets

CONSTANTS
    Sessions,   \* the user's USSD sessions
    Requests,   \* request slots: the bound on concurrent requests
    MaxFlows,   \* bound on flows started
    MaxPicks,   \* bound on the tokens a session picks one after the other
    MaxOrders,  \* bound on orders placed
    MaxTrouble  \* bound on repeated requests, tokens picked anew and failed
                \* Redis calls, together

Directions == {"onramp", "offramp"}

ASSUME RampAssumption ==
    /\ {MaxFlows, MaxPicks, MaxOrders, MaxTrouble} \subseteq Nat
    /\ MaxPicks > 0
    /\ "nobody" \notin Sessions

VARIABLES
    flow,       \* [Directions -> what the Redis key holds]
    flows,      \* how many flows were started
    dir,        \* [Sessions -> the direction the session picked]
    at,         \* [Sessions -> the step of the session's last request]
    pick,       \* [Sessions -> which token pick that request builds on]
    answer,     \* [Sessions -> the first answer to that request]
    req,        \* [Requests -> the request]
    orders,     \* the orders placed
    mixed,      \* ghost: sessions that met another one's store
    gated,      \* ghost: sessions told to verify at PAJ by the first step
    overlapped, \* ghost: sessions with two requests at once
    doubtful,   \* ghost: sessions whose placement returned an error
    repeats,    \* ghost: requests repeated and tokens picked anew so far
    failures    \* ghost: Redis calls that failed so far

rampVars == <<flow, flows, dir, at, pick, answer, req, orders, mixed, gated, overlapped,
              doubtful, repeats, failures>>

(* Who entered it, and after which of its token picks. *)
Entry == [by: Sessions \cup {"nobody"}, pick: 0..MaxPicks]
Nothing == [by |-> "nobody", pick |-> 0]
Flow == [id: 0..MaxFlows, by: Sessions \cup {"nobody"}, pick: 0..MaxPicks,
         bank: Entry, amount: Entry]
NoFlow == [id |-> 0, by |-> "nobody", pick |-> 0, bank |-> Nothing,
           amount |-> Nothing]

(* The menu's steps: inputs.len() 3, 4, 5 and, for an offramp, 6. *)
Menu(d) == IF d = "onramp" THEN <<"token", "amount", "pin">>
                           ELSE <<"token", "bank", "amount", "pin">>
MenuOf(s) == Menu(dir[s])

RampTypeOK ==
    /\ flow \in [Directions -> Flow]
    /\ flows \in 0..MaxFlows
    /\ dir \in [Sessions -> Directions \cup {"none"}]
    /\ at \in [Sessions -> 0..4]
    /\ pick \in [Sessions -> 0..MaxPicks]
    /\ answer \in [Sessions -> {"none", "CON", "END"}]
    /\ req \in [Requests ->
                 [pc: {"idle", "load", "store", "place", "delete"},
                  session: Sessions \cup {"nobody"}, step: 0..4,
                  pick: 0..MaxPicks, copy: Flow]]
    /\ orders \subseteq [n: 1..MaxOrders, by: Sessions, pick: 0..MaxPicks, from: Flow]
    /\ mixed \cup gated \cup overlapped \cup doubtful \subseteq Sessions
    /\ repeats \in 0..MaxTrouble
    /\ failures \in 0..MaxTrouble

NoRequest == [pc |-> "idle", session |-> "nobody", step |-> 0, pick |-> 0,
              copy |-> NoFlow]

RampInit ==
    /\ flow = [d \in Directions |-> NoFlow]
    /\ flows = 0
    /\ dir = [s \in Sessions |-> "none"]
    /\ at = [s \in Sessions |-> 0]
    /\ pick = [s \in Sessions |-> 0]
    /\ answer = [s \in Sessions |-> "CON"]
    /\ req = [q \in Requests |-> NoRequest]
    /\ orders = {}
    /\ mixed = {} /\ gated = {} /\ overlapped = {} /\ doubtful = {}
    /\ repeats = 0
    /\ failures = 0

redis == <<flow, flows>>
sessions == <<dir, at, pick>>
ghosts == <<mixed, gated, overlapped, doubtful, repeats, failures>>

Failure == repeats + failures < MaxTrouble /\ failures' = failures + 1
InFlight(s) == \E q \in Requests : req[q].session = s

-----------------------------------------------------------------------------
(* Mutants of the definitions below. *)

OneKeyForAll(s) == "offramp"
FirstTokenStays(old, s, n) ==
    IF old.by = s THEN [old EXCEPT !.id = flows + 1]
                  ELSE [NoFlow EXCEPT !.id = flows + 1, !.by = s, !.pick = n]
KeyNotDeleted(q) ==
    /\ req[q].pc = "delete"
    /\ req' = [req EXCEPT ![q] = NoRequest]
    /\ answer' = [answer EXCEPT ![req[q].session] = "END"]
    /\ UNCHANGED <<redis, sessions, orders, ghosts>>
WithAmountOfNobody(f, s, n) == [f EXCEPT !.amount = [by |-> "none", pick |-> n]]
-----------------------------------------------------------------------------

(* offramp_flow_key, onramp_flow_key *)
Key(s) == dir[s]

(* The flow that the token step stores over the old one. *)
NewFlow(old, s, n) == [NoFlow EXCEPT !.id = flows + 1, !.by = s, !.pick = n]

WithBank(f, s, n) == [f EXCEPT !.bank = [by |-> s, pick |-> n]]
WithAmount(f, s, n) == [f EXCEPT !.amount = [by |-> s, pick |-> n]]

StepOf(q) == MenuOf(req[q].session)[req[q].step]

(* It ends with an answer.  The user sees the first answer of a step. *)
Ends(q, a) ==
    LET s == req[q].session IN
    /\ req' = [req EXCEPT ![q] = NoRequest]
    /\ answer' = IF at[s] = req[q].step /\ answer[s] = "none"
                 THEN [answer EXCEPT ![s] = a] ELSE answer

-----------------------------------------------------------------------------
(* Requests come in. *)

Arrives(q, s, step) ==
    /\ req[q].pc = "idle"
    /\ req' = [req EXCEPT ![q] =
                 [NoRequest EXCEPT
                    !.pc = IF step = 1 THEN "store" ELSE "load",
                    !.session = s, !.step = step, !.pick = pick'[s]]]
    /\ overlapped' = IF InFlight(s) THEN overlapped \cup {s} ELSE overlapped

(* The user picks a direction in the account menu and then a token. *)
Open(q, s, d) ==
    /\ dir[s] = "none"
    /\ dir' = [dir EXCEPT ![s] = d]
    /\ at' = [at EXCEPT ![s] = 1]
    /\ pick' = [pick EXCEPT ![s] = 1]
    /\ answer' = [answer EXCEPT ![s] = "none"]
    /\ Arrives(q, s, 1)
    /\ UNCHANGED <<redis, orders, mixed, gated, doubtful, repeats, failures>>

PicksAnew(s) ==
    /\ pick[s] < MaxPicks
    /\ pick' = [pick EXCEPT ![s] = @ + 1]
    /\ repeats + failures < MaxTrouble
    /\ repeats' = repeats + 1

(* The user types the next input; "0" takes the last one back, and from    *)
(* the first step leads to its menu, where a token is picked again.        *)
Ask(q, s) ==
    /\ answer[s] = "CON" /\ dir[s] # "none"
    /\ \E step \in {at[s] + 1, IF at[s] = 1 THEN 1 ELSE at[s] - 1}
                    \cap 1..Len(MenuOf(s)) :
          /\ IF at[s] = 1 /\ step = 1 THEN PicksAnew(s)
                                     ELSE UNCHANGED <<pick, repeats>>
          /\ Arrives(q, s, step)
          /\ at' = [at EXCEPT ![s] = step]
    /\ answer' = [answer EXCEPT ![s] = "none"]
    /\ UNCHANGED <<redis, dir, orders, mixed, gated, doubtful, failures>>

(* The gateway sends the last request once more. *)
Repeat(q, s) ==
    /\ at[s] > 0
    /\ repeats + failures < MaxTrouble
    /\ repeats' = repeats + 1
    /\ UNCHANGED sessions
    /\ Arrives(q, s, at[s])
    /\ UNCHANGED <<redis, answer, orders, mixed, gated, doubtful,
                   failures>>

-----------------------------------------------------------------------------
(* The steps. *)

(* SETEX; every other session of that key now has this one's flow. *)
Store(q, f) ==
    LET s == req[q].session IN
    /\ flow' = [flow EXCEPT ![Key(s)] = f]
    /\ mixed' = mixed \cup {t \in Sessions \ {s} :
                             dir[t] = dir[s] /\ at[t] > 0}

(* A new flow; for an offramp the bank accounts were listed at PAJ. *)
StoreToken(q) ==
    /\ req[q].pc = "store" /\ req[q].step = 1
    /\ flows < MaxFlows
    /\ flows' = flows + 1
    /\ Store(q, NewFlow(flow[Key(req[q].session)], req[q].session, req[q].pick))
    /\ Ends(q, "CON")
    /\ UNCHANGED <<sessions, orders, gated, overlapped, doubtful, repeats, failures>>

(* What the step wants to find in the flow: a bank after the bank step, an *)
(* amount after the amount step.                                           *)
Complete(q, f) ==
    /\ f # NoFlow
    /\ StepOf(q) \in {"amount", "pin"} /\ dir[req[q].session] = "offramp"
          => f.bank # Nothing
    /\ StepOf(q) = "pin" => f.amount # Nothing

(* redis_load_json. *)
Load(q) ==
    LET f == flow[Key(req[q].session)] IN
    /\ req[q].pc = "load"
    /\ Complete(q, f)
    /\ req' = [req EXCEPT
                 ![q].pc = IF StepOf(q) = "pin" THEN "place" ELSE "store",
                 ![q].copy = f]
    /\ UNCHANGED <<redis, sessions, answer, orders, ghosts>>

LoadFails(q) ==
    /\ req[q].pc = "load"
    /\ ~Complete(q, flow[Key(req[q].session)])
    /\ Ends(q, "END")
    /\ UNCHANGED <<redis, sessions, orders, ghosts>>

(* The loaded flow with the step's entry goes back to Redis. *)
StoreEntry(q) ==
    LET s == req[q].session
        f == req[q].copy
        n == req[q].pick
    IN
    /\ req[q].pc = "store" /\ req[q].step > 1
    /\ Store(q, IF StepOf(q) = "bank" THEN WithBank(f, s, n) ELSE WithAmount(f, s, n))
    /\ Ends(q, "CON")
    /\ UNCHANGED <<flows, sessions, orders, gated, overlapped, doubtful, repeats,
                   failures>>

(* The user has no PAJ session: the answer says how to get one and leaves  *)
(* the session open, although nothing was stored.                          *)
Gate(q) ==
    LET s == req[q].session IN
    /\ \/ req[q].pc = "store" /\ req[q].step = 1 /\ dir[s] = "offramp"
          /\ gated' = gated \cup {s}
       \/ req[q].pc = "place" /\ UNCHANGED gated
    /\ Ends(q, "CON")
    /\ UNCHANGED <<redis, sessions, orders, mixed, overlapped, doubtful, repeats,
                   failures>>

(* An input that is not on the list, a wrong PIN, no banks. *)
Reject(q) ==
    /\ req[q].pc \in {"store", "place"}
    /\ Ends(q, "END")
    /\ UNCHANGED <<redis, sessions, orders, ghosts>>

RedisFails(q) ==
    /\ req[q].pc \in {"load", "store", "delete"}
    /\ Failure
    /\ Ends(q, "END")
    /\ UNCHANGED <<redis, sessions, orders, mixed, gated, overlapped, doubtful,
                   repeats>>

Order(q) ==
    /\ Cardinality(orders) < MaxOrders
    /\ orders' = orders \cup {[n |-> Cardinality(orders) + 1,
                               by |-> req[q].session, pick |-> req[q].pick,
                               from |-> req[q].copy]}

(* The PIN is right and the order goes through. *)
PlaceOrder(q) ==
    /\ req[q].pc = "place"
    /\ req' = [req EXCEPT ![q].pc = "delete"]
    /\ Order(q)
    /\ UNCHANGED <<redis, sessions, answer, ghosts>>

(* An error, which may come after the order was recorded: the flow stays. *)
PlaceFails(q) ==
    /\ req[q].pc = "place"
    /\ Order(q) \/ UNCHANGED orders
    /\ doubtful' = doubtful \cup {req[q].session}
    /\ Ends(q, "END")
    /\ UNCHANGED <<redis, sessions, mixed, gated, overlapped, repeats, failures>>

(* DEL, whatever the key holds by now. *)
Delete(q) ==
    /\ req[q].pc = "delete"
    /\ flow' = [flow EXCEPT ![Key(req[q].session)] = NoFlow]
    /\ Ends(q, "END")
    /\ UNCHANGED <<flows, sessions, orders, ghosts>>

(* The 15 minutes of the key run out. *)
Expire(d) ==
    /\ flow[d] # NoFlow
    /\ flow' = [flow EXCEPT ![d] = NoFlow]
    /\ UNCHANGED <<flows, sessions, answer, req, orders, ghosts>>

Step(q) ==
    \/ StoreToken(q) \/ Load(q) \/ LoadFails(q) \/ StoreEntry(q) \/ Gate(q)
    \/ Reject(q) \/ RedisFails(q) \/ PlaceOrder(q) \/ PlaceFails(q) \/ Delete(q)

RampNext ==
    \/ \E q \in Requests :
          \/ \E s \in Sessions : Ask(q, s) \/ Repeat(q, s)
          \/ \E s \in Sessions, d \in Directions : Open(q, s, d)
          \/ Step(q)
    \/ \E d \in Directions : Expire(d)

RampSpec == RampInit /\ [][RampNext]_rampVars

-----------------------------------------------------------------------------
(* Properties. *)

(* An order's token is the one its session had picked last when it gave    *)
(* the PIN, and its bank and amount were entered after that pick: a user   *)
(* who went back and picked again does not sell the first token, nor the   *)
(* new one for an old amount.  The session's own concurrent requests,      *)
(* another session's store, or a first step turned away may break this.    *)
OrderIsWhole == \A o \in orders :
    \/ o.by \in mixed \cup gated \cup overlapped
    \/ /\ o.from.pick = o.pick
       /\ o.from.amount.pick = o.pick
       /\ dir[o.by] = "offramp" => o.from.bank.pick = o.pick

(* What a session confirms with the PIN is what it entered itself, unless  *)
(* another session of the user in the same direction stored its own        *)
(* entries meanwhile, or its own first step was turned away and it went on *)
(* with what an earlier session had left.                                  *)
OrderIsOwn == \A o \in orders :
    \/ o.by \in mixed \cup gated
    \/ /\ o.from.by = o.by
       /\ o.from.amount.by = o.by
       /\ dir[o.by] = "offramp" => o.from.bank.by = o.by

(* A flow leads to one order, also when the gateway repeats the last       *)
(* request after its answer.  Only concurrent requests, a placement that   *)
(* failed half way or a failed Redis call can make it two.                 *)
OneOrderPerFlow == \A o, p \in orders :
    o.from.id = p.from.id /\ o # p =>
        \/ o.by \in mixed \cup gated \cup overlapped \cup doubtful
        \/ p.by \in mixed \cup gated \cup overlapped \cup doubtful
        \/ failures > 0
=============================================================================
