# Payce Standard: a TLA+ verification development

Payce Standard is a USSD payment server: Africa's Talking calls it with what a
phone user typed, and it moves stablecoins on Solana, pays bills through
Airbills, and buys and sells tokens through PAJ. It runs on actix-web with
Postgres (through a deadpool connection pool) and Redis. This directory models
its concurrent and failure-prone parts in TLA+, checks the models with TLC, and
proves the most important properties with TLAPS.

Source paths below are relative to the repository root; `PROJECT.json` maps
every definition to the lines it models.

## 1. Inventory

| Component | State it keeps | Operations | Hard part |
|---|---|---|---|
| Unified activity ledger (`src/services/user_activity.rs`, migrations 006, 007) | `user_activity` rows | `log_user_activity` (upsert), `patch_user_activity_by_ref` (update), each a spawned task | tasks run in any order after the handler went on, a patch may come before the row, a crash loses tasks |
| PAJ orders (`paj_orders.rs`, `paj_ramp_place.rs`, `paj_notify.rs`, `routes/paj.rs`) | `paj_orders`, `paj_order_events` | place an onramp or offramp order, webhook, notice | webhooks early, late, twice, contradictory; an order, a row and a deposit that fail separately |
| Utility bills (`utility_bill.rs`, `airbills.rs`) | `utility_bill_orders` | five `purchase_*` functions over `sign_send_process` | three status writes around two external calls |
| Transfers and the daily limit (`transfer.rs`) | `transactions`, and rows of the two above | `transfer_p2p`, `transfer_to_address`, `pay_merchant`, `check_daily_limit` | checked before, counted after; three tables |
| PIN guard (`pin.rs`, `ussd_menu/pin_gate.rs`, the unlock in `ussd_menu/mod.rs`) | Redis counter and lockout key, `users.status`, `locked_until` | `verify_pin` | five separate Redis calls and two of Postgres, TTLs |
| Connection pool (`db_pool.rs`) | deadpool clients | every handler's `pool.get().await` | nested gets, no wait timeout |
| PAJ ramp menus (`ussd_menu/paj_ramp_menu.rs`) | one Redis key per user and direction | token, bank, amount and PIN steps | sessions that share the key, repeated requests, expiry |
| Startup migrations (`db.rs`) | `schema_migrations`, the schema | `run_startup_migrations` | two processes at once, a crash between run and record |
| USSD entry and navigation (`routes/ussd.rs`, `ussd_menu/mod.rs`, `nav.rs`) | none: the text of a session is sent whole every time | look-up, dispatch, Back | an answer's meaning depends on everything before it; a failed look-up |
| Onboarding and wallets (`onboarding.rs`, `wallet.rs`, `account.rs`) | `users` | register, set PIN, create, import and export a wallet | separate writes, duplicate phone, a panic that aborts the process |
| PAJ banks and verification (`paj_bank.rs`, `paj_verify.rs`, `paj_session.rs`) | mirror of PAJ's accounts, session token, Redis flows | add, list, remove; request code, verify | PAJ written first, the mirror's error ignored |
| Earn and swap (`defi_earn.rs`, `defi_swap.rs`, `jupiter_*.rs`) | none of its own | deposit, withdraw, swap | positions read anew by every request; fee and deposit are two transactions |
| Utility menus (`utility.rs`, `data_plans.rs`, `utility_catalog.rs`) | a catalogue in Redis per user and menu | airtime, data, electricity, betting, cable | what is in the text and what is in Redis have to agree, through pages, Backs, repeats, expiry |
| Merchants, favourites, send-money menus | `merchants`, `favorite_contacts` | register, save, pick by position | check-then-insert, an index that may be stale |
| Rate limiting (`middleware/rate_limit.rs`) | Redis counters | `is_rate_limited` | INCR without its EXPIRE |
| Exchange rate (`exchange_rate.rs`) | one cached number in the process | `get_usd_to_ngn_rate` | an old rate, or the configured one, when the fetch fails |
| Clients of PAJ, Solana, Jupiter, SMS and mail; authentication; configuration; crypto; text | none | requests, comparisons, formatting | none a state machine would show |

How they interact: a USSD request (`routes/ussd.rs`) runs one handler of
`ussd_menu/`, which calls a service (`transfer.rs`, `utility_bill.rs`,
`paj_ramp_place.rs`); services write their own table and *spawn* a ledger task.
PAJ's webhook writes the order and spawns a patch of the same ledger row. The
limit sums three of these tables. Every one of them takes clients from the one
pool, and nothing but Postgres and Redis survives a restart.

What makes each correct: the ledger follows its order tables and never
contradicts them; a deposit can be traced to an order and a bill that the vendor
took to a payment; the limit is exceeded only through doors one can name; guesses are
bounded and a lockout holds; everyone gets a client; an order is what its session
confirmed; what is bought is what was picked and typed; what a user was told of the
account stays true; a limited phone is let in again; nobody serves on an old schema.

## 2. Modules

    MirroredLifecycle          what an order table and the ledger promise together
        ^            ^  (refinement)
    PajOrders    UtilityBill   the two order tables, each composed with ...
        \            /
        ActivityLedger         ... the ledger and its tasks (EXTENDS)
    SpendLimit <- MCSpendLimit the three tables and the daily limit
    PinGuard                   verify_pin, lockout and counter
    DbPool, HandlerPrograms <- MCDbPool
                               the pool, and how deep each handler goes into it
    RampFlow <- MCRampFlow     the ramp menus over Redis
    Migrations                 the startup migrations
    MenuText <- VendMenus <- MCVendMenus
                               what a text means, and the menus that sell something
    Accounts                   rate limit, registration, keys, merchant row
    *Proofs                    theorems about the module they are named after;
                               PajProofs is about PajOrders and RampFlow,
                               ServerProofs about DbPool and Migrations, and
                               VendMenusLemmas holds the lemmas of VendMenusProofs

**ActivityLedger.** `ledger` is the row of each ref (status and signature);
`tasks` the spawned tasks. `RunLog` is the upsert of `insert_ledger_row`,
`RunPatch`, `MissFirst` and `MissLast` are the outcomes of `patch_ledger_by_ref`
(its first update, the retry after 250 ms, and the retry that also finds no row),
`DropTask` any error, after which the task only logs. The two SQL expressions,
`CASE WHEN status IN ('CONFIRMED','FAILED')` and `COALESCE`, are `Sticky` and
`Coalesce`; they take their operands in opposite orders in the upsert and in the
patch, as in the SQL. `lost` is a ghost: the refs that had a task dropped.

**PajOrders.** `placing` is the position of `place_paj_*_order`: PAJ accepts the
order (`CreateOrder`), the row is inserted (`InsertOrder`), an offramp's deposit
is sent (`Settle`). `Abandon`, `SettleFails` and `Crash` stop it in between. A
webhook is two steps, `ApplyWebhook` (the transaction of `apply_webhook_atomic`
and the spawned patch) and `Notify`; PAJ may deliver any status to any order
that has a row, at any time; `RejectWebhook` covers 403, 400, 404 and 500.
`*Unacknowledged` are commits whose answer is lost. The status words are one per
arm of `PajOrderStatus::parse`.

**UtilityBill.** `pc` is the position in `purchase_*` and `sign_send_process`,
`bill` the row, `chain` and `vendor` what really happened outside. A send that
reports an error may still reach the chain (`send_raw` only submits), a
fulfilment that reports an error may still have happened. `vendor` is "fulfilled"
or only "accepted": `transact_process` takes the status "06" (`airbills.rs:781`)
and an answer without a status (`airbills.rs:187`) as success, the handler does
not tell them apart and never asks again. So COMPLETED says that the vendor took
the bill, not that it is fulfilled. The status PROCESSING exists in the enum and is never written. One assumption lies outside the source:
that the driver accepts the status parameter of `UPDATE ... $1::utility_bill_status`
(`utility_bill.rs` 147-154); were it rejected, every such write would be `UpdateFails`.

**SpendLimit.** One user's payments of three kinds. `CheckPasses`,
`CheckRefuses` and `CheckUnavailable` are the outcomes of `check_daily_limit`
(the last one the `.ok()?` that turns a failed query into no objection);
`Counted*` are its three sub-selects. A transfer has no row before its money
left, a merchant payment a PENDING row that is not counted, a bill a PENDING row
that is. The bill's PENDING, ONCHAIN_SUBMITTED and PROCESSING are one status here, because
the query counts all three. Three ghosts, together `Blamed`, name the payments that
ran beside another, whose query failed, or that left and will not be counted;
`OverspendExplained` bounds what the others spent, per day, whatever these did.

**PinGuard.** One user's requests, each a program counter over the calls of
`verify_pin`: GET lockout, compare, INCR, EXPIRE, SETEX, DEL, the LOCKED row.
`Unlock` is the unconditional UPDATE of `handle_ussd_request` after a read that
may be old. Redis TTLs are events that may happen once every request that was
running when the TTL was set has ended (`lockAge`, `counterAge`): a lockout lasts minutes, a
request seconds. That, and `PIN_LOCKOUT_MINUTES` of at least 1 (the
configuration does not refuse 0), are assumptions.

**DbPool and HandlerPrograms.** A handler is the sequence of how many clients it
holds after each get and each return; `HandlerPrograms` lists these for the
handlers' last steps, which are their deepest. `Leave` and `Unwind` are early
returns. A ledger task holds one client. `Hang` is a call that never returns while
its actor holds clients: the RPC's HTTP client (`solana_rpc.rs:18`) has no timeout,
nor have the calls to Postgres and Redis. `MaxHung` bounds how many there are.

**RampFlow.** A request goes through load, store, place and delete on the key of
its user and direction. An entry is represented by the session that typed it and
the token pick (`pick`, at most `MaxPicks`) that the session had made when it typed
it; the flow's own `pick` says which token it holds. Nothing is taken from the flow
that was loaded, so a bank or an amount that lands beside another token shows.
`Ask` includes the back key, from the first step also with a new pick (`PicksAnew`), `Repeat` a request sent again by the gateway, `Gate` the answer to a
user without PAJ session, which leaves the session open. Amounts, tokens and
banks themselves are abstracted. Its state and next-state relation have names of
their own (`rampVars`, `RampInit`, `RampNext`, `RampSpec`), so that one module can
extend both it and PajOrders.

**Migrations.** `schema` is which files' objects exist, `by` is
`schema_migrations` with a ghost of who inserted each row. A batch commits or
rolls back as a whole, as Postgres does with a multi-statement simple query.
`SaysWhy` is an assumption that the checked instance sets to TRUE: that the
error's text contains Postgres's message, which is what the code looks for.
Its variables tuple, initial states and steps have names of their own
(`migrationVars`, `MigrationInit`, `MigrationNext`, `MigrationSpec`), so that one
module can hold the proofs about the process's start and about its pool.
`MigrationInit` allows an empty database, one whose first k files were applied by hand,
and one migrated by an earlier release.

**MenuText.** Operators only: `Press` is one segment of `apply_back_navigation`,
`Read` one segment of the paged pickers (`parse_data_plan_menu_input` and
`parse_swap_route_menu_input`, which differ in having a "previous page"), `Parse`
their fold over the text. A segment is a number; longer entries are numbers that
fall into no menu.

**VendMenus.** Ten menus: airtime, data, electricity, betting, cable, swap, Earn
deposit and withdrawal, sending to a favourite, adding a PAJ bank. Each handler
is an operator (`Airtime`, `Data`, `ElectPick`, `ElectProduct`, `BetOrCable`,
`BankPick`, `BankAnswers`, `Swap`, `Listed`) from the text and the copy it loaded
to its answer and the work before it: SETs, DELs, the purchase, the mirror row. A
request is then several steps - `Start` (load and work out), `Writes`, `Pays`,
`Mirrors` - between which other requests run. The user is modelled too: `Type`
presses what the screen offers, and `wish` records what each answer was *meant*
for by the screen it was typed on; comparing that with what is bought is the
point of the module. `Repeat` is a request sent twice, `ListChanges` a provider,
a favourites table or a position that changes, `Expire` a key's 15 minutes,
`Refuse`, `NoList`, `PayFails` and `WorkFails` are errors, `Misreads` is a failed GET
that is taken for an absent key. `PaysAndErrs` is a purchase that went out and
returned an error all the same (`utility_bill.rs` 187-200); a purchase is `told` if
its handler learnt of it. `Dies` is a slice out of bounds or inside a character
in a process that is built with `panic = "abort"`: behind the account after a
Back, the last bytes of an account as it was typed (`CutsLetter`), Jupiter's error text. Four ghosts name what may part
a purchase from the wish: `disturbed` sessions, whose key or list another session,
a late request or time changed; `overlapped` ones, which had two requests at once;
`lost` ones, whose request, waited for or not, died with the process; and `trouble`. A
session that opens the menu anew is clean again only if it has bought nothing, since
a late request of its earlier visit may have. Abstracted: labels, the
amounts' limits (an amount is acceptable or not), SMS and ledger rows (they are
in `UtilityBill` and `SpendLimit`), and the purchase itself, which is one step: a
deposit and its platform fee are not told apart.

**Accounts.** One phone from its first dial. `Arrive` and `SetWindow` are the two
Redis calls of `is_rate_limited`; `LookUp` is the row that decides on the menu,
and `LookUpFails` its `unwrap_or(None)`, which makes a registered phone look
new; `Insert`, `CreateWallet` and `SetUserPin` are the three writes of
`handle_registration`; `ReadKeys` and `WriteKeys` the two statements of
`import_private_key`, with calls to the chain between them; `FindMerchant` and
`InsertMerchant` are "Register as Merchant". Every call may fail, and `Maybe` says
that it may have been done all the same. `Panic` is the `unwrap` of the INSERT's
result; the server is then started again with what Postgres and Redis hold. The
PIN check is one step, since `PinGuard` has its own module. The look-up and the
handler's own get of a client are one step each.

## 3. Runs

Every bound is a CONSTANT and appears in a guard; faults (failed statements and
crashes) share one counter, so a single `MaxFaults` covers any one of them at any
point.

| Run | Instance | Shows |
|---|---|---|
| `paj_orders` | one offramp, one onramp, two webhooks, one fault | the ledger agrees with the order unless PAJ sent both outcomes; an outcome is never forgotten unless a task was lost; notices are final; a deposit has its row; refinement of `MirroredLifecycle` |
| `paj_ledger_race` (violation) | one onramp, one webhook, no fault | finding 1 |
| `utility_bill` | two bills, two signatures, one fault | a completed bill was paid and taken by the vendor, what the vendor took is traceable, a paid bill is settled when nothing fails, a confirmed ledger row has the signature; strict refinement |
| `spend_limit` | three payments of 2, 1 and 2 against 3, one midnight, one fault | what leaves on a day is within the limit, payments apart that came through one of three named doors; nothing is counted twice |
| `spend_race` (violation) | the same, no fault, one day | finding 3 |
| `pin_guard` | two requests, lock after 2, one failed call | guess bound, lockout effective, no lost lock, counter has a TTL, lockout ends, no deadlock |
| `ramp_flow` | two sessions, two requests at once, two flows, two picks a session, two orders, one repeat, new pick or Redis error | an order's token is the session's last pick, its bank and amount came after that pick; they are the session's own; it is not placed twice; each with its exceptions named |
| `migrations` | two processes, four files, two faults | no process serves on an incomplete schema; a start fails only from a fault or the other process |
| `db_pool` | two requests, a swap or a webhook each, one task, four clients, one call that hangs | no circular wait; everyone is answered but who made the call that hangs |
| `db_pool_exhausted` (violation) | two transfers, three deep, one task, four clients, no call that hangs | finding 2 |
| `vend_menus` | each of ten menus; two sessions, two requests, two lists, two pages, texts of six segments, `Budget` 2 | what is bought is what was picked and typed; where a key guards it, nothing again after a purchase that was told; a digit on offer is taken; a bank that PAJ said it saved has its row |
| `accounts` | two requests, limit 2, two keys, one merchant code, two faults | what was told stays true; a replaced key is kept; the process dies only of a failed call or of two registrations at once; a limited phone is let in again |

Why these bounds suffice: the hazards are about two actors. Two webhooks are
what it takes to conflict, to overtake or to repeat; two bills or orders show
that rows do not disturb each other; one fault at any step includes every
single crash; the limit's three payments cover each pair of kinds, with amounts
such that some pairs fit and some do not; two sessions and two flows are what
mixing takes; a text of six segments is the longest deal (favourite, cable) and leaves
room to go on a page; in `vend_menus` everything out of the ordinary (a Back, a
mistake, a repeat, a failed call, an expiry, a changed list, each 1; a second
session 2) is paid from one `Budget`, so any two of them meet at any point; a
second page exists because `PageSize` is 1; in `accounts` two requests are what any race of
that phone takes, and two faults include one on each side; four files include the first one, files that may and files that may not be run again. Two symmetric sets are
used in `ramp_flow` and in `vend_menus`, whose properties are all invariants. The proofs of section 5 remove the bounds altogether.

`CHECK_DEADLOCK FALSE` is set where the model may really stop: all orders, bills
or payments done, no webhook left, every session ended, or a bound reached.
`pin_guard`, `db_pool`, `migrations` and `accounts` check for deadlock.

The type invariants that a theorem states are not checked again in every run:
those of SpendLimit, PinGuard, Migrations, Accounts and VendMenus are proved.

### Fairness

* `PajOrders`, `UtilityBill`: weak fairness of running *some* spawned task
  (`tokio::spawn` futures are polled by the runtime). None for handlers, PAJ,
  users or faults.
* `PinGuard`: weak fairness of each request's own steps (a future that is
  awaited by the server) and of Redis expiring the lockout.
* `Accounts`: weak fairness of each request's own steps (the future is polled to
  its end) and of Redis dropping a key whose TTL runs; none of arrivals and faults.
* `DbPool`: weak fairness of an actor's work, unless one of its calls never
  returns: a step `Hang` takes it out of that fairness for good, and its clients
  stay with it. Nothing in the code makes every call end, so `EveryoneAnswered`
  speaks of the others. Strong fairness of `Get`, because deadpool's semaphore is
  first come, first served. More calls that hang than the pool can spare use it
  up, for certain: the condition on `MaxHung` in `DeadlockFree` is where that begins.
* `PinGuard` and `Accounts` leave calls that never return to `DbPool`.

## 4. Findings

1. **The ledger's "race-safe upsert" loses outcomes** (`paj_ledger_race`).
   `patch_ledger_by_ref` retries once after 250 ms and does not look at the
   second result; a log task that is later than that recreates the row as PENDING
   for ever. `README.md:72` calls the ledger race-safe.
2. **Requests can wait for one another for ever** (`db_pool_exhausted`).
   `create_pool` sets no wait timeout and handlers nest gets. The answer
   "Service temporarily unavailable" for an exhausted pool is never given, and
   `CONTRIBUTING.md:9` asks for a request path that is non-blocking or fast.
3. **The daily limit is not a limit under concurrency** (`spend_race`).
   Two payments pass the check before either is counted, against `README.md:19`.

Smaller observations, visible in the models as actions: a bill whose vendor fails after payment is
FAILED and leaves the daily sum (`BillNotFulfilled`); a decode error leaves a
bill PENDING (`CannotSign`); a failed status write after the send skips the
vendor call (`UpdateFails`); a second session of a user can replace what the
first one is about to confirm (`mixed` in `RampFlow`); a process that starts
beside another may panic (`RecordRaces`).

What VendMenus and Accounts show beyond their properties' exceptions:

* A Back after the customer ID in the betting menu, or after the card in the
  cable menu - one, on the screen that asks for the amount or the contact - slices
  past the end of the text (`utility.rs` 782, 964); the electricity menu tests the
  length first (587), these two do not, and the panic aborts the process with
  everyone's requests (`Dies`). So does a customer ID or a card of which the last
  four bytes begin inside a character (803, 1002), and Jupiter's error text (`defi_swap.rs` 378).
* A purchase that goes out and returns an error leaves electricity's and cable's
  key in place, and a repeated PIN request pays again (`PaysAndErrs`;
  `BoughtOnce` holds of purchases that were told).
* A repeated PIN request buys airtime, data, bets, swaps and Earn moves again
  (`BoughtOnce` holds where the catalogue key is deleted after the purchase).
* With one plan type, the first digit after the recipient of a data purchase is
  skipped (`utility.rs` 398): the user has to type it twice (`ValidPickIsTaken`).
* Where a mistake is answered with the same menu (banks, swap, Earn), it stays in
  the text and the next digit is not read: only Back helps (`MistakeStays`).
* A registration whose wallet fails leaves a row without a PIN; the next dial asks
  for a PIN only and no later one creates the wallet (`AnswersHold`'s `Failed`).
* A failed look-up offers registration to a registered user, whose INSERT then
  panics (`DiesOnlyByRace`).
* An import whose answer is lost and is tried again replaces the second key by
  the key just imported, and the first one is gone.

## 5. Proofs

All for any number of orders, bills, signatures, webhooks, faults, handlers,
tasks, clients, sessions, requests and payments, and for texts and lists of any
length the constants allow.

* `PajProofs`, first half: `PajTyped`, `LedgerAgreement`, `OutcomeNotForgotten`,
  `NoticeAgreement`, `DepositsRecorded`, `PajRefinesMirror`. The properties are
  not inductive. `PajInv` adds what ties the pieces together: every patch task
  and every notice stems from a webhook that was applied with that status
  (`HooksOK`, `TaskOK`, `NoticesOK`), an order with an outcome had a webhook with
  it (`OrdersOK`), and a closed row had a patch with its status (`LedgerOK`). A
  webhook with the other outcome is then exactly `Conflicting`. What one ledger
  step can do to a row is a lemma about `ActivityLedger` alone (`LedgerStep`,
  with `StickyValues`, `CoalesceType` and `LedgerTyped`); `UtilityBillProofs`
  states them again for the bills.
* `UtilityBillProofs`: `BillTyped`, `CompletedAreTaken`, `TakenAreTraceable`,
  `PaidBills`, `ConfirmedRows`, `BillRefinesMirror`. `BillInv` says, for each
  position of the handler, what row, chain, vendor and signature look like
  (`StageOK`, `BillOK`), that a patch's status and signature are the bill's own
  or older (`TaskOK`), and that a closed row came from such a patch (`RowOK`).
* `ServerProofs`, first half: `PoolTyped` and `DeadlockFree`: if
  `Cardinality(Handlers) * (Depth - 1) + MaxHung < Cardinality(Conns)`, the handlers
  and ledger tasks never wait for one another's clients for ever, although `MaxHung`
  calls never return. `PoolInv` says that the clients of an actor have distinct
  ranks below what it counts (`RankOK`, `Distinct`); so a pool with no free client, all of
  whose owners wait or hang, injects into the ranks that a waiting handler can have
  and one more place for each call that hangs. With the default of 32 clients and handlers 4
  deep, that is at most 10 concurrent requests and one such call; the bound is one of
  pool size, and ledger tasks do not count.

* `AccountsProofs`: `AccountTyped`, `ToldIsTrue`, `PanicsAreRaces`, `KeysAreKept`.
  `AccountInv` says what each stage of a request has behind it: a request that is
  past the INSERT has a row, one at the wallet or the PIN has what came before
  (`RowFacts`, `WalletUnderWay`), one that will INSERT although there is a row
  had a failed look-up or a competitor (`InsertFacts`), and a key held by an
  import is the wallet's unless another request changed it. `KeysAreKept` is the action property
  that follows from it.
* `ServerProofs`, second half: `MigrationTyped`, `ServersAreMigrated`, `LoneStarts`.
  `MigrationInv` counts: a process at file f has every earlier file in the schema,
  and every recorded file is there (`DoneFiles`), and what this process added
  itself it does not meet again. `LoneStarts` assumes `SaysWhy`, as the code does.
* `PinGuardProofs`: `PinTyped`, `CountersEnd`, `LimitLeadsToLock`,
  `LockoutHolds`, `GuessesBounded`. The last one is a counting argument: each
  compared wrong guess is in the counter, or in flight between compare and INCR,
  or was lost to a failed call, or came after the lockout from a request that had passed
  the check before (`WindowBound`), so the guesses exceed the limit by no more
  than the other requests and the faults. `LimitSeen`, `BarredStay` and
  `ClearsUnderLock` are what it needs of the other variables.
* `PajProofs`, second half: `RampTyped`, `OrdersAreWhole`, `OrdersAreOwn`, `OrdersAreOnce`.
  `RampInv` carries `OrderIsOwn` back from the orders to every place an order is
  made from: the key's flow (`OwnFlows`), a request's copy (`OwnCopies`) and the flow
  numbers begun (`Begun`). `OrdersAreWhole` rests on `PicksInv`: for a session nobody
  interfered with (`Apart`), the request under way carries the session's current token
  pick (`CurrentAsks`), and every entry in the key's flow (`CurrentFlows`) and in a
  request's copy of it (`CurrentCopies`) was made under that pick.
  `OrdersAreOnce` needs the
  other direction, what an order leaves behind (`OnceInv`): flows are numbered and
  a number has one owner (`Numbered`); a session that nothing odd happened to has
  one request at a time (`AtMostOne`); and after an order its flow is used up
  (`UsedUp`): the key no longer holds it, or the one request that placed it is
  about to delete it, and no other request has a copy.
* `SpendLimitProofs`: `SpendTyped`, `OverspendIsExplained`, `OverspendHasCause`,
  `CountedOnce`, for any finite set of payments. The first half is about the
  model's sums: `Total` is a fold, that is, a recursive function that CHOOSE
  picks, and nothing is known of it before it is shown to exist. `EveryNumber`
  (induction over a set of numbers, from the least-element principle) and
  `EverySet` (induction over the sets of payments) give existence (`SumExists`),
  uniqueness (`SumUnique`), and the laws the properties need: any element may be
  taken out (`TotalWithout`), disjoint sums add (`TotalUnion`), more payments
  give no smaller sum (`TotalMonotone`). The second half is about the handlers.
  `Steady` says what a payment's rows show at each place of its handler; with it the
  three sub-selects are disjoint, and their sum is the total of one set
  (`SpentIsTotal`). `OverspendExplained` speaks of money that left and is not
  inductive; `WithinLimit` speaks of what is *committed* - out, or checked and
  still on its way - and only a check adds to that (`OnlyChecksCommit`).
  `AllRecorded` then says that a check with no other payment in flight sees all
  that is committed today (`CheckSeesAll`).

* `VendMenusLemmas` and `VendMenusProofs`: `VendTyped`, `VendBoughtAsWished`, `VendBoughtOnce`,
  `VendValidPickTaken`, `VendRowsMirrored`. None of these is inductive, since the
  purchase is decided by a text that is read from its start by every request.
  The text is read by a fold over it; `ParseAppend` shows that it reads one
  segment more when the text has one more (with `EveryNumber` and `Reads`, as for the sums of
  SpendLimit), and a page is then where the text before led to. `Counts` says, per menu, what the
  key, the list and the text say of the wish: which of the answers that will be read
  again have been accepted, and that each says what the wish says. `Shows` says
  that the screen asks for the answer which the reply to the next text will read
  there. An answer extends `Counts` (the `...Answer` lemmas), a Back shortens it (`...Back`), and each
  reply keeps it (`...Replies`) *at each of its writes*, since another request may
  come between two of them: that is `Promise`. `WishInv` states this for every clean session, and the
  steps of any other session either do not touch what a clean one reads or make
  it unclean. `VendBoughtOnce` adds what a purchase that was told leaves behind: the key is gone, or the one
  request that bought is about to delete it. One that was not told may come before it, any
  number of times. The last two theorems rest on that nobody
  interferes: without trouble, one session at a time has the menu open and waits for the
  only request (`OneAtATime`, by counting what a second session costs). Then what `Shows`
  says of a page makes the reply to each digit that the page offers go on from it (the
  `...Takes` lemmas), and `PicksInv` follows that reply from the key press to the screen,
  through the request's reads and writes. `RowsInv` says that
  a bank PAJ said it saved has its row, or the only request has still to write the last one's.

Assumptions used are the named ASSUMEs of each module. `SpendAssumption` asks for
finitely many payments: a user asks for one at a time.

Only model-checked:

* every liveness property (`OutcomeReachesLedger`, `LockoutEnds`,
  `EveryoneAnswered`, `LimitEnds`): liveness under fairness is outside the
  prover's reach. Every safety invariant of a passing run has its theorem.

## 6. Not modelled, and the plan

Not modelled, with the reason in `PROJECT.json`: the HTTP clients, SMS and
mail, authentication and headers, configuration, crypto, formatting and
validation. Gas top-up and fee arithmetic of `transfer.rs` are abstracted.
Of `transfer.rs` the daily limit and the order of its writes are there, not how
a transaction is built. Menus that keep nothing between two requests and only
render (balance, profile, saved banks, reading favourites) are not modelled; nor
is the verification menu (`paj_verify.rs`) with the PAJ session it stores, the
two transactions of an Earn move, a panic while the text of an order's notice is
built (`routes/paj.rs` 97, a skipped notice in `PajOrders`), a PIN call that was done and whose
answer is lost (`pin.rs` 124: `PinGuard` has it as done or as not done), and the in-process cache of the exchange rate.

What a continuation would take up, in this order:

1. The Earn moves as two transactions with their ledger row.
2. PAJ verification: request, OTP, the stored session and its use by the menus.
3. VendMenus with the bills of UtilityBill in place of its one-step purchase.
