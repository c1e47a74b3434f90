------------------------------ MODULE VendMenus -------------------------------
(***************************************************************************)
(* The menus that sell something after a few questions: airtime, data,     *)
(* electricity, betting, cable TV, swaps, Earn deposits and withdrawals, a *)
(* payment to a favourite, and the bank that is saved at PAJ.  A request   *)
(* carries all that was typed so far (MenuText).  What the text alone does *)
(* not say - which list the user was shown, what was picked from it, where *)
(* in the text the next answer begins - is kept in Redis under a key of    *)
(* the user, read at the start of a request and written back at its end.   *)
(*                                                                         *)
(* The user may have two sessions in the same menu, the gateway may repeat *)
(* a request, a call may fail, a key may expire.  Different menus share no *)
(* key, so one behaviour has one menu.                                     *)
(***************************************************************************)
EXTENDS MenuText, FiniteSets

CONSTANTS
    Kinds,      \* the menus to look at
    Sessions,   \* the user's USSD sessions
    Requests,   \* request slots: the bound on concurrent requests
    Lists,      \* the lists a provider may answer with (positive numbers)
    Plans,      \* how many items a list, or a plan type of it, has
    Buckets,    \* [Lists -> how many plan types a data list has]
    Unpriced,   \* the data plans without a fixed price
    Idents,     \* phone, meter, account numbers... that pass the checks
    Amounts,    \* amounts within the limits
    MaxText,    \* bound on the segments of a text
    Budget      \* bound on what is out of the ordinary, together: Backs and
                \* mistakes of the user, repeats, failed calls, expiries and
                \* changed lists count one, another session counts two

\* The menus by where their list comes from.
Catalogued == {"data", "elect", "bet", "cable", "bank"}  \* fetched once, kept in Redis
ReadAgain == {"withdraw", "favorite"}                    \* read by every request
Fixed == {"airtime", "swap", "deposit"}                  \* part of the program

Pin == 31       \* four digits
Wrong == 41     \* a segment that fits nowhere

ASSUME VendAssumption ==
    /\ Kinds \subseteq Catalogued \cup ReadAgain \cup Fixed
    /\ {1} \subseteq Lists /\ Lists \subseteq Nat \ {0}
    /\ Plans \in 1..4
    /\ Buckets \in [Lists -> 1..4]
    /\ Unpriced \subseteq 1..Plans
    /\ Idents \subseteq 11..20 /\ Amounts \subseteq 21..30
    /\ {MaxText, Budget} \subseteq Nat
    /\ "nobody" \notin Sessions

VARIABLES
    kind,       \* the menu of this behaviour
    redis,      \* [Keys -> what the key holds]
    current,    \* the list that a provider, or Postgres, has at the moment
    ses,        \* [Sessions -> the session]
    req,        \* [Requests -> the request]
    bought,     \* what was paid for, or saved at PAJ, and whether the
                \* handler was told so, or got an error
    mirrored,   \* the saved banks that have a row here
    disturbed,  \* ghost: sessions whose ground changed under them
    overlapped, \* ghost: sessions with two requests at once
    lost,       \* ghost: sessions whose request got no answer
    slips,      \* Backs and mistakes so far
    trouble     \* the rest of what was spent of the budget

vars == <<kind, redis, current, ses, req, bought, mirrored, disturbed,
          overlapped, lost, slips, trouble>>

\* The key of the catalogue, of electricity's DISCO pick, and of a data
\* catalogue, which names the recipient.
CatKey == 1
PickKey == 2
Keys == {CatKey, PickKey} \cup Idents

\* An item is its place in the list it comes from.
Items == [list: Lists, n: 1..Plans \cup 1..4]
NoItem == [list |-> 0, n |-> 0]

\* BetCatalog, CableCatalog, ElectCatalog, ElectDiscoPick, DataPlanCatalog
\* and PajBankFlow: list is 0 when the key is absent; chosen is the pick (the
\* plan type, the DISCO, the bookmaker, the package, the bank); len is how
\* much of the text came before the next answer (menu_sub_len,
\* plan_sub_offset, account_seg); ident is the customer, card, meter or
\* account; agreed is whether pin_seg is set.
Catalog == [list: Lists \cup {0}, chosen: Items \cup {NoItem}, len: 0..MaxText,
            ident: 0..Wrong, agreed: BOOLEAN]
Absent == [list |-> 0, chosen |-> NoItem, len |-> 0, ident |-> 0,
           agreed |-> FALSE]
Fetched(v) == [Absent EXCEPT !.list = v]

\* What is bought: the item, the plan type or DISCO it is listed under, whom
\* it is for, an additional phone or token, and the amount.
Deal == [item: Items \cup {NoItem}, under: Items \cup {NoItem},
         ident: 0..Wrong, contact: 0..Wrong, amount: 0..Wrong]
NoDeal == [item |-> NoItem, under |-> NoItem, ident |-> 0, contact |-> 0,
           amount |-> 0]

\* What an answer asks for; a list is shown from some page on.
Asks == {"nothing", "group", "item", "ident", "contact", "token", "amount",
         "choice", "pin", "gate", "end"}
Screen == [ask: Asks, list: Lists \cup {0}, page: Nat]
Ask(what) == [ask |-> what, list |-> 0, page |-> 0]
Page(what, list, page) == [ask |-> what, list |-> list, page |-> page]
End == Ask("end")

\* A request's remaining work: writes to Redis, the purchase, the local row.
Ops == [op: {"set", "touch", "del", "buy", "mirror"}, key: Keys,
        value: Catalog, deal: Deal]
Op(what) == [op |-> what, key |-> CatKey, value |-> Absent, deal |-> NoDeal]
Set(k, c) == [Op("set") EXCEPT !.key = k, !.value = c]
Touch(k, c) == [Set(k, c) EXCEPT !.op = "touch"]   \* its error is ignored
Del(k) == [Op("del") EXCEPT !.key = k]             \* its error is ignored
Buy(d) == [Op("buy") EXCEPT !.deal = d]

Session == [text: Seq(0..Wrong), screen: Screen, waiting: BOOLEAN,
            picked: Asks, wish: Deal]
Request == [pc: {"idle", "start", "load active", "work"},
            session: Sessions \cup {"nobody"}, text: Seq(0..Wrong),
            todo: Seq(Ops), say: Screen]
NoRequest == [pc |-> "idle", session |-> "nobody", text |-> <<>>,
              todo |-> <<>>, say |-> End]

VendTypeOK ==
    /\ kind \in Kinds
    /\ redis \in [Keys -> Catalog]
    /\ current \in Lists
    /\ ses \in [Sessions -> Session]
    /\ req \in [Requests -> Request]
    /\ bought \subseteq [n: Nat, by: Sessions, deal: Deal, told: BOOLEAN]
    /\ mirrored \subseteq {b.n : b \in bought}
    /\ disturbed \cup overlapped \cup lost \subseteq Sessions
    /\ slips \in 0..Budget /\ trouble \in 0..Budget

Init ==
    /\ kind \in Kinds
    /\ redis = [k \in Keys |-> Absent]
    /\ current = 1
    /\ ses = [s \in Sessions |-> [text |-> <<>>, screen |-> Ask("nothing"),
                                  waiting |-> FALSE, picked |-> "nothing",
                                  wish |-> NoDeal]]
    /\ req = [q \in Requests |-> NoRequest]
    /\ bought = {} /\ mirrored = {}
    /\ disturbed = {} /\ overlapped = {} /\ lost = {}
    /\ slips = 0 /\ trouble = 0

Trouble == slips + trouble < Budget /\ trouble' = trouble + 1
Slip == slips + trouble < Budget /\ slips' = slips + 1
InFlight(s) == \E q \in Requests : req[q].session = s
Begun == {s \in Sessions : ses[s].waiting \/ ses[s].screen.ask # "nothing"}

-----------------------------------------------------------------------------
(* Mutants of the definitions below. *)

FinishWithoutDelete(asks, tail, deal, after) ==
    LET entry(what, old) == IF \E i \in DOMAIN asks \cap DOMAIN tail : asks[i] = what
                            THEN tail[CHOOSE i \in DOMAIN asks : asks[i] = what]
                            ELSE old
    IN IF Len(tail) < Len(asks) THEN [say |-> Ask(asks[Len(tail) + 1]), todo |-> <<>>]
       ELSE [say |-> End,
             todo |-> <<Buy([deal EXCEPT !.ident = entry("ident", @),
                                         !.contact = entry("contact", entry("token", @)),
                                         !.amount = entry("amount", @)])>>]
MirrorForgotten(t, c) ==
    IF c.ident = 0
    THEN IF Len(t) <= c.len \/ t[c.len + 1] \notin Idents THEN [say |-> Ask("ident"), todo |-> <<>>]
         ELSE [say |-> Ask("choice"),
               todo |-> <<Set(CatKey, [c EXCEPT !.ident = t[c.len + 1]])>>]
    ELSE IF ~c.agreed THEN [say |-> Ask("pin"),
                            todo |-> <<Set(CatKey, [c EXCEPT !.agreed = TRUE])>>]
    ELSE [say |-> End,
          todo |-> <<Buy([NoDeal EXCEPT !.item = c.chosen, !.ident = c.ident]),
                     Del(CatKey)>>]
-----------------------------------------------------------------------------
(* What a handler makes of the text and of what it loaded: the answer, and *)
(* the work that comes before it.                                          *)

Say(screen) == [say |-> screen, todo |-> <<>>]
Do(ops, screen) == [say |-> screen, todo |-> ops]
Panic == Say(Ask("panic"))      \* a slice past the end of the text

(* Nothing was picked from the list yet.  The utility menus end the session *)
(* on a segment that means nothing, the others show the page again.        *)
BrowseOrEnd(nav, what, list) ==
    IF nav.error THEN Say(End) ELSE Say(Page(what, list, nav.page))

(* The questions after the pick; tail answers them in turn.  The answers   *)
(* that were accepted before are read from the text again.  With the last  *)
(* one, the PIN, the deal is made; after is what follows it.               *)
Accepts(what, seg) ==
    CASE what = "amount" -> seg \in Amounts
      [] what \in {"ident", "contact"} -> seg \in Idents
      [] what = "token" -> seg = 1
      [] what = "pin" -> TRUE

Finish(asks, tail, deal, after) ==
    LET answered == DOMAIN asks \cap DOMAIN tail
        refused == {i \in answered : ~Accepts(asks[i], tail[i])}
        first == CHOOSE i \in refused : \A j \in refused : i <= j
        entry(what, old) == IF \E i \in answered : asks[i] = what
                            THEN tail[CHOOSE i \in answered : asks[i] = what]
                            ELSE old
    IN
    IF Len(tail) > Len(asks) THEN Say(End)
    ELSE IF refused # {} THEN Say(IF asks[first] = "token" THEN Ask("token") ELSE End)
    ELSE IF Len(tail) < Len(asks) THEN Say(Ask(asks[Len(tail) + 1]))
    ELSE Do(<<Buy([deal EXCEPT !.ident = entry("ident", @),
                               !.contact = entry("contact", entry("token", @)),
                               !.amount = entry("amount", @)])>> \o after, End)

(* handle_utility_airtime *)
Airtime(t) == Finish(<<"ident", "amount", "pin">>, t, NoDeal, <<>>)

(* handle_utility_data_plan_phase: the plans of the type that was picked. *)
DataPlans(t, c, rest) ==
    LET nav == Parse(rest, Plans, TRUE) IN
    IF nav.picked = 0 THEN BrowseOrEnd(nav, "item", c.list)
    ELSE Finish(IF nav.picked \in Unpriced THEN <<"amount", "pin">> ELSE <<"pin">>,
                From(rest, nav.used + 1),
                [NoDeal EXCEPT !.item = [list |-> c.list, n |-> nav.picked],
                               !.under = c.chosen, !.ident = t[1]], <<>>)

(* handle_utility_data: a list with one plan type has it picked already,   *)
(* and the plans are read from the third segment on in either case.        *)
Data(t, c, v) ==
    LET bucket(n) == [Fetched(v) EXCEPT !.chosen = [list |-> v, n |-> n]]
        picked == [c EXCEPT !.chosen = [list |-> c.list, n |-> t[2]]]
    IN
    IF t = <<>> THEN Say(Ask("ident"))
    ELSE IF t[1] \notin Idents THEN Say(End)
    ELSE IF Len(t) = 1
         THEN IF Buckets[v] = 1
              THEN Do(<<Set(t[1], bucket(1))>>, Page("item", v, 0))
              ELSE Do(<<Set(t[1], Fetched(v))>>, Page("group", v, 0))
    ELSE IF c = Absent THEN Say(End)
    ELSE IF c.chosen # NoItem THEN DataPlans(t, c, From(t, 3))
    ELSE IF t[2] \notin 1..Buckets[c.list] THEN Say(End)
    ELSE LET o == DataPlans(t, picked, From(t, 3)) IN
         Do(<<Set(t[1], picked)>> \o o.todo, o.say)

(* handle_utility_electricity, while the DISCO pick p is there... *)
ElectPick(t, p, v) ==
    LET nav == Parse(t, Plans, TRUE)
        meter == t[p.len + 1]
    IN
    IF p.chosen = NoItem
    THEN IF nav.picked = 0 THEN BrowseOrEnd(nav, "group", p.list)
         ELSE Do(<<Set(PickKey, [p EXCEPT !.len = nav.used,
                                 !.chosen = [list |-> p.list, n |-> nav.picked]])>>,
                 Ask("ident"))
    ELSE IF Len(t) <= p.len THEN Say(End)
    ELSE IF meter \notin Idents THEN Say(End)
    ELSE Do(<<Set(CatKey, [Fetched(v) EXCEPT !.chosen = p.chosen, !.ident = meter,
                                             !.len = p.len + 1]),
              Del(PickKey)>>,
            Page("item", v, 0))

(* ... and when only the catalogue a of the DISCO's products is. *)
ElectProduct(t, a) ==
    LET rest == From(t, a.len + 1)
        nav == Parse(rest, Plans, TRUE)
    IN
    IF a = Absent \/ Len(t) < a.len THEN Say(End)
    ELSE IF nav.picked = 0 THEN BrowseOrEnd(nav, "item", a.list)
    ELSE Finish(<<"amount", "pin">>, From(rest, nav.used + 1),
                [NoDeal EXCEPT !.item = [list |-> a.list, n |-> nav.picked],
                               !.under = a.chosen, !.ident = a.ident],
                <<Del(CatKey)>>)

Elect(t, p, a, v) ==
    IF t = <<>> THEN Do(<<Del(PickKey), Del(CatKey), Set(PickKey, Fetched(v))>>,
                        Page("group", v, 0))
    ELSE IF p # Absent THEN ElectPick(t, p, v)
    ELSE ElectProduct(t, a)

(* handle_utility_betting and handle_utility_cable: one key for all.  When *)
(* the account is known the answers after it are sliced off the text,      *)
(* which panics when the user has gone back before it.                     *)
BetOrCable(t, c, v) ==
    LET nav == Parse(t, Plans, TRUE)
        asks == IF kind = "bet" THEN <<"amount", "pin">>
                                ELSE <<"contact", "amount", "pin">>
    IN
    IF t = <<>> THEN Do(IF kind = "cable" THEN <<Del(CatKey), Set(CatKey, Fetched(v))>>
                                          ELSE <<Set(CatKey, Fetched(v))>>,
                        Page("item", v, 0))
    ELSE IF c = Absent THEN Say(End)
    ELSE IF c.chosen = NoItem
         THEN IF nav.picked = 0 THEN BrowseOrEnd(nav, "item", c.list)
              ELSE Do(<<Set(CatKey, [c EXCEPT !.len = nav.used,
                                     !.chosen = [list |-> c.list, n |-> nav.picked]])>>,
                      Ask("ident"))
    ELSE IF c.ident = 0
         THEN IF Len(t) <= c.len THEN Say(End)
              ELSE Do(<<Set(CatKey, [c EXCEPT !.ident = t[c.len + 1]])>>, Ask(asks[1]))
    ELSE IF Len(t) < c.len + 1 THEN Panic
    ELSE Finish(asks, From(t, c.len + 2),
                [NoDeal EXCEPT !.item = c.chosen, !.ident = c.ident],
                IF kind = "cable" THEN <<Del(CatKey)>> ELSE <<>>)

(* handle_withdrawal_banks_branch, "Add bank", until the bank is picked... *)
BankPick(t, c, v) ==
    LET nav == Parse(t, Plans, FALSE) IN
    IF t = <<>> \/ c = Absent
    THEN Do(<<Set(CatKey, Fetched(v))>>, Page("item", v, 0))
    ELSE IF nav.error THEN Say(Page("item", c.list, nav.page))
    ELSE IF nav.picked = 0 THEN Do(<<Touch(CatKey, c)>>, Page("item", c.list, nav.page))
    ELSE Do(<<Set(CatKey, [c EXCEPT !.len = nav.used,
                           !.chosen = [list |-> c.list, n |-> nav.picked]])>>,
            Ask("ident"))

(* ... and after it.  The account number, the choice and the PIN have their *)
(* fixed places in the text, and what was found in one of them stays.      *)
BankAnswers(t, c) ==
    LET account == c.len + 1
        choice == c.len + 2
        pin == c.len + 3
    IN
    IF c.ident = 0
    THEN IF Len(t) < account \/ t[account] \notin Idents THEN Say(Ask("ident"))
         ELSE Do(<<Set(CatKey, [c EXCEPT !.ident = t[account]])>>, Ask("choice"))
    ELSE IF ~c.agreed
    THEN IF Len(t) < choice \/ t[choice] \notin {1, 2} THEN Say(Ask("choice"))
         ELSE IF t[choice] = 2 THEN Do(<<Del(CatKey)>>, End)
         ELSE Do(<<Set(CatKey, [c EXCEPT !.agreed = TRUE])>>, Ask("pin"))
    ELSE IF Len(t) < pin THEN Say(Ask("pin"))
    ELSE IF Len(t) > pin THEN Do(<<Del(CatKey)>>, End)
    ELSE Do(<<Buy([NoDeal EXCEPT !.item = c.chosen, !.ident = c.ident]),
              Del(CatKey), Op("mirror")>>, End)

Bank(t, c, v) ==
    IF t = <<>> \/ c = Absent \/ c.chosen = NoItem THEN BankPick(t, c, v)
                                                   ELSE BankAnswers(t, c)

(* handle_swap_token: the routes are fixed. *)
Swap(t) ==
    LET nav == Parse(t, Plans, FALSE) IN
    IF nav.picked = 0 THEN Say(Page("item", 1, nav.page))
    ELSE Finish(<<"amount", "pin">>, From(t, nav.used + 1),
                [NoDeal EXCEPT !.item = [list |-> 1, n |-> nav.picked]], <<>>)

(* handle_deposit, handle_withdraw, handle_send_to_favorite: one page, the *)
(* list as it is now, the pick its position.                               *)
Listed(t, list) ==
    IF t = <<>> THEN Say(Page("item", list, 0))
    ELSE IF t[1] \notin 1..Plans
         THEN Say(IF kind = "favorite" THEN End ELSE Page("item", list, 0))
    ELSE Finish(IF kind = "favorite" THEN <<"token", "amount", "pin">>
                                     ELSE <<"amount", "pin">>,
                From(t, 2), [NoDeal EXCEPT !.item = [list |-> list, n |-> t[1]]], <<>>)

Respond(t, p, c, v) ==
    CASE kind = "airtime" -> Airtime(t)
      [] kind = "data" -> Data(t, c, v)
      [] kind = "elect" -> Elect(t, p, c, v)
      [] kind \in {"bet", "cable"} -> BetOrCable(t, c, v)
      [] kind = "bank" -> Bank(t, c, v)
      [] kind = "swap" -> Swap(t)
      [] kind = "deposit" -> Listed(t, 1)
      [] kind \in ReadAgain -> Listed(t, current)

-----------------------------------------------------------------------------
(* The user. *)

\* The digits a list offers on a screen, what they stand for, and the paging.
OnePage(sc) == \/ kind \in ReadAgain \cup {"deposit"}
               \/ sc.ask = "group" /\ kind = "data"
Options(sc) ==
    IF sc.ask \notin {"group", "item"} THEN {}
    ELSE IF sc.ask = "group" /\ kind = "data" THEN 1..Buckets[sc.list]
    ELSE IF OnePage(sc) THEN 1..Plans
    ELSE {i \in 1..PageSize : sc.page * PageSize + i <= Plans}
ItemAt(sc, i) == [list |-> sc.list, n |-> sc.page * PageSize + i]
Paging(sc) ==
    IF sc.ask \notin {"group", "item"} \/ OnePage(sc) THEN {}
    ELSE {seg \in {More, Previous} :
            IF seg = More THEN HasNext(Plans, sc.page)
                          ELSE sc.page > 0 /\ kind \notin {"bank", "swap"}}

\* What a user types who reads the screen, or mistypes.
Sensible(sc) ==
    Options(sc) \cup Paging(sc) \cup
    CASE sc.ask \in {"ident", "contact"} -> Idents \cup {Wrong}
      [] sc.ask = "amount" -> Amounts \cup {Wrong}
      [] sc.ask = "choice" -> {1, 2}
      [] sc.ask \in {"token", "gate"} -> {1}
      [] sc.ask = "pin" -> {Pin}
      [] OTHER -> {Wrong}

\* What the user wants, by what was typed on the screen that asked for it.
Wished(w, sc, seg) ==
    CASE seg \in Options(sc) /\ sc.ask = "group" -> [w EXCEPT !.under = ItemAt(sc, seg)]
      [] seg \in Options(sc) /\ sc.ask = "item" ->
            [w EXCEPT !.item = ItemAt(sc, seg), !.contact = 0, !.amount = 0]
      [] sc.ask = "ident" /\ seg # Back -> [w EXCEPT !.ident = seg]
      [] sc.ask \in {"contact", "token"} /\ seg # Back -> [w EXCEPT !.contact = seg]
      [] sc.ask = "amount" /\ seg # Back -> [w EXCEPT !.amount = seg]
      [] OTHER -> w

-----------------------------------------------------------------------------
(* Requests come in. *)

Arrives(q, s, t) ==
    /\ req[q].pc = "idle"
    /\ req' = [req EXCEPT ![q] = [NoRequest EXCEPT !.pc = "start",
                                                   !.session = s, !.text = t]]
    /\ overlapped' = IF InFlight(s) THEN overlapped \cup {s} ELSE overlapped

(* The session opens the menu.  It may come back to it from the menu above  *)
(* with all as new, but for what a request that nobody waited for bought.  *)
Begin(q, s) ==
    /\ ses[s].screen = Ask("nothing") /\ ~ses[s].waiting
    /\ Arrives(q, s, <<>>)
    /\ ses' = [ses EXCEPT ![s].waiting = TRUE, ![s].wish = NoDeal]
    /\ disturbed' = IF \E b \in bought : b.by = s THEN disturbed
                                                 ELSE disturbed \ {s}
    /\ IF Begun = {} THEN UNCHANGED trouble
       ELSE slips + trouble + 2 <= Budget /\ trouble' = trouble + 2
    /\ UNCHANGED <<kind, redis, current, bought, mirrored, lost, slips>>

(* The user answers the screen. *)
Type(q, s, seg) ==
    LET x == ses[s] IN
    /\ ~x.waiting /\ x.screen.ask \notin {"nothing", "end"}
    /\ Len(x.text) < MaxText
    /\ Arrives(q, s, Press(x.text, seg))
    /\ ses' = [ses EXCEPT ![s] =
                 [x EXCEPT !.text = Press(x.text, seg), !.waiting = TRUE,
                           !.picked = IF seg \in Options(x.screen)
                                      THEN x.screen.ask ELSE "nothing",
                           !.wish = Wished(x.wish, x.screen, seg)]]
    /\ UNCHANGED <<kind, redis, current, bought, mirrored, disturbed, lost, trouble>>

Answers(q, s) == \E seg \in Sensible(ses[s].screen) :
    /\ Type(q, s, seg)
    /\ IF seg = Wrong THEN Slip ELSE UNCHANGED slips

GoesBack(q, s) ==
    /\ Slip
    /\ ses[s].text # <<>>
    /\ Type(q, s, Back)

(* Back on the first screen leaves the menu for the one above it. *)
Leaves(s) ==
    /\ ~ses[s].waiting /\ ses[s].screen.ask \notin {"nothing", "end"}
    /\ ses[s].text = <<>>
    /\ Slip
    /\ ses' = [ses EXCEPT ![s].screen = Ask("nothing")]
    /\ UNCHANGED <<kind, redis, current, req, bought, mirrored, disturbed,
                   overlapped, lost, trouble>>

(* The gateway sends the last request once more. *)
Repeat(q, s) ==
    /\ ses[s].screen.ask # "nothing" \/ ses[s].waiting
    /\ Trouble
    /\ Arrives(q, s, ses[s].text)
    /\ UNCHANGED <<kind, redis, current, ses, bought, mirrored, disturbed, lost, slips>>

-----------------------------------------------------------------------------
(* Requests are handled. *)

\* A request ends; the user sees the first answer to what was typed last.
Awaited(q) == LET x == ses[req[q].session] IN x.waiting /\ x.text = req[q].text
Ends(q, screen) ==
    /\ req' = [req EXCEPT ![q] = NoRequest]
    /\ ses' = IF Awaited(q)
              THEN [ses EXCEPT ![req[q].session].screen = screen,
                               ![req[q].session].waiting = FALSE]
              ELSE ses

\* Who must reckon with a change: every session but the one that waits for
\* the request that makes it.
Disturbs(q) == Begun \ (IF Awaited(q) THEN {req[q].session} ELSE {})

(* The handler reads what it needs and works out its answer; a provider    *)
(* that is asked has its list.  What it then writes or buys is written and *)
(* bought later, from this copy.                                           *)
Handles(q, o) ==
    /\ o # Panic
    /\ \/ /\ o.todo = <<>>
          /\ Ends(q, o.say)
       \/ /\ o.todo # <<>>
          /\ req' = [req EXCEPT ![q].pc = "work", ![q].todo = o.todo,
                                ![q].say = o.say]
          /\ UNCHANGED ses

\* Electricity looks for the catalogue only when there is no pick.
NeedsActive(q) == kind = "elect" /\ req[q].text # <<>> /\ redis[PickKey] = Absent

\* The copy: the pick for electricity, else the key that the text leads to.
CopyKey(t) == CASE kind = "elect" -> PickKey
                [] kind = "data" /\ t # <<>> /\ t[1] \in Idents -> t[1]
                [] OTHER -> CatKey
Outcome(q) ==
    LET t == req[q].text
        copy == redis[CopyKey(t)]
    IN IF req[q].pc = "start" THEN Respond(t, copy, copy, current)
                              ELSE Respond(t, Absent, redis[CatKey], current)

Start(q) ==
    /\ req[q].pc = "start" /\ ~NeedsActive(q)
    /\ Handles(q, Outcome(q))
    /\ UNCHANGED <<kind, redis, current, bought, mirrored, disturbed,
                   overlapped, lost, slips, trouble>>

NoPick(q) ==
    /\ req[q].pc = "start" /\ NeedsActive(q)
    /\ req' = [req EXCEPT ![q].pc = "load active"]
    /\ UNCHANGED <<kind, redis, current, ses, bought, mirrored, disturbed,
                   overlapped, lost, slips, trouble>>

LoadActive(q) ==
    /\ req[q].pc = "load active"
    /\ Handles(q, Outcome(q))
    /\ UNCHANGED <<kind, redis, current, bought, mirrored, disturbed,
                   overlapped, lost, slips, trouble>>

(* The PIN question shows the last four bytes of the account, which was    *)
(* taken as it was typed: Wrong may end in the middle of a character.      *)
CutsLetter(q) ==
    /\ kind \in {"bet", "cable"} /\ redis[CatKey].ident = Wrong
    /\ Outcome(q) = Say(Ask("pin"))

(* A panic aborts the process (panic = "abort"), with all its requests.    *)
(* The text of an error at Jupiter is cut as well.                         *)
Dies(q) ==
    /\ \/ /\ req[q].pc = "load active" \/ (req[q].pc = "start" /\ ~NeedsActive(q))
          /\ Outcome(q) = Panic \/ CutsLetter(q)
       \/ kind = "swap" /\ req[q].pc = "work"
    /\ req' = [r \in Requests |-> NoRequest]
    /\ lost' = lost \cup {s \in Sessions : ses[s].waiting \/ InFlight(s)}
    /\ ses' = [s \in Sessions |-> IF ses[s].waiting
                                  THEN [ses[s] EXCEPT !.screen = End, !.waiting = FALSE]
                                  ELSE ses[s]]
    /\ UNCHANGED <<kind, redis, current, bought, mirrored, disturbed,
                   overlapped, slips, trouble>>

(* No list, no wallet, no client, and for data, betting and cable no key   *)
(* where a GET fails: the session ends here.                               *)
Refuse(q) ==
    /\ req[q].pc \in {"start", "load active"}
    /\ Trouble
    /\ Ends(q, End)
    /\ UNCHANGED <<kind, redis, current, bought, mirrored, disturbed,
                   overlapped, lost, slips>>

(* No list when the menu is opened: the old keys are deleted already. *)
NoList(q) ==
    /\ kind \in {"elect", "cable"} /\ req[q].pc = "start" /\ req[q].text = <<>>
    /\ Trouble
    /\ req' = [req EXCEPT ![q].pc = "work", ![q].say = End,
                          ![q].todo = IF kind = "elect" THEN <<Del(PickKey), Del(CatKey)>>
                                                        ELSE <<Del(CatKey)>>]
    /\ UNCHANGED <<kind, redis, current, ses, bought, mirrored, disturbed,
                   overlapped, lost, slips>>

(* A GET that fails is taken for a key that is not there: electricity goes *)
(* on to its catalogue, the bank menu begins anew.                         *)
Misreads(q) ==
    /\ req[q].pc = "start" /\ req[q].text # <<>>
    /\ Trouble
    /\ \/ /\ kind = "elect"
          /\ req' = [req EXCEPT ![q].pc = "load active"]
          /\ UNCHANGED ses
       \/ kind = "bank" /\ Handles(q, Respond(req[q].text, Absent, Absent, current))
    /\ disturbed' = disturbed \cup {req[q].session}
    /\ UNCHANGED <<kind, redis, current, bought, mirrored, overlapped, lost, slips>>

(* The bank menu wants a PAJ session before anything else, and its answer   *)
(* leaves the USSD session open.                                           *)
Gate(q) ==
    /\ kind = "bank" /\ req[q].pc = "start"
    /\ Trouble
    /\ Ends(q, Ask("gate"))
    /\ disturbed' = disturbed \cup {req[q].session}
    /\ UNCHANGED <<kind, redis, current, bought, mirrored, overlapped, lost, slips>>

\* The head of the work is done; the last piece is followed by the answer.
Advance(q) ==
    IF Len(req[q].todo) = 1 THEN Ends(q, req[q].say)
    ELSE /\ req' = [req EXCEPT ![q].todo = Tail(@)]
         /\ UNCHANGED ses

Writes(q) ==
    LET op == Head(req[q].todo) IN
    /\ req[q].pc = "work" /\ op.op \in {"set", "touch", "del"}
    /\ redis' = [redis EXCEPT ![op.key] = IF op.op = "del" THEN Absent ELSE op.value]
    /\ disturbed' = disturbed \cup Disturbs(q)
    /\ Advance(q)
    /\ UNCHANGED <<kind, current, bought, mirrored, overlapped, lost, slips, trouble>>

(* The purchase, or the saving at PAJ, takes place. *)
Purchase(q, told) == [n |-> Cardinality(bought) + 1, by |-> req[q].session,
                      deal |-> Head(req[q].todo).deal, told |-> told]
Buying(q) == req[q].pc = "work" /\ Head(req[q].todo).op = "buy"

(* The PIN is right, and all goes well. *)
Pays(q) ==
    /\ Buying(q)
    /\ bought' = bought \cup {Purchase(q, TRUE)}
    /\ Advance(q)
    /\ UNCHANGED <<kind, redis, current, mirrored, disturbed, overlapped, lost,
                   slips, trouble>>

(* Nothing after an error is done, but the bank's flow is deleted. *)
Errs(q) ==
    IF kind = "bank" THEN /\ req' = [req EXCEPT ![q].todo = <<Del(CatKey)>>]
                          /\ UNCHANGED ses
                     ELSE Ends(q, End)

(* The PIN is wrong, or an error comes before the purchase. *)
PayFails(q) ==
    /\ Buying(q)
    /\ Ends(q, End) \/ Errs(q)
    /\ UNCHANGED <<kind, redis, current, bought, mirrored, disturbed,
                   overlapped, lost, slips, trouble>>

(* The money went out, or PAJ has the bank, and an error comes all the     *)
(* same: a status that was not written, a vendor's refusal, a lost answer. *)
PaysAndErrs(q) ==
    /\ Buying(q)
    /\ bought' = bought \cup {Purchase(q, FALSE)}
    /\ Errs(q)
    /\ UNCHANGED <<kind, redis, current, mirrored, disturbed, overlapped, lost,
                   slips, trouble>>

(* INSERT INTO user_paj_bank_accounts, for the bank that PAJ said last it   *)
(* had saved for this session.                                             *)
Mirrors(q) ==
    LET mine == {b.n : b \in {b \in bought : b.by = req[q].session /\ b.told}} IN
    /\ req[q].pc = "work" /\ Head(req[q].todo).op = "mirror"
    /\ mirrored' = mirrored \cup {CHOOSE n \in mine : \A m \in mine : m <= n}
    /\ Advance(q)
    /\ UNCHANGED <<kind, redis, current, bought, disturbed, overlapped, lost,
                   slips, trouble>>

(* A call fails.  A SET that is not ignored ends the session; the others   *)
(* are passed over.                                                        *)
WorkFails(q) ==
    LET op == Head(req[q].todo) IN
    /\ req[q].pc = "work" /\ op.op # "buy"
    /\ Trouble
    /\ IF op.op = "set" THEN Ends(q, End) ELSE Advance(q)
    /\ disturbed' = IF op.op = "del" THEN disturbed \cup {req[q].session}
                                     ELSE disturbed
    /\ UNCHANGED <<kind, redis, current, bought, mirrored, overlapped, lost, slips>>

-----------------------------------------------------------------------------
(* Around them. *)

(* The 15 minutes of a key run out. *)
Expire(k) ==
    /\ redis[k] # Absent
    /\ Trouble
    /\ redis' = [redis EXCEPT ![k] = Absent]
    /\ disturbed' = disturbed \cup Begun
    /\ UNCHANGED <<kind, current, ses, req, bought, mirrored, overlapped, lost, slips>>

(* A provider changes its list, a favourite is added or deleted, a position *)
(* changes at Jupiter.                                                     *)
ListChanges ==
    /\ kind \notin Fixed
    /\ Trouble
    /\ current' \in Lists \ {current}
    /\ disturbed' = IF kind \in ReadAgain THEN disturbed \cup Begun ELSE disturbed
    /\ UNCHANGED <<kind, redis, ses, req, bought, mirrored, overlapped, lost, slips>>

Step(q) ==
    \/ Start(q) \/ NoPick(q) \/ LoadActive(q) \/ Dies(q) \/ Refuse(q) \/ NoList(q)
    \/ Misreads(q) \/ Gate(q) \/ Writes(q) \/ Pays(q) \/ PayFails(q)
    \/ PaysAndErrs(q) \/ Mirrors(q) \/ WorkFails(q)

Next ==
    \/ \E q \in Requests, s \in Sessions :
          Begin(q, s) \/ Answers(q, s) \/ GoesBack(q, s) \/ Repeat(q, s)
    \/ \E s \in Sessions : Leaves(s)
    \/ \E q \in Requests : Step(q)
    \/ \E k \in Keys : Expire(k)
    \/ ListChanges

Spec == Init /\ [][Next]_vars

-----------------------------------------------------------------------------
(* Properties. *)

(* What is paid for, or saved, is what the user picked on the screen that  *)
(* showed it and typed where it was asked for, whatever pages and Backs lay *)
(* in between: the answers that are read from the text again never slip    *)
(* against those kept in Redis.  Only a change of the list or of the key   *)
(* by another session, a late or repeated request, or time, a delete or a  *)
(* GET that failed, or a detour by way of the PAJ gate can part them.      *)
Agrees(d, w) ==
    /\ [d EXCEPT !.under = NoItem] = [w EXCEPT !.under = NoItem]
    /\ d.under = w.under \/ (kind = "data" /\ Buckets[d.item.list] = 1)
BoughtAsWished == \A b \in bought :
    b.by \in disturbed \cup overlapped \/ Agrees(b.deal, ses[b.by].wish)

(* Where the key is deleted after the purchase, nothing is bought again    *)
(* after a purchase that the handler was told of, by a repeated request    *)
(* say.  A purchase that it was told had failed leaves electricity's and   *)
(* cable's key in place, and a repeated request buys again.  (Airtime,     *)
(* data, betting, swaps, Earn and favourites have nothing that would stop  *)
(* it in either case.)                                                     *)
BoughtOnce == \A b, d \in bought :
    b.by = d.by /\ b.n < d.n /\ b.told /\ kind \in {"elect", "cable", "bank"} =>
        b.by \in disturbed \cup overlapped \cup lost

(* A digit that the screen offers is taken: the answer goes on from there. *)
(* It is not only for data with one plan type, where the segment after the *)
(* phone is skipped, and after a mistake that was answered with the same   *)
(* menu, since the mistake stays in the text.                              *)
MistakeStays(t) == /\ kind \in {"bank", "swap", "deposit", "withdraw"}
                   /\ \E i \in 1..Len(t) - 1 : t[i] = Wrong
ValidPickIsTaken == \A s \in Sessions :
    LET x == ses[s] IN
    ~x.waiting /\ x.picked # "nothing" /\ x.screen.ask # "nothing" =>
        \/ x.screen.ask \notin {x.picked, "end"}
        \/ s \in disturbed \cup lost \/ trouble > 0
        \/ kind = "data" /\ Buckets[x.screen.list] = 1 /\ Len(x.text) = 2
        \/ MistakeStays(x.text)

(* A bank that PAJ said it saved has a row here, or will have, unless a    *)
(* call failed; and nothing else has one.                                  *)
SavedBankIsMirrored == kind = "bank" =>
    \/ {b.n : b \in {b \in bought : b.told}} = mirrored
    \/ trouble > 0
    \/ \E q \in Requests : req[q].pc = "work" /\ Op("mirror") \in ToSet(req[q].todo)
=============================================================================
