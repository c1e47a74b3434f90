---------------------------- MODULE VendMenusProofs ----------------------------
(***************************************************************************)
(* Proofs about the menus that sell something, for any lists, page size,   *)
(* sessions, requests and length of the text:                              *)
(*   - VendTyped: the type invariant;                                      *)
(*   - VendBoughtAsWished: what is bought is what the user picked and      *)
(*     typed;                                                              *)
(*   - VendBoughtOnce: after a purchase that it was told of, a menu that   *)
(*     deletes its key does not buy again;                                 *)
(*   - VendValidPickTaken: a digit that the screen offers is taken;        *)
(*   - VendRowsMirrored: a bank that PAJ said it saved gets its row here.  *)
(*                                                                         *)
(* VendMenusLemmas says what a single request does: which relation between *)
(* Redis, the text and the wish (Counts) it keeps, and what it promises of *)
(* its screen (Shows).  WishInv says that this holds for each session whose *)
(* ground nothing disturbed; the steps of the others leave it alone.       *)
(* Without trouble one session at a time has the menu open, and waits for  *)
(* the only request (OneAtATime): for VendRowsMirrored that is enough,     *)
(* VendValidPickTaken needs what Shows says besides (PicksInv).            *)
(***************************************************************************)
EXTENDS VendMenusLemmas

-----------------------------------------------------------------------------
MirrorLeft == {<<Del(CatKey), Op("mirror")>>, <<Op("mirror")>>}
WorkOK(todo, say) ==
    \/ TodoOK(todo, say)
    \/ say = End /\ kind = "bank" /\ todo \in MirrorLeft

SessionOK(x) ==
    /\ x.text \in Texts /\ x.wish \in Deal /\ Plain(x.wish)
    /\ x.waiting \in BOOLEAN /\ x.picked \in {"nothing", "group", "item"}
    /\ GoodScreen(x.screen) \/ x.screen \in {Ask("nothing"), Ask("gate")}
    /\ x.screen = Ask("gate") => kind = "bank"
    /\ x.screen = Ask("nothing") /\ ~x.waiting => x.text = <<>>
RequestOK(x) ==
    /\ x.pc = "idle" => x = NoRequest
    /\ x.pc # "idle" => x.session \in Sessions /\ x.text \in Texts
    /\ x.pc = "load active" => kind = "elect" /\ x.text # <<>>
    /\ x.pc \in {"start", "load active"} => x.todo = <<>>
    /\ x.pc = "work" => /\ WorkOK(x.todo, x.say) /\ x.todo # <<>> /\ GoodScreen(x.say)
                        /\ x.text = <<>> => Writing(x.todo)
SessionsOK == \A s \in Sessions : SessionOK(ses[s])
RequestsOK == \A q \in Requests : RequestOK(req[q])
MirrorsBought == \A q \in Requests :
    req[q].pc = "work" /\ req[q].todo \in MirrorLeft =>
        \E b \in bought : b.by = req[q].session /\ b.told
Numbered == \A b \in bought : b.n <= Cardinality(bought)
TypeInv ==
    /\ VendTypeOK /\ redis \in Redis
    /\ SessionsOK /\ RequestsOK /\ MirrorsBought
    /\ IsFiniteSet(bought) /\ Numbered

(* The request of a session that has no two, NoRequest when it has none. *)
Holds(R, s, y) ==
    \/ y = NoRequest /\ \A q \in Requests : R[q].session # s
    \/ \E q \in Requests : /\ R[q] = y /\ y.session = s
                           /\ \A p \in Requests \ {q} : R[p].session # s
Of(B, s) == {b \in B : b.by = s}
Started(x) == x.waiting \/ x.screen.ask # "nothing"
Ending(y) == y.pc = "work" /\ y.say = End

(* A session x whose ground holds, with the Redis r, the list v, the request *)
(* y and the purchases B: the wish agrees with what Redis and the text come  *)
(* to, the screen shows where they are, what the request has still to write  *)
(* leaves them so, and what it sells is the wish.                            *)
Trusts(r, v, x, y) ==
    /\ Started(x) => Counts(r, v, x.text, x.wish)
    /\ ~x.waiting /\ x.screen.ask \notin {"nothing", "end"} => Shows(r, v, x.text, x.screen)
    /\ x.waiting => Ground(r, x.text) \/ Ending(y)
Works(r, v, x, y) ==
    /\ y.pc # "idle" => y.text = x.text
    /\ y.pc = "load active" /\ Started(x) => r[PickKey] = Absent
    /\ y.pc = "work" /\ x.waiting => Promise(r, y.todo, v, x.text, x.wish, y.say)
    /\ y.pc = "work" /\ Started(x) => SalesAgree(y.todo, x.wish)
    /\ y.pc = "work" /\ ~x.waiting =>
          Writing(y.todo) \/ x.screen = End \/ y.todo \in MirrorLeft
Paid(x, y, B) == \A b \in B :
    Agrees(b.deal, x.wish) /\ IF x.waiting THEN Ending(y) ELSE x.screen = End

(* Who was told of a purchase where the key is deleted finds nothing more to *)
(* buy.                                                                      *)
Rests == {<<Del(CatKey)>>, <<Del(CatKey), Op("mirror")>>, <<Op("mirror")>>}
Told(B) == \E b \in B : b.told
ToldLast(B) == \A b, d \in B : b.told => d.n <= b.n
Single(r, x, y, B) == kind \in {"elect", "cable", "bank"} /\ Told(B) =>
    /\ ToldLast(B)
    /\ r[CatKey] = Absent
          \/ (y.pc = "work" /\ y.todo \in Rests \ {<<Op("mirror")>>})
    /\ x.waiting => y.todo \in Rests
    /\ y.pc = "work" => Writing(y.todo) \/ y.todo \in MirrorLeft

Okay(r, v, x, y, B, gone) ==
    /\ Trusts(r, v, x, y) /\ Works(r, v, x, y) /\ Paid(x, y, B)
    /\ gone \/ Single(r, x, y, B)

(* The sessions that nothing disturbed. *)
Clean(s) == s \in Sessions \ (disturbed \cup overlapped)
Right(r, v, x, R, B, gone, s) ==
    \E y \in {NoRequest} \cup {R[q] : q \in Requests} :
        Holds(R, s, y) /\ Okay(r, v, x, y, Of(B, s), gone)
WishInv == \A s \in Sessions : Clean(s) =>
    Right(redis, current, ses[s], req, bought, s \in lost, s)

(* The menu of a behaviour does not change, nor what depends on it alone. *)
LEMMA SameTyped ==
    ASSUME kind' = kind
    PROVE  /\ \A x : SessionOK(x)' <=> SessionOK(x)
           /\ \A x : RequestOK(x)' <=> RequestOK(x)
           /\ \A sc : GoodScreen(sc)' <=> GoodScreen(sc)
           /\ \A todo, say : WorkOK(todo, say)' <=> WorkOK(todo, say)
           /\ \A w : Plain(w)' <=> Plain(w)
  <1>1. \A sc : GoodScreen(sc)' <=> GoodScreen(sc)
    BY DEF GoodScreen, AsksOf, OnePage, ReadAgain
  <1>2. \A w : Plain(w)' <=> Plain(w)
    BY DEF Plain, AsksOf
  <1>3. \A x : SessionOK(x)' <=> SessionOK(x)
    BY <1>1, <1>2 DEF SessionOK
  <1>4. \A todo, say : WorkOK(todo, say)' <=> WorkOK(todo, say)
    BY DEF WorkOK, TodoOK, Sale
  <1>5. \A x : RequestOK(x)' <=> RequestOK(x)
    BY <1>1, <1>4 DEF RequestOK
  <1> QED BY <1>1, <1>2, <1>3, <1>4, <1>5

LEMMA TypedIs ==
    ASSUME TypeInv
    PROVE  /\ kind \in Kinds /\ redis \in Redis /\ current \in Lists
           /\ ses \in [Sessions -> Session] /\ req \in [Requests -> Request]
           /\ \A s \in Sessions : SessionOK(ses[s]) /\ ses[s] \in Session
           /\ \A q \in Requests : RequestOK(req[q]) /\ req[q] \in Request
           /\ IsFiniteSet(bought) /\ Cardinality(bought) \in Nat
  <1>1. Cardinality(bought) \in Nat
    BY FS_CardinalityType DEF TypeInv
  <1> QED BY <1>1 DEF TypeInv, VendTypeOK, SessionsOK, RequestsOK

LEMMA TextsTyped ==
    /\ \A t \in Texts : t \in Seq(0..Wrong)
    /\ \A t \in Texts, seg \in Segs : Len(t) < MaxText => Append(t, seg) \in Texts
    /\ <<>> \in Texts
  <1>1. ASSUME NEW t \in Texts PROVE t \in Seq(0..Wrong)
    <2>1. t \in Seq(Segs) /\ Segs \subseteq 0..Wrong
      BY TextIs DEF Segs, Wrong
    <2>2. Len(t) \in Nat /\ t \in [1..Len(t) -> Segs]
      BY <2>1
    <2>3. t \in [1..Len(t) -> 0..Wrong]
      BY <2>1, <2>2
    <2> QED BY <2>2, <2>3, SeqDef
  <1>2. ASSUME NEW t \in Texts, NEW seg \in Segs, Len(t) < MaxText PROVE Append(t, seg) \in Texts
    <2>1. t \in Seq(Segs) /\ MaxText \in Nat /\ Len(t) \in Nat
      BY TextIs, Constants
    <2>2. Append(t, seg) \in Seq(Segs) /\ Len(Append(t, seg)) = Len(t) + 1
      BY <2>1, AppendTyped
    <2>3. Len(Append(t, seg)) <= MaxText
      BY <1>2, <2>1, <2>2
    <2> QED BY <2>2, <2>3 DEF Texts
  <1>3. <<>> \in Texts
    BY Constants DEF Texts
  <1> QED BY <1>1, <1>2, <1>3

(* A request that comes in, as a record. *)
Incoming(s, t) == [NoRequest EXCEPT !.pc = "start", !.session = s, !.text = t]

LEMMA ArrivesIs ==
    ASSUME TypeInv, NEW q \in Requests, NEW s \in Sessions, NEW t \in Texts, Arrives(q, s, t)
    PROVE  /\ req[q] = NoRequest
           /\ req' \in [Requests -> Request]
           /\ req'[q] = Incoming(s, t)
           /\ req'[q].pc = "start" /\ req'[q].session = s /\ req'[q].text = t
           /\ req'[q].todo = <<>> /\ RequestOK(req'[q])
           /\ \A p \in Requests \ {q} : req'[p] = req[p]
           /\ overlapped' = IF InFlight(s) THEN overlapped \cup {s} ELSE overlapped
  <1>1. req \in [Requests -> Request] /\ RequestOK(req[q]) /\ req[q].pc = "idle"
    BY TypedIs DEF Arrives
  <1>2. req[q] = NoRequest
    BY <1>1 DEF RequestOK
  <1>3. req' = [req EXCEPT ![q] = Incoming(s, t)]
    BY DEF Arrives, Incoming
  <1>4. t \in Seq(0..Wrong)
    BY TextsTyped
  <1>5. End \in Screen /\ <<>> \in Seq(Ops)
    BY ScreensAre
  <1>6. /\ Incoming(s, t) \in Request
        /\ Incoming(s, t).pc = "start" /\ Incoming(s, t).session = s
        /\ Incoming(s, t).text = t /\ Incoming(s, t).todo = <<>>
    BY <1>4, <1>5 DEF Incoming, NoRequest, Request
  <1> DEFINE x == Incoming(s, t)
  <1> HIDE DEF x
  <1>7. /\ req' \in [Requests -> Request] /\ req'[q] = x
        /\ \A p \in Requests \ {q} : req'[p] = req[p]
    BY <1>1, <1>3, <1>6 DEF x
  <1>8. RequestOK(x)
    BY <1>6 DEF RequestOK, x
  <1> QED BY <1>2, <1>6, <1>7, <1>8 DEF x, Arrives

(* A request that ends, and the answer that its user sees. *)
Shown(x, screen) == [x EXCEPT !.screen = screen, !.waiting = FALSE]

LEMMA ShownIs ==
    ASSUME NEW x \in Session, NEW screen \in Screen
    PROVE  /\ Shown(x, screen) \in Session
           /\ Shown(x, screen).screen = screen /\ Shown(x, screen).waiting = FALSE
           /\ Shown(x, screen).text = x.text /\ Shown(x, screen).picked = x.picked
           /\ Shown(x, screen).wish = x.wish
  BY DEF Shown, Session

LEMMA EndsIs ==
    ASSUME TypeInv, NEW q \in Requests, req[q].pc # "idle",
           NEW screen \in Screen, Ends(q, screen)
    PROVE  /\ req[q].session \in Sessions
           /\ req' \in [Requests -> Request] /\ req'[q] = NoRequest
           /\ \A p \in Requests \ {q} : req'[p] = req[p]
           /\ ses' \in [Sessions -> Session]
           /\ Awaited(q) => ses'[req[q].session] = Shown(ses[req[q].session], screen)
           /\ \A s \in Sessions : ~Awaited(q) \/ s # req[q].session => ses'[s] = ses[s]
  <1>1. /\ req \in [Requests -> Request] /\ RequestOK(req[q])
        /\ ses \in [Sessions -> Session]
    BY TypedIs
  <1>2. req[q].session \in Sessions
    BY <1>1 DEF RequestOK
  <1>3. NoRequest \in Request
    <2>1. End \in Screen /\ <<>> \in Seq(Ops) /\ <<>> \in Seq(0..Wrong)
      BY ScreensAre
    <2> QED BY <2>1 DEF NoRequest, Request
  <1>4. req' = [req EXCEPT ![q] = NoRequest]
    BY DEF Ends
  <1>5. /\ req' \in [Requests -> Request] /\ req'[q] = NoRequest
        /\ \A p \in Requests \ {q} : req'[p] = req[p]
    BY <1>1, <1>3, <1>4
  <1> DEFINE s == req[q].session
             x == Shown(ses[s], screen)
  <1>6. Awaited(q) => ses' = [ses EXCEPT ![s] = x]
    BY DEF Ends, Shown
  <1>7. ~Awaited(q) => ses' = ses
    BY DEF Ends
  <1>8. x \in Session
    BY <1>1, <1>2, ShownIs
  <1> HIDE DEF s, x
  <1>9. CASE Awaited(q)
    <2>1. /\ ses' \in [Sessions -> Session] /\ ses'[s] = x
          /\ \A z \in Sessions \ {s} : ses'[z] = ses[z]
      BY <1>1, <1>2, <1>6, <1>8, <1>9 DEF s
    <2> QED BY <1>2, <1>5, <1>9, <2>1 DEF s, x
  <1>10. CASE ~Awaited(q)
    BY <1>1, <1>2, <1>5, <1>7, <1>10
  <1> QED BY <1>9, <1>10


(* A request that has work, or has some of it left. *)
Working(x, todo, say) == [x EXCEPT !.pc = "work", !.todo = todo, !.say = say]
Left(x, todo) == [x EXCEPT !.todo = todo]

LEMMA WorkingIs ==
    ASSUME NEW x \in Request, NEW todo \in Seq(Ops), NEW say \in Screen
    PROVE  /\ Working(x, todo, say) \in Request
           /\ Working(x, todo, say).pc = "work" /\ Working(x, todo, say).todo = todo
           /\ Working(x, todo, say).say = say
           /\ Working(x, todo, say).text = x.text
           /\ Working(x, todo, say).session = x.session
           /\ Left(x, todo) \in Request
           /\ Left(x, todo).pc = x.pc /\ Left(x, todo).todo = todo
           /\ Left(x, todo).say = x.say /\ Left(x, todo).text = x.text
           /\ Left(x, todo).session = x.session
  BY DEF Working, Left, Request

(* One request changes. *)
Only(q, x) ==
    /\ req' \in [Requests -> Request] /\ req'[q] = x
    /\ \A p \in Requests \ {q} : req'[p] = req[p]

LEMMA HandlesIs ==
    ASSUME TypeInv, NEW q \in Requests, NEW o, Handles(q, o),
           o.todo \in Seq(Ops), o.say \in Screen
    PROVE  /\ o # Panic
           /\ \/ o.todo = <<>> /\ Ends(q, o.say)
              \/ o.todo # <<>> /\ ses' = ses /\ Only(q, Working(req[q], o.todo, o.say))
  <1>1. req \in [Requests -> Request]
    BY TypedIs
  <1> DEFINE x == Working(req[q], o.todo, o.say)
  <1>2. x \in Request
    BY <1>1, WorkingIs
  <1>3. CASE o.todo # <<>>
    <2>1. req' = [req EXCEPT ![q].pc = "work", ![q].todo = o.todo, ![q].say = o.say]
          /\ ses' = ses
      BY <1>3 DEF Handles
    <2>2. req' = [req EXCEPT ![q] = x]
      BY <1>1, <2>1 DEF Working
    <2> HIDE DEF x
    <2>3. Only(q, x)
      BY <1>1, <1>2, <2>2 DEF Only
    <2> QED BY <1>3, <2>1, <2>3 DEF Handles, x
  <1> QED BY <1>3 DEF Handles

LEMMA AdvanceIs ==
    ASSUME TypeInv, NEW q \in Requests, Advance(q), req[q].pc = "work"
    PROVE  /\ req[q].todo \in Seq(Ops) /\ req[q].todo # <<>> /\ req[q].say \in Screen
           /\ Head(req[q].todo) = req[q].todo[1] /\ Head(req[q].todo) \in Ops
           /\ \/ Len(req[q].todo) = 1 /\ Ends(q, req[q].say)
              \/ /\ Len(req[q].todo) # 1 /\ ses' = ses
                 /\ Only(q, Left(req[q], Tail(req[q].todo)))
  <1>1. req \in [Requests -> Request] /\ RequestOK(req[q])
    BY TypedIs
  <1>2. req[q].todo \in Seq(Ops) /\ req[q].todo # <<>> /\ req[q].say \in Screen
    BY <1>1 DEF Request, RequestOK
  <1>3. /\ Head(req[q].todo) = req[q].todo[1] /\ Head(req[q].todo) \in Ops
        /\ Tail(req[q].todo) \in Seq(Ops)
    BY <1>2
  <1> DEFINE x == Left(req[q], Tail(req[q].todo))
  <1>4. x \in Request
    BY <1>1, <1>2, <1>3, WorkingIs
  <1>5. CASE Len(req[q].todo) # 1
    <2>1. req' = [req EXCEPT ![q].todo = Tail(@)] /\ ses' = ses
      BY <1>5 DEF Advance
    <2>2. req' = [req EXCEPT ![q] = x]
      BY <1>1, <2>1 DEF Left
    <2> HIDE DEF x
    <2>3. Only(q, x)
      BY <1>1, <1>4, <2>2 DEF Only
    <2> QED BY <1>2, <1>3, <1>5, <2>1, <2>3 DEF x
  <1> QED BY <1>2, <1>3, <1>5 DEF Advance

LEMMA LengthIs ==
    ASSUME NEW S, NEW t \in Seq(S), t # <<>>
    PROVE  Len(t) \in Nat \ {0}
  BY FrontTyped

LEMMA MirrorLast ==
    ASSUME NEW todo \in MirrorLeft
    PROVE  \E i \in DOMAIN todo : todo[i].op = "mirror"
  <1>1. Op("mirror").op = "mirror"
    BY OpsAre
  <1>2. CASE todo = <<Op("mirror")>>
    <2>1. 1 \in DOMAIN todo /\ todo[1] = Op("mirror")
      BY <1>2
    <2> QED BY <1>1, <2>1
  <1>3. CASE todo = <<Del(CatKey), Op("mirror")>>
    <2>1. 2 \in DOMAIN todo /\ todo[2] = Op("mirror")
      BY <1>3
    <2> QED BY <1>1, <2>1
  <1> QED BY <1>2, <1>3 DEF MirrorLeft

(* What is left of the work is work of the same kind. *)
LEMMA TailIs ==
    ASSUME NEW todo \in Seq(Ops), NEW say, WorkOK(todo, say), Len(todo) # 1, todo # <<>>
    PROVE  /\ Tail(todo) # <<>> /\ Tail(todo) \in Seq(Ops) /\ WorkOK(Tail(todo), say)
           /\ Writing(todo) => Writing(Tail(todo))
           /\ Tail(todo) \in MirrorLeft => todo \in MirrorLeft \/ todo[1].op = "buy"
           /\ \A i \in DOMAIN Tail(todo) : Tail(todo)[i] = todo[i + 1] /\ i + 1 \in DOMAIN todo
           /\ Len(Tail(todo)) = Len(todo) - 1
           /\ todo[1].op = "buy" => Writing(Tail(todo)) \/ Tail(todo) \in MirrorLeft
  <1>1. /\ Tail(todo) # <<>> /\ Tail(todo) \in Seq(Ops) /\ Len(Tail(todo)) = Len(todo) - 1
        /\ \A i \in DOMAIN Tail(todo) : Tail(todo)[i] = todo[i + 1] /\ i + 1 \in DOMAIN todo
        /\ Len(todo) >= 2
    <2>1. Len(todo) \in Nat /\ Len(todo) >= 2
      <3>1. Len(todo) \in Nat \ {0}
        BY LengthIs
      <3> QED BY <3>1, AtLeastTwo
    <2>2. Tail(todo) \in Seq(Ops) /\ Len(Tail(todo)) = Len(todo) - 1
      BY <2>1
    <2>3. Tail(todo) # <<>>
      <3>1. Len(Tail(todo)) # 0 /\ Len(<<>>) = 0
        BY <2>1, <2>2
      <3> QED BY <3>1
    <2>4. DOMAIN Tail(todo) = 1..(Len(todo) - 1) /\ DOMAIN todo = 1..Len(todo)
      BY <2>1, <2>2
    <2>5. ASSUME NEW i \in DOMAIN Tail(todo)
          PROVE  Tail(todo)[i] = todo[i + 1] /\ i + 1 \in DOMAIN todo
      BY <2>1, <2>4
    <2> QED BY <2>1, <2>2, <2>3, <2>5
  <1>2. Writing(todo) => Writing(Tail(todo))
    BY <1>1 DEF Writing
  <1>3. CASE Writing(todo)
    <2>1. Tail(todo) \notin MirrorLeft
      BY <1>2, <1>3, MirrorLast DEF Writing, Stores
    <2>2. todo[1].op # "buy"
      BY <1>1, <1>3 DEF Writing, Stores
    <2> QED BY <1>1, <1>2, <1>3, <2>1, <2>2 DEF WorkOK, TodoOK
  <1>4. ASSUME say = End, NEW d \in Deal, Sale(todo, d)
        PROVE  /\ WorkOK(Tail(todo), say)
               /\ Tail(todo) \in MirrorLeft => todo[1].op = "buy"
               /\ todo[1].op = "buy" => Writing(Tail(todo)) \/ Tail(todo) \in MirrorLeft
               /\ ~Writing(todo)
    <2>0. Buy(d).op = "buy" /\ Buy(d) \in Ops /\ CatKey \in Keys
      BY OpsAre, Constants
    <2>1. CASE kind = "data" /\ Len(todo) = 2 /\ Stores(todo[1]) /\ todo[2] = Buy(d)
      <3>1. Tail(todo) = <<Buy(d)>>
        <4> DEFINE a == todo[1]
        <4> HIDE DEF a
        <4>1. todo = <<a, Buy(d)>>
          BY <2>1 DEF a
        <4>2. Tail(<<a, Buy(d)>>) = <<Buy(d)>>
          OBVIOUS
        <4> QED BY <4>1, <4>2
      <3>2. Sale(<<Buy(d)>>, d)
        BY <2>1 DEF Sale
      <3>3. Op("mirror").op = "mirror" /\ Del(CatKey).op = "del"
        BY OpsAre, <2>0
      <3>4. Tail(todo) \notin MirrorLeft
        <4>1. \A i \in DOMAIN <<Buy(d)>> : <<Buy(d)>>[i] = Buy(d)
          OBVIOUS
        <4> QED BY <2>0, <3>1, <4>1, MirrorLast
      <3>5. todo[1].op # "buy"
        BY <2>1 DEF Stores
      <3>6. ~Writing(todo)
        BY <2>0, <2>1 DEF Writing, Stores
      <3> QED BY <1>1, <1>4, <3>1, <3>2, <3>4, <3>5, <3>6 DEF WorkOK, TodoOK
    <2>2. CASE kind \in {"elect", "cable"} /\ todo = <<Buy(d), Del(CatKey)>>
      <3>1. Tail(todo) = <<Del(CatKey)>> /\ todo[1] = Buy(d) /\ 1 \in DOMAIN todo
        BY <2>2
      <3>2. Stores(Del(CatKey))
        BY <2>0, OpsAre
      <3>3. Writing(<<Del(CatKey)>>)
        BY <3>2 DEF Writing
      <3>4. ~Writing(todo)
        BY <2>0, <3>1 DEF Writing, Stores
      <3> QED BY <1>1, <2>0, <3>1, <3>3, <3>4 DEF WorkOK, TodoOK
    <2>3. CASE kind = "bank" /\ todo = <<Buy(d), Del(CatKey), Op("mirror")>>
      <3>1. Tail(todo) = <<Del(CatKey), Op("mirror")>> /\ todo[1] = Buy(d) /\ 1 \in DOMAIN todo
        BY <2>3
      <3>2. Tail(todo) \in MirrorLeft
        BY <3>1 DEF MirrorLeft
      <3>3. ~Writing(todo)
        BY <2>0, <3>1 DEF Writing, Stores
      <3> QED BY <1>4, <2>0, <2>3, <3>1, <3>2, <3>3 DEF WorkOK
    <2>4. todo # <<Buy(d)>>
      BY <1>1
    <2> QED BY <1>4, <2>1, <2>2, <2>3, <2>4 DEF Sale
  <1>5. CASE say = End /\ kind = "bank" /\ todo \in MirrorLeft
    <2>1. todo = <<Del(CatKey), Op("mirror")>>
      BY <1>1, <1>5 DEF MirrorLeft
    <2>2. Tail(todo) = <<Op("mirror")>> /\ todo[1] = Del(CatKey)
      BY <2>1
    <2>3. Tail(todo) \in MirrorLeft
      BY <2>2 DEF MirrorLeft
    <2>4. todo[1].op # "buy"
      BY <2>2, OpsAre, Constants
    <2>5. ~Writing(todo)
      <3>1. todo[2] = Op("mirror") /\ 2 \in DOMAIN todo /\ Op("mirror").op = "mirror"
        BY <2>1, OpsAre
      <3> QED BY <3>1 DEF Writing, Stores
    <2> QED BY <1>1, <1>5, <2>3, <2>4, <2>5 DEF WorkOK
  <1>6. Writing(todo) \/ (say = End /\ \E d \in Deal : Sale(todo, d))
        \/ (say = End /\ kind = "bank" /\ todo \in MirrorLeft)
    BY DEF WorkOK, TodoOK
  <1> QED BY <1>1, <1>2, <1>3, <1>4, <1>5, <1>6

(* The next piece of the work. *)
LEMMA HeadIs ==
    ASSUME NEW todo \in Seq(Ops), NEW say, WorkOK(todo, say), todo # <<>>
    PROVE  /\ todo[1].op \in {"set", "touch", "del"} => Stores(todo[1]) /\ todo[1].key \in Keys
           /\ todo[1].op = "buy" => /\ say = End /\ todo[1].deal \in Deal
                                    /\ ~Writing(todo) /\ todo \notin MirrorLeft
           /\ todo[1].op = "mirror" => todo \in MirrorLeft /\ Len(todo) = 1 /\ say = End
           /\ todo[1].op \in {"set", "touch", "del", "buy", "mirror"}
  <1>1. 1 \in DOMAIN todo /\ todo[1] \in Ops
    OBVIOUS
  <1>2. todo[1].key \in Keys /\ todo[1].deal \in Deal
        /\ todo[1].op \in {"set", "touch", "del", "buy", "mirror"}
    BY <1>1 DEF Ops
  <1>3. Op("mirror").op = "mirror" /\ Del(CatKey).op = "del" /\ Stores(Del(CatKey))
    BY OpsAre, Constants
  <1>4. CASE Writing(todo)
    BY <1>1, <1>2, <1>4 DEF Writing, Stores
  <1>5. ASSUME say = End, NEW d \in Deal, Sale(todo, d)
        PROVE  \/ Stores(todo[1]) /\ todo[1].op = "set"
               \/ todo[1] = Buy(d) /\ ~Writing(todo) /\ todo \notin MirrorLeft
    <2>1. CASE todo[1] = Buy(d)
      <3>1. Buy(d).op = "buy"
        BY OpsAre
      <3>2. ~Writing(todo)
        BY <1>1, <2>1, <3>1 DEF Writing, Stores
      <3>3. todo \in MirrorLeft => todo[1] \in {Del(CatKey), Op("mirror")}
        BY DEF MirrorLeft
      <3> QED BY <1>3, <2>1, <3>1, <3>2, <3>3
    <2>2. todo[1] = Buy(d) \/ (Stores(todo[1]) /\ todo[1].op = "set")
      BY <1>5 DEF Sale
    <2> QED BY <2>1, <2>2
  <1>6. CASE say = End /\ kind = "bank" /\ todo \in MirrorLeft
    <2>1. CASE todo = <<Del(CatKey), Op("mirror")>>
      BY <1>2, <1>3, <1>6, <2>1
    <2>2. CASE todo = <<Op("mirror")>>
      BY <1>2, <1>3, <1>6, <2>2
    <2> QED BY <1>6, <2>1, <2>2 DEF MirrorLeft
  <1>7. Writing(todo) \/ (say = End /\ \E d \in Deal : Sale(todo, d))
        \/ (say = End /\ kind = "bank" /\ todo \in MirrorLeft)
    BY DEF WorkOK, TodoOK
  <1>8. CASE say = End /\ \E d \in Deal : Sale(todo, d)
    <2>1. PICK d \in Deal : \/ Stores(todo[1]) /\ todo[1].op = "set"
                            \/ todo[1] = Buy(d) /\ ~Writing(todo) /\ todo \notin MirrorLeft
      BY <1>5, <1>8
    <2>2. Buy(d).op = "buy"
      BY OpsAre
    <2> QED BY <1>2, <1>8, <2>1, <2>2
  <1> QED BY <1>4, <1>6, <1>7, <1>8


(* What a step has to show for the types. *)
LEMMA TypedStep ==
    ASSUME TypeInv, kind' = kind, redis' \in Redis, current' \in Lists,
           ses' \in [Sessions -> Session],
           \A s \in Sessions : ses'[s] = ses[s] \/ SessionOK(ses'[s]),
           req' \in [Requests -> Request],
           \A q \in Requests : req'[q] = req[q] \/ RequestOK(req'[q]),
           MirrorsBought',
           bought' \subseteq [n: Nat, by: Sessions, deal: Deal, told: BOOLEAN], IsFiniteSet(bought'),
           bought' = bought \/ Numbered',
           mirrored' \subseteq {b.n : b \in bought'},
           disturbed' \cup overlapped' \cup lost' \subseteq Sessions,
           slips' \in 0..Budget, trouble' \in 0..Budget
    PROVE  TypeInv'
  <1>1. VendTypeOK'
    <2>1. redis' \in [Keys -> Catalog]
      BY DEF Redis
    <2> QED BY <2>1, TypedIs DEF VendTypeOK
  <1>2. redis' \in Redis'
    BY DEF Redis, GoodCopy
  <1>3. SessionsOK'
    <2>1. \A s \in Sessions : SessionOK(ses'[s])
      BY TypedIs
    <2> QED BY <2>1, SameTyped DEF SessionsOK
  <1>4. RequestsOK'
    <2>1. \A q \in Requests : RequestOK(req'[q])
      BY TypedIs
    <2> QED BY <2>1, SameTyped DEF RequestsOK
  <1>5. Numbered'
    BY DEF TypeInv, Numbered
  <1> QED BY <1>1, <1>2, <1>3, <1>4, <1>5 DEF TypeInv

LEMMA MirrorsKept ==
    ASSUME TypeInv, bought \subseteq bought',
           \A q \in Requests : \/ req'[q] = req[q] \/ req'[q].pc # "work"
                               \/ req'[q].todo \notin MirrorLeft
    PROVE  MirrorsBought'
  BY DEF TypeInv, MirrorsBought

LEMMA GhostsTyped ==
    ASSUME TypeInv
    PROVE  /\ disturbed \subseteq Sessions /\ overlapped \subseteq Sessions
           /\ lost \subseteq Sessions
           /\ slips \in 0..Budget /\ trouble \in 0..Budget
           /\ bought \subseteq [n: Nat, by: Sessions, deal: Deal, told: BOOLEAN] /\ IsFiniteSet(bought)
           /\ mirrored \subseteq {b.n : b \in bought}
           /\ Trouble => trouble' \in 0..Budget
           /\ Slip => slips' \in 0..Budget
           /\ slips + trouble + 2 <= Budget /\ trouble' = trouble + 2 => trouble' \in 0..Budget
           /\ Begun \subseteq Sessions
  <1>1. slips \in 0..Budget /\ trouble \in 0..Budget /\ Budget \in Nat
    BY Constants DEF TypeInv, VendTypeOK
  <1>2. Begun \subseteq Sessions
    BY DEF Begun
  <1>3. /\ Trouble => trouble' \in 0..Budget
        /\ Slip => slips' \in 0..Budget
        /\ slips + trouble + 2 <= Budget /\ trouble' = trouble + 2 => trouble' \in 0..Budget
    BY <1>1 DEF Trouble, Slip
  <1> QED BY <1>1, <1>2, <1>3 DEF TypeInv, VendTypeOK

(* The session as the user changes it. *)
Opening(x) == [x EXCEPT !.waiting = TRUE, !.wish = NoDeal]
Typing(x, seg) == [x EXCEPT !.text = Press(x.text, seg), !.waiting = TRUE,
                            !.picked = IF seg \in Options(x.screen)
                                       THEN x.screen.ask ELSE "nothing",
                            !.wish = Wished(x.wish, x.screen, seg)]
Leaving(x) == [x EXCEPT !.screen = Ask("nothing")]

LEMMA OpeningIs ==
    ASSUME NEW x \in Session
    PROVE  /\ Opening(x) \in Session /\ Opening(x).waiting = TRUE
           /\ Opening(x).wish = NoDeal /\ Opening(x).text = x.text
           /\ Opening(x).screen = x.screen /\ Opening(x).picked = x.picked
  BY AbsentIs DEF Opening, Session

LEMMA LeavingIs ==
    ASSUME NEW x \in Session
    PROVE  /\ Leaving(x) \in Session /\ Leaving(x).screen = Ask("nothing")
           /\ Leaving(x).wish = x.wish /\ Leaving(x).text = x.text
           /\ Leaving(x).waiting = x.waiting /\ Leaving(x).picked = x.picked
  <1>1. Ask("nothing") \in Screen
    BY ScreensAre DEF Asks
  <1> QED BY <1>1 DEF Leaving, Session

LEMMA TypingIs ==
    ASSUME NEW x \in Session, SessionOK(x), NEW seg \in Segs \cup {Back},
           NEW text \in Texts, text = Press(x.text, seg),
           NEW w \in Deal, w = Wished(x.wish, x.screen, seg)
    PROVE  /\ Typing(x, seg) \in Session /\ Typing(x, seg).text = text
           /\ Typing(x, seg).waiting = TRUE /\ Typing(x, seg).screen = x.screen
           /\ Typing(x, seg).wish = w
           /\ Typing(x, seg).picked \in {"nothing", "group", "item"}
  <1> DEFINE n == IF seg \in Options(x.screen) THEN x.screen.ask ELSE "nothing"
  <1>1. n \in {"nothing", "group", "item"} /\ n \in Asks
    BY DEF Options, Asks
  <1>2. text \in Seq(0..Wrong)
    BY TextsTyped
  <1>3. Typing(x, seg) = [x EXCEPT !.text = text, !.waiting = TRUE, !.picked = n, !.wish = w]
    BY DEF Typing
  <1> HIDE DEF n
  <1> QED BY <1>1, <1>2, <1>3 DEF Session

(* One session changes. *)
OnlySession(s, x) ==
    /\ ses' \in [Sessions -> Session] /\ ses'[s] = x
    /\ \A z \in Sessions \ {s} : ses'[z] = ses[z]

LEMMA BeginIs ==
    ASSUME TypeInv, NEW q \in Requests, NEW s \in Sessions, Begin(q, s)
    PROVE  /\ ses[s].screen = Ask("nothing") /\ ~ses[s].waiting /\ ses[s].text = <<>>
           /\ req[q] = NoRequest /\ Only(q, Incoming(s, <<>>))
           /\ OnlySession(s, Opening(ses[s])) /\ SessionOK(Opening(ses[s]))
           /\ RequestOK(Incoming(s, <<>>)) /\ Incoming(s, <<>>).pc = "start"
           /\ Incoming(s, <<>>).session = s /\ Incoming(s, <<>>).text = <<>>
           /\ overlapped' = IF InFlight(s) THEN overlapped \cup {s} ELSE overlapped
  <1>1. ses \in [Sessions -> Session] /\ SessionOK(ses[s]) /\ ses[s] \in Session
    BY TypedIs
  <1>2. ses[s].screen = Ask("nothing") /\ ~ses[s].waiting /\ ses[s].text = <<>>
    BY <1>1 DEF Begin, SessionOK
  <1>3. ses' = [ses EXCEPT ![s] = Opening(ses[s])]
    BY <1>1 DEF Begin, Opening
  <1> DEFINE x == Opening(ses[s])
  <1>4. x \in Session /\ x.waiting = TRUE /\ x.wish = NoDeal /\ x.text = ses[s].text
        /\ x.screen = ses[s].screen /\ x.picked = ses[s].picked
    BY <1>1, OpeningIs
  <1>5. SessionOK(x)
    <2>1. NoDeal \in Deal /\ Plain(NoDeal)
      BY AbsentIs DEF Plain, NoDeal
    <2> HIDE DEF x
    <2> QED BY <1>1, <1>4, <2>1 DEF SessionOK
  <1> HIDE DEF x
  <1>6. OnlySession(s, x)
    BY <1>1, <1>3, <1>4 DEF OnlySession, x
  <1>7. /\ <<>> \in Texts /\ Arrives(q, s, <<>>)
    BY TextsTyped DEF Begin
  <1>8. /\ req[q] = NoRequest /\ req' \in [Requests -> Request]
        /\ req'[q] = Incoming(s, <<>>)
        /\ req'[q].pc = "start" /\ req'[q].session = s /\ req'[q].text = <<>>
        /\ RequestOK(req'[q])
        /\ \A p \in Requests \ {q} : req'[p] = req[p]
        /\ overlapped' = IF InFlight(s) THEN overlapped \cup {s} ELSE overlapped
    BY <1>7, ArrivesIs
  <1> DEFINE y == Incoming(s, <<>>)
  <1> HIDE DEF y
  <1>9. Only(q, y) /\ RequestOK(y) /\ y.pc = "start" /\ y.session = s /\ y.text = <<>>
    BY <1>8 DEF Only, y
  <1> QED BY <1>2, <1>5, <1>6, <1>8, <1>9 DEF x, y

LEMMA TypeIs ==
    ASSUME TypeInv, NEW q \in Requests, NEW s \in Sessions, NEW seg, Type(q, s, seg),
           seg \in Sensible(ses[s].screen) \/ (seg = Back /\ ses[s].text # <<>>)
    PROVE  /\ Typed(ses[s].screen) /\ ses[s].screen # End /\ ~ses[s].waiting
           /\ ses[s].screen.ask \notin {"nothing", "end"}
           /\ seg = Back <=> ~(seg \in Sensible(ses[s].screen))
           /\ seg # Back => seg \in Segs
           /\ Press(ses[s].text, seg) \in Texts
           /\ seg # Back => Press(ses[s].text, seg) = Append(ses[s].text, seg)
           /\ seg = Back => Press(ses[s].text, seg) = Front(ses[s].text)
           /\ Wished(ses[s].wish, ses[s].screen, seg) \in Deal
           /\ Plain(Wished(ses[s].wish, ses[s].screen, seg))
           /\ req[q] = NoRequest
           /\ Only(q, Incoming(s, Press(ses[s].text, seg)))
           /\ RequestOK(Incoming(s, Press(ses[s].text, seg)))
           /\ Incoming(s, Press(ses[s].text, seg)).pc = "start"
           /\ Incoming(s, Press(ses[s].text, seg)).session = s
           /\ Incoming(s, Press(ses[s].text, seg)).text = Press(ses[s].text, seg)
           /\ OnlySession(s, Typing(ses[s], seg)) /\ SessionOK(Typing(ses[s], seg))
           /\ Typing(ses[s], seg).text = Press(ses[s].text, seg)
           /\ Typing(ses[s], seg).waiting = TRUE
           /\ Typing(ses[s], seg).screen = ses[s].screen
           /\ Typing(ses[s], seg).wish = Wished(ses[s].wish, ses[s].screen, seg)
           /\ overlapped' = IF InFlight(s) THEN overlapped \cup {s} ELSE overlapped
  <1> DEFINE x == ses[s]
             sc == x.screen
             text == Press(x.text, seg)
             w == Wished(x.wish, sc, seg)
  <1>1. ses \in [Sessions -> Session] /\ SessionOK(x) /\ x \in Session
    BY TypedIs
  <1>2. /\ ~x.waiting /\ sc.ask \notin {"nothing", "end"} /\ Len(x.text) < MaxText
        /\ Arrives(q, s, text)
    BY DEF Type
  <1>3. ses' = [ses EXCEPT ![s] = Typing(x, seg)]
    BY <1>1 DEF Type, Typing
  <1> HIDE DEF x
  <1>4. /\ x.text \in Texts /\ x.wish \in Deal /\ Plain(x.wish)
        /\ GoodScreen(sc) \/ sc \in {Ask("nothing"), Ask("gate")}
        /\ x.screen = Ask("gate") => kind = "bank"
    BY <1>1 DEF SessionOK
  <1>5. Typed(sc) /\ sc # End
    <2>1. Ask("nothing").ask = "nothing" /\ End.ask = "end"
      BY DEF Ask, End
    <2> QED BY <1>2, <1>4, <2>1 DEF Typed
  <1>6. seg \in Sensible(sc) => /\ seg \in Segs /\ seg # Back /\ w \in Deal /\ Plain(w)
    BY <1>4, <1>5, SensibleIs
  <1>7. seg = Back => w = x.wish
    BY <1>5, BackWish
  <1>8. w \in Deal /\ Plain(w) /\ (seg = Back <=> ~(seg \in Sensible(sc)))
        /\ (seg # Back => seg \in Segs)
    BY <1>4, <1>6, <1>7 DEF x
  <1>9. /\ text \in Texts /\ (seg # Back => text = Append(x.text, seg))
        /\ (seg = Back => text = Front(x.text))
    <2>1. CASE seg = Back
      <3>1. x.text # <<>> /\ text = Front(x.text)
        BY <1>8, <2>1 DEF Press, x
      <3>2. Front(x.text) \in Texts
        BY <1>4, <3>1, ShorterIs
      <3> QED BY <2>1, <3>1, <3>2
    <2>2. CASE seg # Back
      <3>1. text = Append(x.text, seg)
        BY <2>2 DEF Press
      <3>2. Append(x.text, seg) \in Texts
        BY <1>2, <1>4, <1>8, <2>2, TextsTyped
      <3> QED BY <2>2, <3>1, <3>2
    <2> QED BY <2>1, <2>2
  <1> HIDE DEF text, w
  <1>10. /\ req[q] = NoRequest /\ req' \in [Requests -> Request]
         /\ req'[q] = Incoming(s, text)
         /\ req'[q].pc = "start" /\ req'[q].session = s /\ req'[q].text = text
         /\ RequestOK(req'[q])
         /\ \A p \in Requests \ {q} : req'[p] = req[p]
         /\ overlapped' = IF InFlight(s) THEN overlapped \cup {s} ELSE overlapped
    BY <1>2, <1>9, ArrivesIs
  <1> DEFINE y == Incoming(s, text)
             z == Typing(x, seg)
  <1>11. /\ z \in Session /\ z.text = text /\ z.waiting = TRUE /\ z.screen = sc
         /\ z.wish = w /\ z.picked \in {"nothing", "group", "item"}
    <2>1. x \in Session /\ SessionOK(x) /\ x.screen = sc
      BY <1>1 DEF x
    <2>2. seg \in Segs \cup {Back}
      BY <1>8
    <2>3. text = Press(x.text, seg) /\ w = Wished(x.wish, x.screen, seg)
      BY <2>1 DEF text, w
    <2> HIDE DEF z
    <2>4. z = Typing(x, seg)
      BY DEF z
    <2>5. text \in Texts /\ w \in Deal
      BY <1>8, <1>9
    <2>6. /\ Typing(x, seg) \in Session /\ Typing(x, seg).text = text
          /\ Typing(x, seg).waiting = TRUE /\ Typing(x, seg).screen = x.screen
          /\ Typing(x, seg).wish = w
          /\ Typing(x, seg).picked \in {"nothing", "group", "item"}
      BY <2>1, <2>2, <2>3, <2>5, TypingIs, Zenon
    <2> QED BY <2>1, <2>4, <2>6
  <1> HIDE DEF y, z
  <1>12. Only(q, y) /\ RequestOK(y) /\ y.pc = "start" /\ y.session = s /\ y.text = text
    BY <1>10 DEF Only, y
  <1>13. SessionOK(z)
    BY <1>4, <1>8, <1>9, <1>11 DEF SessionOK
  <1>14. OnlySession(s, z)
    BY <1>1, <1>3, <1>11 DEF OnlySession, z
  <1> QED BY <1>2, <1>5, <1>8, <1>9, <1>10, <1>11, <1>12, <1>13, <1>14 DEF x, y, z, text, w


(* What a step has to show for the sessions, the requests and the banks. *)
SessionsStep ==
    /\ ses' \in [Sessions -> Session]
    /\ \A s \in Sessions : ses'[s] = ses[s] \/ SessionOK(ses'[s])
RequestsStep ==
    /\ req' \in [Requests -> Request]
    /\ \A q \in Requests : req'[q] = req[q] \/ RequestOK(req'[q])
MirrorsStep == \A q \in Requests :
    req'[q] = req[q] \/ req'[q].pc # "work" \/ req'[q].todo \notin MirrorLeft

LEMMA IdleIs ==
    /\ NoRequest.pc = "idle" /\ NoRequest.session = "nobody" /\ RequestOK(NoRequest)
    /\ "nobody" \notin Sessions /\ NoRequest \in Request
  <1>1. NoRequest.pc = "idle" /\ NoRequest.session = "nobody"
    BY DEF NoRequest
  <1>2. RequestOK(NoRequest)
    BY <1>1 DEF RequestOK
  <1>3. NoRequest \in Request
    <2>1. End \in Screen /\ <<>> \in Seq(Ops) /\ <<>> \in Seq(0..Wrong)
      BY ScreensAre
    <2> QED BY <2>1 DEF NoRequest, Request
  <1> QED BY <1>1, <1>2, <1>3, VendAssumption

LEMMA StillTyped ==
    ASSUME TypeInv
    PROVE  /\ ses' = ses => SessionsStep
           /\ req' = req => RequestsStep /\ MirrorsStep
  <1>1. ses \in [Sessions -> Session] /\ req \in [Requests -> Request]
    BY TypedIs
  <1> QED BY <1>1 DEF SessionsStep, RequestsStep, MirrorsStep

LEMMA OnlyTyped ==
    ASSUME TypeInv, NEW q \in Requests, NEW x, Only(q, x), RequestOK(x),
           x.pc # "work" \/ x.todo \notin MirrorLeft
    PROVE  RequestsStep /\ MirrorsStep
  BY DEF Only, RequestsStep, MirrorsStep

LEMMA OnlySessionTyped ==
    ASSUME TypeInv, NEW s \in Sessions, NEW x, OnlySession(s, x), SessionOK(x)
    PROVE  SessionsStep
  BY DEF OnlySession, SessionsStep

LEMMA EndsTyped ==
    ASSUME TypeInv, NEW q \in Requests, req[q].pc # "idle", NEW screen,
           GoodScreen(screen) \/ (kind = "bank" /\ screen = Ask("gate")), Ends(q, screen)
    PROVE  SessionsStep /\ RequestsStep /\ MirrorsStep
  <1>1. screen \in Screen /\ screen # Ask("nothing") /\ (screen = Ask("gate") => kind = "bank")
    <2>1. Ask("gate") \in Screen /\ Ask("gate").ask = "gate" /\ Ask("nothing").ask = "nothing"
      BY ScreensAre DEF Asks
    <2>2. GoodScreen(screen) => screen \in Screen /\ screen.ask \notin {"nothing", "gate"}
      <3>1. ASSUME screen.ask \in {"nothing", "gate"}
            PROVE  screen.ask \notin AsksOf(kind) \cup {"end"}
        <4>1. kind \in Catalogued \cup ReadAgain \cup Fixed
          BY TypedIs, VendAssumption
        <4> QED BY <3>1, <4>1 DEF AsksOf, Catalogued, ReadAgain, Fixed
      <3> QED BY <3>1 DEF GoodScreen
    <2> QED BY <2>1, <2>2
  <1> DEFINE s == req[q].session
  <1>2. /\ s \in Sessions
        /\ req' \in [Requests -> Request] /\ req'[q] = NoRequest
        /\ \A p \in Requests \ {q} : req'[p] = req[p]
        /\ ses' \in [Sessions -> Session]
        /\ Awaited(q) => ses'[s] = Shown(ses[s], screen)
        /\ \A z \in Sessions : ~Awaited(q) \/ z # s => ses'[z] = ses[z]
    BY <1>1, EndsIs
  <1> HIDE DEF s
  <1>3. ses[s] \in Session /\ SessionOK(ses[s])
    BY <1>2, TypedIs
  <1>4. SessionOK(Shown(ses[s], screen))
    <2> DEFINE x == ses[s]
               y == Shown(x, screen)
    <2>1. /\ y.screen = screen /\ y.waiting = FALSE /\ y.text = x.text
          /\ y.picked = x.picked /\ y.wish = x.wish
      BY <1>1, <1>3, ShownIs
    <2> HIDE DEF y
    <2> QED BY <1>1, <1>3, <2>1 DEF SessionOK, y
  <1>5. SessionsStep
    BY <1>2, <1>4 DEF SessionsStep
  <1>6. RequestsStep /\ MirrorsStep
    BY <1>2, IdleIs DEF RequestsStep, MirrorsStep
  <1> QED BY <1>5, <1>6

(* The work of an answer. *)
LEMMA WorkingOK ==
    ASSUME NEW x \in Request, RequestOK(x), x.pc # "idle",
           NEW todo \in Seq(Ops), todo # <<>>, NEW say \in Screen, GoodScreen(say),
           TodoOK(todo, say), x.text = <<>> => Writing(todo)
    PROVE  RequestOK(Working(x, todo, say)) /\ Working(x, todo, say).todo = todo
  <1> DEFINE y == Working(x, todo, say)
  <1>1. /\ y.pc = "work" /\ y.todo = todo /\ y.say = say /\ y.text = x.text
        /\ y.session = x.session
    BY WorkingIs
  <1>2. x.session \in Sessions /\ x.text \in Texts
    BY DEF RequestOK
  <1> HIDE DEF y
  <1>3. RequestOK(y)
    BY <1>1, <1>2 DEF RequestOK, WorkOK
  <1> QED BY <1>1, <1>3 DEF y

LEMMA NoMirror ==
    ASSUME NEW todo \in Seq(Ops), todo # <<>>, NEW say, TodoOK(todo, say)
    PROVE  todo \notin MirrorLeft
  <1>1. SUFFICES ASSUME todo \in MirrorLeft PROVE FALSE
    OBVIOUS
  <1>2. PICK i \in DOMAIN todo : todo[i].op = "mirror"
    BY <1>1, MirrorLast
  <1>3. ~Writing(todo)
    BY <1>2 DEF Writing, Stores
  <1>4. WorkOK(todo, say)
    BY DEF WorkOK
  <1>5. PICK d \in Deal : Sale(todo, d)
    BY <1>3 DEF TodoOK
  <1>6. todo[1] \in {Del(CatKey), Op("mirror")}
    BY <1>1 DEF MirrorLeft
  <1>7. Buy(d).op = "buy" /\ Del(CatKey).op = "del" /\ Op("mirror").op = "mirror"
    BY OpsAre, Constants
  <1>8. todo[1] = Buy(d) \/ (Stores(todo[1]) /\ todo[1].op = "set")
    BY <1>5 DEF Sale
  <1> QED BY <1>6, <1>7, <1>8

(* An answer of Respond is worked off, or shown. *)
LEMMA HandlesTyped ==
    ASSUME TypeInv, NEW q \in Requests, req[q].pc \in {"start", "load active"},
           NEW o, Handles(q, o), o # Panic => Proper(o, req[q].text)
    PROVE  SessionsStep /\ RequestsStep /\ MirrorsStep
  <1> DEFINE x == req[q]
             todo == o.todo
             say == o.say
  <1>1. Proper(o, x.text)
    BY DEF Handles
  <1>2. /\ GoodScreen(say) /\ TodoOK(todo, say) /\ (x.text = <<>> => Writing(todo))
        /\ todo \in Seq(Ops) /\ say \in Screen
    BY <1>1 DEF Proper, TodoOK, GoodScreen
  <1>3. \/ todo = <<>> /\ Ends(q, say)
        \/ todo # <<>> /\ ses' = ses /\ Only(q, Working(x, todo, say))
    BY <1>2, HandlesIs
  <1>4. x \in Request /\ RequestOK(x)
    BY TypedIs
  <1> HIDE DEF x, todo, say
  <1>5. CASE todo = <<>> /\ Ends(q, say)
    BY <1>2, <1>5, EndsTyped DEF x
  <1>6. CASE todo # <<>> /\ ses' = ses /\ Only(q, Working(x, todo, say))
    <2> DEFINE y == Working(x, todo, say)
    <2>1. RequestOK(y) /\ y.todo = todo /\ todo \notin MirrorLeft
      BY <1>2, <1>4, <1>6, WorkingOK, NoMirror DEF x
    <2> HIDE DEF y
    <2>2. RequestsStep /\ MirrorsStep
      BY <1>6, <2>1, OnlyTyped DEF y
    <2> QED BY <1>6, <2>2, StillTyped
  <1> QED BY <1>3, <1>5, <1>6

(* The next piece of the work is done. *)
LEMMA AdvanceTyped ==
    ASSUME TypeInv, NEW q \in Requests, req[q].pc = "work", Advance(q),
           bought \subseteq bought',
           req[q].todo[1].op = "buy" => \E b \in bought' : b.by = req[q].session /\ b.told
    PROVE  SessionsStep /\ RequestsStep /\ MirrorsBought'
  <1> DEFINE x == req[q]
             todo == x.todo
             rest == Tail(todo)
  <1>1. /\ todo \in Seq(Ops) /\ todo # <<>> /\ x.say \in Screen
        /\ \/ Len(todo) = 1 /\ Ends(q, x.say)
           \/ Len(todo) # 1 /\ ses' = ses /\ Only(q, Left(x, rest))
    BY AdvanceIs
  <1>2. /\ x \in Request /\ x.session \in Sessions /\ x.text \in Texts
        /\ WorkOK(todo, x.say) /\ GoodScreen(x.say)
        /\ (x.text = <<>> => Writing(todo))
    BY TypedIs DEF RequestOK
  <1> HIDE DEF x, todo, rest
  <1>3. CASE Len(todo) = 1 /\ Ends(q, x.say)
    <2>1. SessionsStep /\ RequestsStep /\ MirrorsStep
      BY <1>2, <1>3, EndsTyped DEF x
    <2> QED BY <2>1, MirrorsKept DEF MirrorsStep
  <1>4. CASE Len(todo) # 1 /\ ses' = ses /\ Only(q, Left(x, rest))
    <2> DEFINE y == Left(x, rest)
    <2>1. /\ rest # <<>> /\ rest \in Seq(Ops) /\ WorkOK(rest, x.say)
          /\ (Writing(todo) => Writing(rest))
          /\ (rest \in MirrorLeft => todo \in MirrorLeft \/ todo[1].op = "buy")
      BY <1>1, <1>2, <1>4, TailIs DEF rest
    <2>2. /\ y.pc = x.pc /\ y.todo = rest /\ y.say = x.say /\ y.text = x.text
          /\ y.session = x.session
      BY <1>1, <1>2, <2>1, WorkingIs
    <2> HIDE DEF y
    <2>3. RequestOK(y)
      BY <1>2, <2>1, <2>2 DEF RequestOK, x
    <2>4. RequestsStep
      BY <1>4, <2>3 DEF RequestsStep, Only, y
    <2>5. MirrorsBought'
      <3>1. SUFFICES ASSUME NEW p \in Requests, req'[p].pc = "work", req'[p].todo \in MirrorLeft
                     PROVE  \E b \in bought' : b.by = req'[p].session /\ b.told
        BY DEF MirrorsBought, MirrorLeft
      <3>2. CASE p = q
        <4>1. req'[p] = y
          BY <1>4, <3>2 DEF Only, y
        <4>2. todo \in MirrorLeft \/ todo[1].op = "buy"
          BY <2>1, <2>2, <3>1, <4>1
        <4>3. \E b \in bought' : b.by = x.session /\ b.told
          BY <4>2 DEF TypeInv, MirrorsBought, x, todo
        <4> QED BY <2>2, <4>1, <4>3
      <3>3. CASE p # q
        <4>1. req'[p] = req[p]
          BY <1>4, <3>3 DEF Only
        <4> QED BY <3>1, <4>1 DEF TypeInv, MirrorsBought
      <3> QED BY <3>2, <3>3
    <2> QED BY <1>4, <2>4, <2>5, StillTyped
  <1> QED BY <1>1, <1>3, <1>4


LEMMA BeginTyped ==
    ASSUME TypeInv, NEW q \in Requests, NEW s \in Sessions, Begin(q, s)
    PROVE  TypeInv'
  <1>1. /\ Only(q, Incoming(s, <<>>)) /\ RequestOK(Incoming(s, <<>>))
        /\ Incoming(s, <<>>).pc = "start"
        /\ OnlySession(s, Opening(ses[s])) /\ SessionOK(Opening(ses[s]))
        /\ overlapped' = IF InFlight(s) THEN overlapped \cup {s} ELSE overlapped
    BY BeginIs
  <1>2. SessionsStep /\ RequestsStep /\ MirrorsStep
    BY <1>1, OnlyTyped, OnlySessionTyped
  <1>3. /\ UNCHANGED <<kind, redis, current, bought, mirrored, lost, slips>>
        /\ disturbed' \subseteq disturbed
        /\ trouble' = trouble \/ (slips + trouble + 2 <= Budget /\ trouble' = trouble + 2)
    BY DEF Begin
  <1>4. MirrorsBought'
    BY <1>2, <1>3, MirrorsKept DEF MirrorsStep
  <1> QED BY <1>1, <1>2, <1>3, <1>4, TypedIs, GhostsTyped, TypedStep
          DEF SessionsStep, RequestsStep

LEMMA TypeTyped ==
    ASSUME TypeInv, NEW q \in Requests, NEW s \in Sessions, NEW seg, Type(q, s, seg),
           seg \in Sensible(ses[s].screen) \/ (seg = Back /\ ses[s].text # <<>>),
           slips' = slips \/ Slip
    PROVE  TypeInv'
  <1> DEFINE y == Incoming(s, Press(ses[s].text, seg))
             z == Typing(ses[s], seg)
  <1>1. /\ Only(q, y) /\ RequestOK(y) /\ y.pc = "start"
        /\ OnlySession(s, z) /\ SessionOK(z)
        /\ overlapped' = IF InFlight(s) THEN overlapped \cup {s} ELSE overlapped
    <2>1. Only(q, y) /\ RequestOK(y)
      BY TypeIs
    <2>4. y.pc = "start"
      BY DEF Incoming, NoRequest
    <2>2. OnlySession(s, z) /\ SessionOK(z)
      BY TypeIs
    <2>3. overlapped' = IF InFlight(s) THEN overlapped \cup {s} ELSE overlapped
      BY TypeIs
    <2> QED BY <2>1, <2>2, <2>3, <2>4
  <1> HIDE DEF y, z
  <1>2. SessionsStep /\ RequestsStep /\ MirrorsStep
    BY <1>1, OnlyTyped, OnlySessionTyped
  <1>3. UNCHANGED <<kind, redis, current, bought, mirrored, disturbed, lost, trouble>>
    BY DEF Type
  <1>4. MirrorsBought'
    BY <1>2, <1>3, MirrorsKept DEF MirrorsStep
  <1> QED BY <1>1, <1>2, <1>3, <1>4, TypedIs, GhostsTyped, TypedStep
          DEF SessionsStep, RequestsStep

LEMMA UserTyped ==
    ASSUME TypeInv, NEW q \in Requests, NEW s \in Sessions
    PROVE  Begin(q, s) \/ Answers(q, s) \/ GoesBack(q, s) \/ Repeat(q, s) => TypeInv'
  <1>1. ASSUME Answers(q, s) PROVE TypeInv'
    <2>1. PICK seg \in Sensible(ses[s].screen) : Type(q, s, seg) /\ (slips' = slips \/ Slip)
      BY <1>1 DEF Answers
    <2> QED BY <2>1, TypeTyped
  <1>2. ASSUME GoesBack(q, s) PROVE TypeInv'
    BY <1>2, TypeTyped DEF GoesBack
  <1>3. ASSUME Repeat(q, s) PROVE TypeInv'
    <2>1. ses[s].text \in Texts
      BY TypedIs DEF SessionOK
    <2>2. /\ req' \in [Requests -> Request] /\ req'[q].pc = "start" /\ RequestOK(req'[q])
          /\ \A p \in Requests \ {q} : req'[p] = req[p]
          /\ overlapped' = IF InFlight(s) THEN overlapped \cup {s} ELSE overlapped
      BY <1>3, <2>1, ArrivesIs DEF Repeat
    <2>3. RequestsStep /\ MirrorsStep
      BY <2>2 DEF RequestsStep, MirrorsStep
    <2>4. /\ UNCHANGED <<kind, redis, current, ses, bought, mirrored, disturbed, lost, slips>>
          /\ Trouble
      BY <1>3 DEF Repeat
    <2>5. SessionsStep /\ MirrorsBought'
      BY <2>3, <2>4, MirrorsKept, StillTyped DEF MirrorsStep
    <2> QED BY <2>2, <2>3, <2>4, <2>5, TypedIs, GhostsTyped, TypedStep
            DEF SessionsStep, RequestsStep
  <1> QED BY <1>1, <1>2, <1>3, BeginTyped

LEMMA LeavesTyped ==
    ASSUME TypeInv, NEW s \in Sessions, Leaves(s)
    PROVE  TypeInv' /\ OnlySession(s, Leaving(ses[s]))
  <1> DEFINE x == ses[s]
             y == Leaving(x)
  <1>1. ses \in [Sessions -> Session] /\ x \in Session /\ SessionOK(x)
    BY TypedIs
  <1>2. /\ y \in Session /\ y.screen = Ask("nothing") /\ y.wish = x.wish /\ y.text = x.text
        /\ y.waiting = x.waiting /\ y.picked = x.picked
    BY <1>1, LeavingIs
  <1>3. ses' = [ses EXCEPT ![s] = y] /\ x.text = <<>>
    BY <1>1 DEF Leaves, Leaving
  <1> HIDE DEF y
  <1>4. SessionOK(y)
    <2>1. Ask("nothing") # Ask("gate")
      BY DEF Ask
    <2> QED BY <1>1, <1>2, <1>3, <2>1 DEF SessionOK
  <1>5. OnlySession(s, y)
    BY <1>1, <1>2, <1>3 DEF OnlySession
  <1>6. /\ UNCHANGED <<kind, redis, current, req, bought, mirrored, disturbed,
                       overlapped, lost, trouble>>
        /\ Slip
    BY DEF Leaves
  <1>7. SessionsStep /\ RequestsStep /\ MirrorsStep
    BY <1>4, <1>5, <1>6, OnlySessionTyped, StillTyped
  <1>8. MirrorsBought'
    BY <1>6, <1>7, MirrorsKept DEF MirrorsStep
  <1> QED BY <1>5, <1>6, <1>7, <1>8, TypedIs, GhostsTyped, TypedStep
          DEF SessionsStep, RequestsStep, y

(* What Respond makes of a request. *)
LEMMA OutcomeProper ==
    ASSUME TypeInv, NEW q \in Requests,
           req[q].pc = "load active" \/ (req[q].pc = "start" /\ ~NeedsActive(q))
    PROVE  Outcome(q) # Panic => Proper(Outcome(q), req[q].text)
  <1>1. /\ redis \in Redis /\ current \in Lists /\ kind \in Kinds /\ req[q].text \in Texts
        /\ req[q].pc = "load active" => kind = "elect" /\ req[q].text # <<>>
    BY TypedIs DEF RequestOK
  <1>2. \E r : Replies(Outcome(q), r, current, req[q].text)
    BY <1>1, OutcomeReplies
  <1> QED BY <1>2 DEF Replies

LEMMA HandledTyped ==
    ASSUME TypeInv, NEW q \in Requests
    PROVE  Start(q) \/ LoadActive(q) => TypeInv'
  <1>1. SUFFICES ASSUME Start(q) \/ LoadActive(q) PROVE TypeInv'
    OBVIOUS
  <1>2. /\ req[q].pc \in {"start", "load active"} /\ Handles(q, Outcome(q))
        /\ req[q].pc = "load active" \/ (req[q].pc = "start" /\ ~NeedsActive(q))
        /\ UNCHANGED <<kind, redis, current, bought, mirrored, disturbed,
                       overlapped, lost, slips, trouble>>
    BY <1>1 DEF Start, LoadActive
  <1>3. Outcome(q) # Panic => Proper(Outcome(q), req[q].text)
    BY <1>2, OutcomeProper
  <1>4. SessionsStep /\ RequestsStep /\ MirrorsStep
    BY <1>2, <1>3, HandlesTyped
  <1>5. MirrorsBought'
    BY <1>2, <1>4, MirrorsKept DEF MirrorsStep
  <1> QED BY <1>2, <1>4, <1>5, TypedIs, GhostsTyped, TypedStep
          DEF SessionsStep, RequestsStep

LEMMA RefusedTyped ==
    ASSUME TypeInv, NEW q \in Requests
    PROVE  Refuse(q) \/ Gate(q) => TypeInv'
  <1>1. SUFFICES ASSUME Refuse(q) \/ Gate(q) PROVE TypeInv'
    OBVIOUS
  <1>2. /\ req[q].pc \in {"start", "load active"} /\ Trouble
        /\ \/ Ends(q, End) /\ disturbed' = disturbed
           \/ kind = "bank" /\ Ends(q, Ask("gate"))
              /\ disturbed' = disturbed \cup {req[q].session}
        /\ UNCHANGED <<kind, redis, current, bought, mirrored, overlapped, lost, slips>>
    BY <1>1 DEF Refuse, Gate
  <1>3. SessionsStep /\ RequestsStep /\ MirrorsStep
    BY <1>2, EndsTyped, GoodScreens
  <1>4. req[q].session \in Sessions
    BY <1>2, TypedIs DEF RequestOK
  <1>5. MirrorsBought'
    BY <1>2, <1>3, MirrorsKept DEF MirrorsStep
  <1> QED BY <1>2, <1>3, <1>4, <1>5, TypedIs, GhostsTyped, TypedStep
          DEF SessionsStep, RequestsStep


(* The keys that opening the menu deletes. *)
Openings == IF kind = "elect" THEN <<Del(PickKey), Del(CatKey)>> ELSE <<Del(CatKey)>>

LEMMA OpeningsAre ==
    /\ Openings \in Seq(Ops) /\ Openings # <<>> /\ Writing(Openings)
    /\ \A i \in DOMAIN Openings : Openings[i].op = "del"
  <1>1. \A k \in Keys : Del(k) \in Ops /\ Stores(Del(k)) /\ Del(k).op = "del"
    BY OpsAre
  <1>2. Del(CatKey) \in Ops /\ Del(PickKey) \in Ops
    BY <1>1, Constants
  <1>3. Openings \in {<<Del(PickKey), Del(CatKey)>>, <<Del(CatKey)>>}
    BY DEF Openings
  <1>4. Openings \in Seq(Ops) /\ Openings # <<>>
    <2>1. \A a, b \in Ops : /\ <<a, b>> \in Seq(Ops) /\ <<a, b>> # <<>>
                           /\ <<b>> \in Seq(Ops) /\ <<b>> # <<>>
      OBVIOUS
    <2> QED BY <1>2, <1>3, <2>1
  <1>5. \A i \in DOMAIN Openings : Openings[i] \in {Del(PickKey), Del(CatKey)}
    BY <1>3
  <1>6. \A i \in DOMAIN Openings : Openings[i].op = "del" /\ Stores(Openings[i])
    BY <1>1, <1>5, Constants
  <1> QED BY <1>4, <1>6 DEF Writing

LEMMA NoListIs ==
    ASSUME TypeInv, NEW q \in Requests, NoList(q)
    PROVE  /\ kind \in {"elect", "cable"} /\ req[q].pc = "start" /\ req[q].text = <<>>
           /\ Trouble /\ ses' = ses /\ Only(q, Working(req[q], Openings, End))
           /\ UNCHANGED <<kind, redis, current, ses, bought, mirrored, disturbed,
                          overlapped, lost, slips>>
  <1>1. req' = [req EXCEPT ![q] = Working(req[q], Openings, End)]
    BY DEF NoList, Working, Openings
  <1>2. /\ req \in [Requests -> Request] /\ Openings \in Seq(Ops) /\ End \in Screen
        /\ req[q] \in Request
    BY TypedIs, OpeningsAre, ScreensAre
  <1>3. Working(req[q], Openings, End) \in Request
    BY <1>2, WorkingIs
  <1> QED BY <1>1, <1>2, <1>3 DEF NoList, Only

LEMMA NoListTyped ==
    ASSUME TypeInv, NEW q \in Requests, NoList(q)
    PROVE  TypeInv'
  <1>1. /\ req[q].pc = "start" /\ Trouble /\ ses' = ses
        /\ Only(q, Working(req[q], Openings, End))
        /\ UNCHANGED <<kind, redis, current, bought, mirrored, disturbed,
                       overlapped, lost, slips>>
    BY NoListIs
  <1>2. /\ Openings \in Seq(Ops) /\ Openings # <<>> /\ Writing(Openings)
        /\ TodoOK(Openings, End) /\ GoodScreen(End) /\ End \in Screen
        /\ req[q] \in Request /\ RequestOK(req[q])
    BY OpeningsAre, TypedIs, GoodScreens, ScreensAre DEF TodoOK
  <1>3. RequestOK(Working(req[q], Openings, End))
        /\ Working(req[q], Openings, End).todo = Openings
    BY <1>1, <1>2, WorkingOK
  <1>4. Openings \notin MirrorLeft
    BY <1>2, NoMirror
  <1>5. SessionsStep /\ RequestsStep /\ MirrorsStep
    BY <1>1, <1>3, <1>4, OnlyTyped, StillTyped
  <1>6. MirrorsBought'
    BY <1>1, <1>5, MirrorsKept DEF MirrorsStep
  <1> QED BY <1>1, <1>5, <1>6, TypedIs, GhostsTyped, TypedStep
          DEF SessionsStep, RequestsStep

(* A bank's flow that is not there. *)
LEMMA MissedReplies ==
    ASSUME kind = "bank", kind \in Kinds, current \in Lists, NEW t \in Texts
    PROVE  \E r \in Redis : Replies(Respond(t, Absent, Absent, current), r, current, t)
  <1> DEFINE r == [k \in Keys |-> Absent]
  <1>1. r \in Redis /\ r[CatKey] = Absent
    BY AbsentIs, Constants DEF Redis, GoodCopy
  <1> HIDE DEF r
  <1>2. kind \in Kinds /\ kind # "elect" /\ kind # "data"
    BY VendAssumption DEF Catalogued
  <1>3. Replies(Respond(t, Absent, Absent, current), r, current, t)
    BY <1>1, <1>2, RespondReplies
  <1> QED BY <1>1, <1>3

LEMMA MisreadsIs ==
    ASSUME TypeInv, NEW q \in Requests, Misreads(q)
    PROVE  /\ req[q].pc = "start" /\ Trouble /\ SessionsStep /\ RequestsStep /\ MirrorsStep
           /\ \/ \E screen \in Screen : Ends(q, screen)
              \/ ses' = ses /\ \E z : Only(q, z) /\ z.session = req[q].session
           /\ disturbed' = disturbed \cup {req[q].session}
           /\ UNCHANGED <<kind, redis, current, bought, mirrored, overlapped, lost, slips>>
  <1> DEFINE x == req[q]
             y == [x EXCEPT !.pc = "load active"]
             o == Respond(x.text, Absent, Absent, current)
  <1>1. /\ req \in [Requests -> Request] /\ x \in Request /\ RequestOK(x)
        /\ x.pc = "start" /\ x.text # <<>> /\ Trouble
        /\ \/ kind = "elect" /\ req' = [req EXCEPT ![q] = y] /\ ses' = ses
           \/ kind = "bank" /\ Handles(q, o)
        /\ disturbed' = disturbed \cup {x.session}
        /\ UNCHANGED <<kind, redis, current, bought, mirrored, overlapped, lost, slips>>
    BY TypedIs DEF Misreads
  <1>2. CASE kind = "elect" /\ req' = [req EXCEPT ![q] = y] /\ ses' = ses
    <2>1. /\ y \in Request /\ y.pc = "load active" /\ y.text = x.text
          /\ y.session = x.session /\ y.todo = x.todo
      BY <1>1 DEF Request
    <2> HIDE DEF y
    <2>2. RequestOK(y)
      BY <1>1, <1>2, <2>1 DEF RequestOK
    <2>3. Only(q, y)
      BY <1>1, <1>2, <2>1 DEF Only
    <2>4. SessionsStep /\ RequestsStep /\ MirrorsStep
      BY <1>2, <2>1, <2>2, <2>3, OnlyTyped, StillTyped
    <2> QED BY <1>1, <1>2, <2>1, <2>3, <2>4
  <1>3. CASE kind = "bank" /\ Handles(q, o)
    <2>1. x.text \in Texts
      BY <1>1 DEF RequestOK
    <2>2. o # Panic => Proper(o, x.text)
      BY <1>3, <2>1, TypedIs, MissedReplies DEF Replies
    <2> HIDE DEF o
    <2>3. SessionsStep /\ RequestsStep /\ MirrorsStep
      BY <1>1, <1>3, <2>2, HandlesTyped
    <2>4. Proper(o, x.text)
      BY <1>3, <2>2 DEF Handles
    <2>5. o.todo \in Seq(Ops) /\ o.say \in Screen
      BY <2>4 DEF Proper, TodoOK, GoodScreen
    <2>6. \/ Ends(q, o.say)
          \/ ses' = ses /\ Only(q, Working(x, o.todo, o.say))
      BY <1>3, <2>5, HandlesIs
    <2>7. Working(x, o.todo, o.say).session = x.session
      BY <2>5, TypedIs, WorkingIs
    <2>8. \/ \E screen \in Screen : Ends(q, screen)
          \/ ses' = ses /\ \E z : Only(q, z) /\ z.session = x.session
      <3>1. PICK w : w = Working(x, o.todo, o.say)
        OBVIOUS
      <3>2. \/ Ends(q, o.say)
            \/ ses' = ses /\ Only(q, w) /\ w.session = x.session
        BY <2>6, <2>7, <3>1
      <3> QED BY <2>5, <3>2
    <2> QED BY <1>1, <2>3, <2>8
  <1> QED BY <1>1, <1>2, <1>3

LEMMA MisreadsTyped ==
    ASSUME TypeInv, NEW q \in Requests, Misreads(q)
    PROVE  TypeInv'
  <1>1. /\ req[q].pc = "start" /\ Trouble /\ SessionsStep /\ RequestsStep /\ MirrorsStep
        /\ disturbed' = disturbed \cup {req[q].session}
        /\ UNCHANGED <<kind, redis, current, bought, mirrored, overlapped, lost, slips>>
    BY MisreadsIs
  <1>2. MirrorsBought'
    BY <1>1, MirrorsKept DEF MirrorsStep
  <1>3. req[q].session \in Sessions
    BY <1>1, TypedIs DEF RequestOK
  <1> QED BY <1>1, <1>2, <1>3, TypedIs, GhostsTyped, TypedStep
          DEF SessionsStep, RequestsStep

LEMMA NoPickTyped ==
    ASSUME TypeInv, NEW q \in Requests, NoPick(q)
    PROVE  TypeInv'
  <1> DEFINE x == req[q]
             y == [x EXCEPT !.pc = "load active"]
  <1>1. /\ req \in [Requests -> Request] /\ x \in Request /\ RequestOK(x)
        /\ x.pc = "start" /\ kind = "elect" /\ x.text # <<>>
        /\ req' = [req EXCEPT ![q] = y]
        /\ UNCHANGED <<kind, redis, current, ses, bought, mirrored, disturbed,
                       overlapped, lost, slips, trouble>>
    BY TypedIs DEF NoPick, NeedsActive
  <1>2. /\ y \in Request /\ y.pc = "load active" /\ y.text = x.text
        /\ y.session = x.session /\ y.todo = x.todo
    BY <1>1 DEF Request
  <1> HIDE DEF y
  <1>3. RequestOK(y)
    BY <1>1, <1>2 DEF RequestOK
  <1>4. Only(q, y)
    BY <1>1, <1>2 DEF Only
  <1>5. SessionsStep /\ RequestsStep /\ MirrorsStep
    BY <1>1, <1>2, <1>3, <1>4, OnlyTyped, StillTyped
  <1>6. MirrorsBought'
    BY <1>1, <1>5, MirrorsKept DEF MirrorsStep
  <1> QED BY <1>1, <1>5, <1>6, TypedIs, GhostsTyped, TypedStep
          DEF SessionsStep, RequestsStep

LEMMA DiesTyped ==
    ASSUME TypeInv, NEW q \in Requests, Dies(q)
    PROVE  /\ TypeInv'
           /\ \A p \in Requests : req'[p] = NoRequest
           /\ \A s \in Sessions : ses'[s] = IF ses[s].waiting THEN Shown(ses[s], End) ELSE ses[s]
  <1>1. /\ req' = [r \in Requests |-> NoRequest]
        /\ lost' = lost \cup {s \in Sessions : ses[s].waiting \/ InFlight(s)}
        /\ ses' = [s \in Sessions |-> IF ses[s].waiting THEN Shown(ses[s], End) ELSE ses[s]]
        /\ UNCHANGED <<kind, redis, current, bought, mirrored, disturbed,
                       overlapped, slips, trouble>>
    BY DEF Dies, Shown
  <1>2. \A s \in Sessions : ses[s] \in Session /\ SessionOK(ses[s])
    BY TypedIs
  <1>3. ASSUME NEW s \in Sessions
        PROVE  Shown(ses[s], End) \in Session /\ SessionOK(Shown(ses[s], End))
    <2> DEFINE x == ses[s]
               y == Shown(x, End)
    <2>1. /\ y \in Session /\ y.screen = End /\ y.waiting = FALSE /\ y.text = x.text
          /\ y.picked = x.picked /\ y.wish = x.wish
      <3>1. x \in Session /\ End \in Screen
        BY <1>2, ScreensAre
      <3> QED BY <3>1, ShownIs
    <2>2. GoodScreen(End) /\ End # Ask("gate") /\ End # Ask("nothing")
      BY GoodScreens DEF End, Ask
    <2> HIDE DEF y
    <2> QED BY <1>2, <2>1, <2>2 DEF SessionOK, y
  <1>4. SessionsStep
    BY <1>1, <1>2, <1>3 DEF SessionsStep
  <1>5. \A p \in Requests : req'[p] = NoRequest
    BY <1>1
  <1>6. RequestsStep /\ MirrorsStep
    BY <1>1, IdleIs DEF RequestsStep, MirrorsStep
  <1>7. MirrorsBought'
    BY <1>1, <1>6, MirrorsKept DEF MirrorsStep
  <1>8. lost' \subseteq Sessions
    BY <1>1, GhostsTyped
  <1>9. \A s \in Sessions : ses'[s] = IF ses[s].waiting THEN Shown(ses[s], End) ELSE ses[s]
    BY <1>1
  <1>10. TypeInv'
    BY <1>1, <1>4, <1>6, <1>7, <1>8, TypedIs, GhostsTyped, TypedStep
       DEF SessionsStep, RequestsStep
  <1> QED BY <1>5, <1>9, <1>10

(* A key is written. *)
LEMMA WrittenIs ==
    ASSUME NEW r \in Redis, NEW k \in Keys, NEW c, GoodCopy(c)
    PROVE  /\ [r EXCEPT ![k] = c] \in Redis
           /\ [r EXCEPT ![k] = Absent] \in Redis
  <1>1. GoodCopy(Absent) /\ c \in Catalog /\ Absent \in Catalog
    BY AbsentIs DEF GoodCopy
  <1>2. r \in [Keys -> Catalog] /\ \A j \in Keys : GoodCopy(r[j])
    BY DEF Redis
  <1>3. ASSUME NEW d \in Catalog, GoodCopy(d) PROVE [r EXCEPT ![k] = d] \in Redis
    <2>1. [r EXCEPT ![k] = d] \in [Keys -> Catalog]
      BY <1>2
    <2>2. \A j \in Keys : [r EXCEPT ![k] = d][j] = IF j = k THEN d ELSE r[j]
      BY <1>2
    <2> QED BY <1>2, <1>3, <2>1, <2>2 DEF Redis
  <1> QED BY <1>1, <1>3

LEMMA WorkerIs ==
    ASSUME TypeInv, NEW q \in Requests, req[q].pc = "work"
    PROVE  /\ req[q].todo \in Seq(Ops) /\ req[q].todo # <<>>
           /\ Head(req[q].todo) = req[q].todo[1] /\ req[q].todo[1] \in Ops
           /\ WorkOK(req[q].todo, req[q].say) /\ GoodScreen(req[q].say)
           /\ req[q].session \in Sessions /\ req[q].text \in Texts
           /\ req[q].text = <<>> => Writing(req[q].todo)
  <1>1. req[q] \in Request /\ RequestOK(req[q])
    BY TypedIs
  <1>2. req[q].todo \in Seq(Ops) /\ req[q].todo # <<>>
    BY <1>1 DEF RequestOK, Request
  <1> QED BY <1>1, <1>2 DEF RequestOK

LEMMA WritesTyped ==
    ASSUME TypeInv, NEW q \in Requests, Writes(q)
    PROVE  TypeInv'
  <1> DEFINE op == req[q].todo[1]
  <1>1. /\ req[q].pc = "work" /\ op.op \in {"set", "touch", "del"}
        /\ redis' = [redis EXCEPT ![op.key] = IF op.op = "del" THEN Absent ELSE op.value]
        /\ disturbed' = disturbed \cup Disturbs(q) /\ Advance(q)
        /\ UNCHANGED <<kind, current, bought, mirrored, overlapped, lost, slips, trouble>>
    BY WorkerIs DEF Writes
  <1>2. Stores(op) /\ op.key \in Keys
    BY <1>1, WorkerIs, HeadIs
  <1>3. redis' \in Redis
    BY <1>1, <1>2, TypedIs, WrittenIs DEF Stores
  <1>4. SessionsStep /\ RequestsStep /\ MirrorsBought'
    BY <1>1, AdvanceTyped
  <1>5. disturbed' \subseteq Sessions
    BY <1>1, GhostsTyped DEF Disturbs
  <1> QED BY <1>1, <1>3, <1>4, <1>5, TypedIs, GhostsTyped, TypedStep
          DEF SessionsStep, RequestsStep

(* What is bought is numbered on. *)
LEMMA BoughtTyped ==
    ASSUME TypeInv, NEW q \in Requests, Buying(q), NEW told \in BOOLEAN,
           NEW b, b = Purchase(q, told), bought' = bought \cup {b}
    PROVE  /\ IsFiniteSet(bought') /\ Numbered' /\ b \in bought'
           /\ bought' \subseteq [n: Nat, by: Sessions, deal: Deal, told: BOOLEAN]
           /\ b.n = Cardinality(bought) + 1 /\ b.by = req[q].session
           /\ b.deal = req[q].todo[1].deal /\ b.told = told
           /\ \A d \in bought : d.n \in Nat /\ d.n < b.n
  <1> DEFINE op == req[q].todo[1]
  <1>1. req[q].pc = "work" /\ op.op = "buy" /\ Head(req[q].todo) = op
    BY WorkerIs DEF Buying
  <1>2. op.deal \in Deal /\ req[q].session \in Sessions
    BY <1>1, WorkerIs, HeadIs
  <1>3. b = [n |-> Cardinality(bought) + 1, by |-> req[q].session, deal |-> op.deal,
             told |-> told]
    BY <1>1 DEF Purchase
  <1>4. /\ b.n = Cardinality(bought) + 1 /\ b.by = req[q].session
        /\ b.deal = op.deal /\ b.told = told
    BY <1>3
  <1>5. b \in [n: Nat, by: Sessions, deal: Deal, told: BOOLEAN]
    BY <1>2, <1>3, TypedIs
  <1>6. IsFiniteSet(bought')
    BY TypedIs, FS_AddElement
  <1>7. bought' \subseteq [n: Nat, by: Sessions, deal: Deal, told: BOOLEAN]
    BY <1>5, GhostsTyped
  <1>8. /\ Cardinality(bought) \in Nat
        /\ \A x \in bought : x.n <= Cardinality(bought) /\ x.n \in Nat
    BY TypedIs, GhostsTyped DEF TypeInv, Numbered
  <1>9. \A d \in bought : d.n \in Nat /\ d.n < b.n
    BY <1>4, <1>8
  <1>10. b \notin bought
    BY <1>4, <1>8
  <1>11. Cardinality(bought') = Cardinality(bought) + 1
    BY <1>10, TypedIs, FS_AddElement
  <1>12. Numbered'
    BY <1>4, <1>8, <1>11 DEF Numbered
  <1> QED BY <1>4, <1>6, <1>7, <1>9, <1>12

LEMMA PaysTyped ==
    ASSUME TypeInv, NEW q \in Requests, Pays(q)
    PROVE  TypeInv'
  <1>1. PICK b : b = Purchase(q, TRUE)
    OBVIOUS
  <1>2. /\ Buying(q) /\ bought' = bought \cup {b} /\ Advance(q)
        /\ UNCHANGED <<kind, redis, current, mirrored, disturbed, overlapped, lost,
                       slips, trouble>>
    BY <1>1 DEF Pays
  <1>3. /\ IsFiniteSet(bought') /\ Numbered' /\ b \in bought'
        /\ b.by = req[q].session /\ b.told
        /\ bought' \subseteq [n: Nat, by: Sessions, deal: Deal, told: BOOLEAN]
    BY <1>1, <1>2, BoughtTyped
  <1>4. SessionsStep /\ RequestsStep /\ MirrorsBought'
    BY <1>2, <1>3, AdvanceTyped DEF Buying
  <1>5. mirrored' \subseteq {x.n : x \in bought'}
    BY <1>2, GhostsTyped
  <1> QED BY <1>2, <1>3, <1>4, <1>5, TypedIs, GhostsTyped, TypedStep
          DEF SessionsStep, RequestsStep

(* After an error the request is over, or has a key to delete. *)
LEMMA ErrsIs ==
    ASSUME TypeInv, NEW q \in Requests, Buying(q), Errs(q) \/ Ends(q, End)
    PROVE  \/ Ends(q, End)
           \/ /\ kind = "bank" /\ ses' = ses
              /\ Only(q, Left(req[q], <<Del(CatKey)>>))
  <1> DEFINE x == req[q]
             todo == <<Del(CatKey)>>
  <1>1. /\ req \in [Requests -> Request] /\ x \in Request /\ End \in Screen
        /\ todo \in Seq(Ops)
    <2>1. Del(CatKey) \in Ops
      BY OpsAre, Constants
    <2> QED BY <2>1, TypedIs, ScreensAre
  <1>2. CASE kind = "bank" /\ Errs(q)
    <2>1. req' = [req EXCEPT ![q] = Left(x, todo)] /\ ses' = ses
      BY <1>2 DEF Errs, Left
    <2>2. Left(x, todo) \in Request
      BY <1>1, WorkingIs
    <2>3. Only(q, Left(x, todo))
      BY <1>1, <2>1, <2>2 DEF Only
    <2> QED BY <1>2, <2>1, <2>3
  <1> QED BY <1>2 DEF Errs

LEMMA ErrsTyped ==
    ASSUME TypeInv, NEW q \in Requests, Buying(q), Errs(q) \/ Ends(q, End)
    PROVE  SessionsStep /\ RequestsStep /\ MirrorsStep
  <1> DEFINE x == req[q]
             todo == <<Del(CatKey)>>
             y == Left(x, todo)
  <1>1. CASE Ends(q, End)
    BY <1>1, EndsTyped, GoodScreens DEF Buying
  <1>2. CASE kind = "bank" /\ ses' = ses /\ Only(q, y)
    <2>1. Del(CatKey) \in Ops /\ Stores(Del(CatKey))
      BY OpsAre, Constants
    <2>2. todo \in Seq(Ops) /\ Writing(todo) /\ todo # <<>>
      BY <2>1 DEF Writing
    <2> HIDE DEF todo
    <2>3. x \in Request /\ x.pc = "work" /\ End \in Screen
      BY TypedIs, ScreensAre DEF Buying
    <2>4. /\ y \in Request /\ y.pc = x.pc /\ y.todo = todo /\ y.say = x.say
          /\ y.text = x.text /\ y.session = x.session
      BY <2>2, <2>3, WorkingIs
    <2> HIDE DEF y
    <2>5. TodoOK(todo, x.say)
      BY <2>2 DEF TodoOK
    <2>6. RequestOK(y)
      BY <2>2, <2>3, <2>4, <2>5, WorkerIs DEF RequestOK, WorkOK
    <2>7. todo \notin MirrorLeft
      BY <2>2, <2>5, NoMirror
    <2> QED BY <1>2, <2>4, <2>6, <2>7, OnlyTyped, StillTyped
  <1> QED BY <1>1, <1>2, ErrsIs

LEMMA PayFailsTyped ==
    ASSUME TypeInv, NEW q \in Requests, PayFails(q)
    PROVE  TypeInv'
  <1>1. /\ Buying(q)
        /\ Errs(q) \/ Ends(q, End)
        /\ UNCHANGED <<kind, redis, current, bought, mirrored, disturbed,
                       overlapped, lost, slips, trouble>>
    BY DEF PayFails
  <1>2. SessionsStep /\ RequestsStep /\ MirrorsStep
    BY <1>1, ErrsTyped
  <1>3. MirrorsBought'
    BY <1>1, <1>2, MirrorsKept DEF MirrorsStep
  <1> QED BY <1>1, <1>2, <1>3, TypedIs, GhostsTyped, TypedStep
          DEF SessionsStep, RequestsStep

LEMMA PaysAndErrsTyped ==
    ASSUME TypeInv, NEW q \in Requests, PaysAndErrs(q)
    PROVE  TypeInv'
  <1>1. PICK b : b = Purchase(q, FALSE)
    OBVIOUS
  <1>2. /\ Buying(q) /\ bought' = bought \cup {b} /\ Errs(q)
        /\ UNCHANGED <<kind, redis, current, mirrored, disturbed, overlapped, lost,
                       slips, trouble>>
    BY <1>1 DEF PaysAndErrs
  <1>3. /\ IsFiniteSet(bought') /\ Numbered'
        /\ bought' \subseteq [n: Nat, by: Sessions, deal: Deal, told: BOOLEAN]
    BY <1>1, <1>2, BoughtTyped
  <1>4. SessionsStep /\ RequestsStep /\ MirrorsStep
    BY <1>2, ErrsTyped
  <1>5. MirrorsBought'
    BY <1>2, <1>4, MirrorsKept DEF MirrorsStep
  <1>6. mirrored' \subseteq {x.n : x \in bought'}
    BY <1>2, GhostsTyped
  <1> QED BY <1>2, <1>3, <1>4, <1>5, <1>6, TypedIs, GhostsTyped, TypedStep
          DEF SessionsStep, RequestsStep


(* What this session was told last that it bought. *)
LEMMA LastIs ==
    ASSUME TypeInv, NEW s, \E b \in bought : b.by = s /\ b.told,
           NEW mine, mine = {b.n : b \in {b \in bought : b.by = s /\ b.told}}
    PROVE  (CHOOSE n \in mine : \A m \in mine : m <= n) \in mine
  <1> DEFINE N == Cardinality(bought)
             gaps == {N - n : n \in mine}
  <1>1. mine # {} /\ N \in Nat /\ \A n \in mine : n \in Nat /\ n <= N
    BY TypedIs, GhostsTyped DEF TypeInv, Numbered
  <1>2. gaps \in SUBSET Nat /\ gaps # {}
    BY <1>1
  <1>3. PICK g \in gaps : \A k \in gaps : g <= k
    BY <1>2, Least
  <1>4. PICK n \in mine : g = N - n
    BY <1>3
  <1>5. ASSUME NEW m \in mine PROVE m <= n
    <2>1. N - m \in gaps /\ n \in Nat /\ m \in Nat
      BY <1>1
    <2>2. N - n <= N - m
      BY <1>3, <1>4, <2>1
    <2> HIDE DEF N
    <2> QED BY <1>1, <2>1, <2>2
  <1> QED BY <1>4, <1>5

LEMMA MirrorsTyped ==
    ASSUME TypeInv, NEW q \in Requests, Mirrors(q)
    PROVE  TypeInv'
  <1> DEFINE s == req[q].session
             mine == {b.n : b \in {b \in bought : b.by = s /\ b.told}}
             last == CHOOSE n \in mine : \A m \in mine : m <= n
  <1>1. /\ req[q].pc = "work" /\ req[q].todo[1].op = "mirror"
        /\ mirrored' = mirrored \cup {last} /\ Advance(q)
        /\ UNCHANGED <<kind, redis, current, bought, disturbed, overlapped, lost,
                       slips, trouble>>
    BY WorkerIs DEF Mirrors
  <1>2. req[q].todo \in MirrorLeft
    BY <1>1, WorkerIs, HeadIs
  <1>3. \E b \in bought : b.by = s /\ b.told
    BY <1>1, <1>2 DEF TypeInv, MirrorsBought
  <1>4. last \in mine
    BY <1>3, LastIs
  <1> HIDE DEF last
  <1>5. last \in {b.n : b \in bought}
    BY <1>4
  <1>6. SessionsStep /\ RequestsStep /\ MirrorsBought'
    BY <1>1, AdvanceTyped
  <1>7. mirrored' \subseteq {b.n : b \in bought'}
    BY <1>1, <1>5, GhostsTyped
  <1> QED BY <1>1, <1>6, <1>7, TypedIs, GhostsTyped, TypedStep
          DEF SessionsStep, RequestsStep

LEMMA WorkFailsTyped ==
    ASSUME TypeInv, NEW q \in Requests, WorkFails(q)
    PROVE  TypeInv'
  <1> DEFINE op == req[q].todo[1]
  <1>1. /\ req[q].pc = "work" /\ op.op # "buy" /\ Trouble
        /\ Ends(q, End) \/ Advance(q)
        /\ disturbed' \subseteq disturbed \cup {req[q].session}
        /\ UNCHANGED <<kind, redis, current, bought, mirrored, overlapped, lost, slips>>
    BY WorkerIs DEF WorkFails
  <1>2. SessionsStep /\ RequestsStep /\ MirrorsBought'
    <2>1. ASSUME Ends(q, End) PROVE SessionsStep /\ RequestsStep /\ MirrorsBought'
      <3>1. SessionsStep /\ RequestsStep /\ MirrorsStep
        BY <1>1, <2>1, EndsTyped, GoodScreens
      <3> QED BY <1>1, <3>1, MirrorsKept DEF MirrorsStep
    <2>2. ASSUME Advance(q) PROVE SessionsStep /\ RequestsStep /\ MirrorsBought'
      BY <1>1, <2>2, AdvanceTyped
    <2> QED BY <1>1, <2>1, <2>2
  <1>3. req[q].session \in Sessions
    BY <1>1, WorkerIs
  <1> QED BY <1>1, <1>2, <1>3, TypedIs, GhostsTyped, TypedStep
          DEF SessionsStep, RequestsStep

LEMMA AroundTyped ==
    ASSUME TypeInv
    PROVE  /\ \A k \in Keys : Expire(k) => TypeInv'
           /\ ListChanges => TypeInv'
           /\ UNCHANGED vars => TypeInv'
  <1>1. ASSUME NEW k \in Keys, Expire(k) PROVE TypeInv'
    <2>1. /\ redis' = [redis EXCEPT ![k] = Absent] /\ Trouble
          /\ disturbed' = disturbed \cup Begun
          /\ UNCHANGED <<kind, current, ses, req, bought, mirrored, overlapped, lost, slips>>
      BY <1>1 DEF Expire
    <2>2. redis' \in Redis
      BY <2>1, TypedIs, WrittenIs, AbsentIs
    <2>3. SessionsStep /\ RequestsStep /\ MirrorsBought'
      BY <2>1, StillTyped, MirrorsKept
    <2> QED BY <2>1, <2>2, <2>3, TypedIs, GhostsTyped, TypedStep
            DEF SessionsStep, RequestsStep
  <1>2. ASSUME ListChanges PROVE TypeInv'
    <2>1. /\ current' \in Lists /\ Trouble
          /\ disturbed' \subseteq disturbed \cup Begun
          /\ UNCHANGED <<kind, redis, ses, req, bought, mirrored, overlapped, lost, slips>>
      BY <1>2 DEF ListChanges
    <2>2. SessionsStep /\ RequestsStep /\ MirrorsBought'
      BY <2>1, StillTyped, MirrorsKept
    <2> QED BY <2>1, <2>2, TypedIs, GhostsTyped, TypedStep
            DEF SessionsStep, RequestsStep
  <1>3. ASSUME UNCHANGED vars PROVE TypeInv'
    <2>1. UNCHANGED <<kind, redis, current, ses, req, bought, mirrored, disturbed,
                      overlapped, lost, slips, trouble>>
      BY <1>3 DEF vars
    <2>2. SessionsStep /\ RequestsStep /\ MirrorsBought'
      BY <2>1, StillTyped, MirrorsKept
    <2> QED BY <2>1, <2>2, TypedIs, GhostsTyped, TypedStep
            DEF SessionsStep, RequestsStep
  <1> QED BY <1>1, <1>2, <1>3

LEMMA InitTyped ==
    ASSUME Init
    PROVE  TypeInv
  <1>1. /\ Ask("nothing") \in Screen /\ NoDeal \in Deal /\ Plain(NoDeal)
        /\ <<>> \in Texts /\ <<>> \in Seq(0..Wrong) /\ Ask("nothing") # Ask("gate")
        /\ GoodCopy(Absent) /\ Absent \in Catalog
    BY ScreensAre, AbsentIs, TextsTyped DEF Asks, Plain, NoDeal, GoodCopy, Ask
  <1> DEFINE x == [text |-> <<>>, screen |-> Ask("nothing"), waiting |-> FALSE,
                   picked |-> "nothing", wish |-> NoDeal]
  <1>2. x \in Session /\ SessionOK(x)
    <2>1. x \in Session
      BY <1>1 DEF Session, Asks
    <2>2. SessionOK(x)
      BY <1>1 DEF SessionOK
    <2> QED BY <2>1, <2>2
  <1>3. ses = [s \in Sessions |-> x]
    BY DEF Init
  <1> HIDE DEF x
  <1>4. ses \in [Sessions -> Session] /\ SessionsOK
    BY <1>2, <1>3 DEF SessionsOK
  <1>5. req \in [Requests -> Request] /\ RequestsOK /\ MirrorsBought
    <2>1. req = [q \in Requests |-> NoRequest]
      BY DEF Init
    <2> QED BY <2>1, IdleIs DEF RequestsOK, MirrorsBought
  <1>6. redis \in Redis /\ redis \in [Keys -> Catalog]
    BY <1>1 DEF Init, Redis
  <1>7. bought = {} /\ IsFiniteSet(bought) /\ Numbered
    BY FS_EmptySet DEF Init, Numbered
  <1>8. current \in Lists /\ kind \in Kinds /\ Budget \in Nat
    BY Constants DEF Init
  <1>9. /\ mirrored = {} /\ disturbed = {} /\ overlapped = {} /\ lost = {}
        /\ slips = 0 /\ trouble = 0
    BY DEF Init
  <1>10. VendTypeOK
    BY <1>4, <1>5, <1>6, <1>7, <1>8, <1>9 DEF VendTypeOK
  <1> QED BY <1>4, <1>5, <1>6, <1>7, <1>10 DEF TypeInv

LEMMA NextTyped ==
    ASSUME TypeInv, [Next]_vars
    PROVE  TypeInv'
  <1>1. ASSUME NEW q \in Requests, Step(q) PROVE TypeInv'
    BY <1>1, HandledTyped, NoPickTyped, DiesTyped, RefusedTyped, NoListTyped,
       MisreadsTyped, WritesTyped, PaysTyped, PayFailsTyped, PaysAndErrsTyped,
       MirrorsTyped, WorkFailsTyped DEF Step
  <1>2. CASE Next
    BY <1>1, <1>2, UserTyped, LeavesTyped, AroundTyped DEF Next
  <1> QED BY <1>2, AroundTyped

(* Every state of the menus is typed: what Redis holds is the catalogue of a *)
(* list, a session shows a screen of its menu, and a request carries writes, *)
(* one purchase and what comes after it, and nothing else.                   *)
THEOREM VendTyped == Spec => []VendTypeOK
  <1>1. TypeInv => VendTypeOK
    BY DEF TypeInv
  <1>2. TypeInv /\ [Next]_vars => TypeInv'
    BY NextTyped
  <1> QED BY <1>1, <1>2, InitTyped, PTL DEF Spec


-----------------------------------------------------------------------------
(* What the wish rests on changes with the menu alone. *)

LEMMA SameCounts ==
    ASSUME kind' = kind
    PROVE  /\ \A r, v, t, w : Counts(r, v, t, w)' <=> Counts(r, v, t, w)
           /\ \A r, v, t, sc : Shows(r, v, t, sc)' <=> Shows(r, v, t, sc)
           /\ \A r, t : Ground(r, t)' <=> Ground(r, t)
           /\ \A d, w : Agrees(d, w)' <=> Agrees(d, w)
  <1>1. \A deal, asks, tail, w : Fits(deal, asks, tail, w)' <=> Fits(deal, asks, tail, w)
    BY DEF Fits
  <1>2. \A n : AsksAfter(n)' = AsksAfter(n)
    BY DEF AsksAfter
  <1>3. \A deal, list, w : Ready(deal, list, w)' <=> Ready(deal, list, w)
    BY DEF Ready
  <1>4. \A deal, list, rest, prev, w :
           PickFits(deal, list, rest, prev, w)' <=> PickFits(deal, list, rest, prev, w)
    BY <1>1, <1>2 DEF PickFits
  <1>5. \A list, rest, prev, sc :
           PickAsking(list, rest, prev, sc)' <=> PickAsking(list, rest, prev, sc)
    BY <1>2 DEF PickAsking
  <1>6. AfterAccount' = AfterAccount /\ AfterPlace' = AfterPlace
        /\ \A v : ListNow(v)' = ListNow(v)
    BY DEF AfterAccount, AfterPlace, ListNow
  <1>7. \A c, t, w : DataCounts(c, t, w)' <=> DataCounts(c, t, w)
    <2>1. TAKE c, t, w
    <2>2. Ready(Under(c, t[1]), c.list, w)' <=> Ready(Under(c, t[1]), c.list, w)
      BY <1>3 DEF Under
    <2>3. PickFits(Under(c, t[1]), c.list, From(t, 3), TRUE, w)'
             <=> PickFits(Under(c, t[1]), c.list, From(t, 3), TRUE, w)
      BY <1>4 DEF Under, From
    <2> QED BY <2>2, <2>3, Zenon DEF DataCounts, Under, From
  <1>8. \A c, t, w : ProductCounts(c, t, w)' <=> ProductCounts(c, t, w)
    BY <1>3, <1>4 DEF ProductCounts
  <1>9. \A c, t, w : AccountCounts(c, t, w)' <=> AccountCounts(c, t, w)
    BY <1>1, <1>6 DEF AccountCounts
  <1>10. \A list, t, w : ListedCounts(list, t, w)' <=> ListedCounts(list, t, w)
    BY <1>1, <1>6 DEF ListedCounts
  <1>11. \A r, v, t, w : Counts(r, v, t, w)' <=> Counts(r, v, t, w)
    <2>1. TAKE r, v, t, w
    <2>2. /\ Fits(NoDeal, <<"ident", "amount", "pin">>, t, w)'
             <=> Fits(NoDeal, <<"ident", "amount", "pin">>, t, w)
          /\ DataCounts(r[t[1]], t, w)' <=> DataCounts(r[t[1]], t, w)
          /\ ProductCounts(r[CatKey], t, w)' <=> ProductCounts(r[CatKey], t, w)
          /\ AccountCounts(r[CatKey], t, w)' <=> AccountCounts(r[CatKey], t, w)
          /\ PickFits(NoDeal, 1, t, FALSE, w)' <=> PickFits(NoDeal, 1, t, FALSE, w)
      BY <1>1, <1>4, <1>7, <1>8, <1>9
    <2>3. ListedCounts(ListNow(v), t, w)' <=> ListedCounts(ListNow(v), t, w)
      BY <1>6, <1>10
    <2> QED BY <2>2, <2>3 DEF Counts
  <1>12. \A r, t, sc : DataShows(r, t, sc)' <=> DataShows(r, t, sc)
    <2>1. TAKE r, t, sc
    <2>2. PickAsking(r[t[1]].list, From(t, 3), TRUE, sc)'
             <=> PickAsking(r[t[1]].list, From(t, 3), TRUE, sc)
      BY <1>5
    <2> QED BY <2>2 DEF DataShows
  <1>13. \A c, t, sc : AccountShows(c, t, sc)' <=> AccountShows(c, t, sc)
    BY <1>6 DEF AccountShows
  <1>14. \A c, t, sc : ProductShows(c, t, sc)' <=> ProductShows(c, t, sc)
    BY <1>5 DEF ProductShows
  <1>15. \A list, t, sc : ListedShows(list, t, sc)' <=> ListedShows(list, t, sc)
    BY <1>6 DEF ListedShows
  <1>16. \A r, v, t, sc : Shows(r, v, t, sc)' <=> Shows(r, v, t, sc)
    <2>1. TAKE r, v, t, sc
    <2>2. /\ Asking(<<"ident", "amount", "pin">>, t, sc)'
             <=> Asking(<<"ident", "amount", "pin">>, t, sc)
          /\ DataShows(r, t, sc)' <=> DataShows(r, t, sc)
          /\ ProductShows(r[CatKey], t, sc)' <=> ProductShows(r[CatKey], t, sc)
          /\ AccountShows(r[CatKey], t, sc)' <=> AccountShows(r[CatKey], t, sc)
          /\ PickAsking(1, t, FALSE, sc)' <=> PickAsking(1, t, FALSE, sc)
      BY <1>5, <1>12, <1>13, <1>14
    <2>3. ListedShows(ListNow(v), t, sc)' <=> ListedShows(ListNow(v), t, sc)
      BY <1>6, <1>15
    <2> QED BY <2>2, <2>3 DEF Shows
  <1>17. \A r, t : Ground(r, t)' <=> Ground(r, t)
    BY DEF Ground
  <1>18. \A d, w : Agrees(d, w)' <=> Agrees(d, w)
    BY DEF Agrees
  <1> QED BY <1>11, <1>16, <1>17, <1>18

LEMMA SameOkay ==
    ASSUME kind' = kind
    PROVE  \A r, v, x, y, B, gone : Okay(r, v, x, y, B, gone)' <=> Okay(r, v, x, y, B, gone)
  <1>1. \A r, v, t, w, say : Sound(r, v, t, w, say)' <=> Sound(r, v, t, w, say)
    BY SameCounts DEF Sound
  <1>2. \A r, v, t, w, say : Lands(r, v, t, w, say)' <=> Lands(r, v, t, w, say)
    BY <1>1, SameCounts DEF Lands
  <1>3. \A r, op, v, t, w, say :
           Step1(r, op, v, t, w, say)' <=> Step1(r, op, v, t, w, say)
    BY <1>2 DEF Step1
  <1>4. \A r, op, next, v, t, w, say :
           Step2(r, op, next, v, t, w, say)' <=> Step2(r, op, next, v, t, w, say)
    BY <1>1, <1>3 DEF Step2
  <1>5. \A r, op, next, last, v, t, w, say :
           Step3(r, op, next, last, v, t, w, say)' <=> Step3(r, op, next, last, v, t, w, say)
    BY <1>1, <1>4 DEF Step3
  <1>6. \A r, todo, v, t, w, say :
           Promise(r, todo, v, t, w, say)' <=> Promise(r, todo, v, t, w, say)
    BY <1>3, <1>4, <1>5 DEF Promise
  <1>7. \A todo, w : SalesAgree(todo, w)' <=> SalesAgree(todo, w)
    BY SameCounts DEF SalesAgree
  <1>8. \A r, v, x, y : Trusts(r, v, x, y)' <=> Trusts(r, v, x, y)
    BY SameCounts DEF Trusts
  <1>9. \A r, v, x, y : Works(r, v, x, y)' <=> Works(r, v, x, y)
    <2>1. TAKE r, v, x, y
    <2>2. /\ Promise(r, y.todo, v, x.text, x.wish, y.say)'
             <=> Promise(r, y.todo, v, x.text, x.wish, y.say)
          /\ SalesAgree(y.todo, x.wish)' <=> SalesAgree(y.todo, x.wish)
      BY <1>6, <1>7
    <2> QED BY <2>2 DEF Works
  <1>10. \A x, y, B : Paid(x, y, B)' <=> Paid(x, y, B)
    BY SameCounts DEF Paid
  <1>11. \A r, x, y, B : Single(r, x, y, B)' <=> Single(r, x, y, B)
    BY DEF Single, Told, ToldLast
  <1> QED BY <1>8, <1>9, <1>10, <1>11 DEF Okay

(* The list that a provider has matters only where it is read again. *)
LEMMA OtherList ==
    ASSUME kind \notin ReadAgain
    PROVE  /\ \A r, v, u, t, w : Counts(r, v, t, w) <=> Counts(r, u, t, w)
           /\ \A r, v, u, t, sc : Shows(r, v, t, sc) <=> Shows(r, u, t, sc)
  <1>1. \A v, u : kind \in {"deposit", "withdraw", "favorite"} => ListNow(v) = ListNow(u)
    BY DEF ListNow, ReadAgain
  <1>2. \A r, v, u, t, w : Counts(r, v, t, w) <=> Counts(r, u, t, w)
    <2>1. TAKE r, v, u, t, w
    <2>2. kind \in {"deposit", "withdraw", "favorite"} => ListNow(v) = ListNow(u)
      BY <1>1
    <2> QED BY <2>2 DEF Counts
  <1>3. \A r, v, u, t, sc : Shows(r, v, t, sc) <=> Shows(r, u, t, sc)
    <2>1. TAKE r, v, u, t, sc
    <2>2. kind \in {"deposit", "withdraw", "favorite"} => ListNow(v) = ListNow(u)
      BY <1>1
    <2> QED BY <2>2 DEF Shows
  <1> QED BY <1>2, <1>3

LEMMA OtherListOkay ==
    ASSUME kind \notin ReadAgain, NEW r, NEW v, NEW u, NEW x, NEW y, NEW B, NEW gone,
           Okay(r, v, x, y, B, gone)
    PROVE  Okay(r, u, x, y, B, gone)
  <1>1. \A s, t, w, say : Sound(s, v, t, w, say) <=> Sound(s, u, t, w, say)
    BY OtherList DEF Sound
  <1>2. \A s, t, w, say : Lands(s, v, t, w, say) <=> Lands(s, u, t, w, say)
    BY <1>1, OtherList DEF Lands
  <1>3. \A s, op, t, w, say : Step1(s, op, v, t, w, say) <=> Step1(s, op, u, t, w, say)
    BY <1>2 DEF Step1
  <1>4. \A s, op, next, t, w, say :
           Step2(s, op, next, v, t, w, say) <=> Step2(s, op, next, u, t, w, say)
    BY <1>1, <1>3 DEF Step2
  <1>5. \A s, op, next, last, t, w, say :
           Step3(s, op, next, last, v, t, w, say) <=> Step3(s, op, next, last, u, t, w, say)
    BY <1>1, <1>4 DEF Step3
  <1>6. \A s, todo, t, w, say : Promise(s, todo, v, t, w, say) <=> Promise(s, todo, u, t, w, say)
    BY <1>3, <1>4, <1>5 DEF Promise
  <1>7. Trusts(r, u, x, y)
    BY OtherList DEF Trusts, Okay
  <1>8. Works(r, u, x, y)
    BY <1>6 DEF Works, Okay
  <1> QED BY <1>7, <1>8 DEF Okay

(* A session that has not started counts on nothing. *)
LEMMA UnstartedOkay ==
    ASSUME NEW r, NEW v, NEW r2, NEW v2, NEW x, NEW y, NEW B, NEW gone, ~Started(x),
           Okay(r, v, x, y, B, gone)
    PROVE  Okay(r2, v2, x, y, B, gone) /\ B = {}
  <1>1. ~x.waiting /\ x.screen.ask = "nothing" /\ x.screen # End
    BY DEF Started, End, Ask
  <1>2. B = {}
    BY <1>1 DEF Okay, Paid
  <1> QED BY <1>1, <1>2 DEF Okay, Trusts, Works, Paid, Single, Started, Told


-----------------------------------------------------------------------------
(* What the user does. *)

LEMMA NothingSold ==
    ASSUME NEW r, NEW x, NEW y
    PROVE  Paid(x, y, {}) /\ Single(r, x, y, {})
  BY DEF Paid, Single, Told

LEMMA ToldNotEmpty ==
    ASSUME NEW B, B = {}
    PROVE  ~Told(B)
  BY DEF Told

LEMMA IncomingOkay ==
    ASSUME NEW r, NEW v, NEW x, NEW y, y.pc \in {"idle", "start"},
           y.pc = "start" => y.text = x.text
    PROVE  Works(r, v, x, y)
  BY DEF Works

(* Nothing is bought yet when the session asks. *)
LEMMA AskingBuysNothing ==
    ASSUME NEW x, NEW y, NEW B, Paid(x, y, B), ~x.waiting, x.screen.ask # "end"
    PROVE  B = {}
  <1>1. x.screen # End
    BY ScreensAre
  <1> QED BY <1>1 DEF Paid

LEMMA OpeningOkay ==
    ASSUME NEW r, NEW v, NEW s, NEW x, x.text = <<>>, x.waiting = TRUE, x.wish = NoDeal,
           NEW y, y.pc = "start", y.text = <<>>, NEW gone
    PROVE  Okay(r, v, x, y, {}, gone)
  <1>1. Counts(r, v, x.text, x.wish) /\ Ground(r, x.text)
    BY NothingCounts DEF Ground
  <1>2. Trusts(r, v, x, y)
    BY <1>1 DEF Trusts
  <1> QED BY <1>2, IncomingOkay, NothingSold DEF Okay

LEMMA TypingOkay ==
    ASSUME NEW r \in Redis, NEW v \in Lists, NEW x, NEW B, NEW gone,
           Okay(r, v, x, NoRequest, B, gone), ~x.waiting,
           x.screen.ask \notin {"nothing", "end"},
           Typed(x.screen), x.screen # End, x.text \in Texts, x.wish \in Deal, Plain(x.wish),
           NEW seg, seg \in Sensible(x.screen) \/ (seg = Back /\ x.text # <<>>),
           NEW text, seg # Back => text = Append(x.text, seg),
           seg = Back => text = Front(x.text),
           seg = Back <=> ~(seg \in Sensible(x.screen)),
           NEW z, z.text = text, z.waiting = TRUE, z.wish = Wished(x.wish, x.screen, seg),
           NEW y, y.pc = "start", y.text = text
    PROVE  Okay(r, v, z, y, B, gone)
  <1> DEFINE t == x.text
             sc == x.screen
             w == x.wish
             u == Wished(w, sc, seg)
  <1>1. Counts(r, v, t, w) /\ Shows(r, v, t, sc)
    BY DEF Okay, Trusts, Started
  <1>2. B = {}
    BY AskingBuysNothing DEF Okay
  <1>3. Counts(r, v, text, u)
    <2>1. CASE seg = Back
      <3>1. t # <<>> /\ u = w
        BY <2>1, BackWish
      <3>2. Counts(r, v, Front(t), w)
        BY <1>1, <3>1, BackCounts
      <3> QED BY <2>1, <3>1, <3>2
    <2>2. CASE seg # Back
      <3>1. seg \in Sensible(sc)
        BY <2>2
      <3>2. Counts(r, v, Append(t, seg), u)
        BY <1>1, <3>1, AnswerCounts
      <3> QED BY <2>2, <3>2
    <2> QED BY <2>1, <2>2
  <1>4. Ground(r, text)
    BY <1>1 DEF Ground, Shows, BankShows
  <1> HIDE DEF u
  <1>5. Trusts(r, v, z, y)
    BY <1>3, <1>4 DEF Trusts, u
  <1> QED BY <1>2, <1>5, IncomingOkay, NothingSold DEF Okay

LEMMA RepeatOkay ==
    ASSUME NEW r, NEW v, NEW x, NEW B, NEW gone, Okay(r, v, x, NoRequest, B, gone),
           NEW y, y.pc = "start", y.text = x.text
    PROVE  Okay(r, v, x, y, B, gone)
  <1>1. ~Ending(y) /\ ~Ending(NoRequest) /\ NoRequest.pc = "idle"
    BY IdleIs DEF Ending
  <1>2. Trusts(r, v, x, y) /\ Paid(x, y, B)
    BY <1>1 DEF Okay, Trusts, Paid
  <1>3. gone \/ Single(r, x, y, B)
    BY <1>1, <1>2, ToldNotEmpty DEF Okay, Single, Paid
  <1> QED BY <1>2, <1>3, IncomingOkay DEF Okay

LEMMA LeavingOkay ==
    ASSUME NEW r, NEW v, NEW x, NEW y, NEW B, NEW gone, Okay(r, v, x, y, B, gone),
           ~x.waiting, x.screen.ask \notin {"nothing", "end"},
           NEW z, z.text = x.text, z.waiting = FALSE, z.screen = Ask("nothing"), z.wish = x.wish
    PROVE  Okay(r, v, z, y, B, gone)
  <1>1. B = {}
    BY AskingBuysNothing DEF Okay
  <1>2. ~Started(z) /\ z.screen.ask = "nothing" /\ x.screen # End
    BY ScreensAre DEF Started, Asks
  <1>3. Trusts(r, v, z, y)
    BY <1>2 DEF Trusts
  <1>4. Works(r, v, z, y)
    BY <1>2 DEF Works, Okay
  <1> QED BY <1>1, <1>3, <1>4, NothingSold DEF Okay

-----------------------------------------------------------------------------
(* What a request does. *)

(* It ends, and nobody waits for it. *)
LEMMA DroppedOkay ==
    ASSUME NEW r, NEW v, NEW x, NEW y, NEW B, NEW gone, Okay(r, v, x, y, B, gone),
           ~x.waiting,
           gone \/ ~Told(B) \/ r[CatKey] = Absent \/ kind \notin {"elect", "cable", "bank"}
    PROVE  Okay(r, v, x, NoRequest, B, gone)
  <1>1. NoRequest.pc = "idle"
    BY IdleIs
  <1>2. Trusts(r, v, x, NoRequest) /\ Paid(x, NoRequest, B)
    BY DEF Okay, Trusts, Paid
  <1>3. gone \/ Single(r, x, NoRequest, B)
    BY <1>1 DEF Okay, Single
  <1> QED BY <1>1, <1>2, <1>3, IncomingOkay DEF Okay

(* It ends, and its user sees the answer. *)
LEMMA ShownOkay ==
    ASSUME NEW r, NEW v, NEW x \in Session, NEW B, NEW gone, NEW screen \in Screen,
           Counts(r, v, x.text, x.wish), screen = End \/ Shows(r, v, x.text, screen),
           \A b \in B : screen = End /\ Agrees(b.deal, x.wish),
           gone \/ ~Told(B) \/ kind \notin {"elect", "cable", "bank"}
              \/ (r[CatKey] = Absent /\ ToldLast(B))
    PROVE  Okay(r, v, Shown(x, screen), NoRequest, B, gone)
  <1> DEFINE z == Shown(x, screen)
  <1>1. NoRequest.pc = "idle" /\ End.ask = "end"
    BY IdleIs, ScreensAre
  <1>2. z.text = x.text /\ z.wish = x.wish /\ z.waiting = FALSE /\ z.screen = screen
    BY ShownIs
  <1> HIDE DEF z
  <1>3. Trusts(r, v, z, NoRequest) /\ Paid(z, NoRequest, B)
    BY <1>1, <1>2 DEF Trusts, Paid
  <1>4. gone \/ Single(r, z, NoRequest, B)
    BY <1>1, <1>2 DEF Single
  <1> QED BY <1>1, <1>3, <1>4, IncomingOkay DEF Okay, z


(* Work that does not begin with the purchase. *)
First(o) == o.todo = <<>> \/ o.todo[1].op # "buy"

LEMMA WritesFirst ==
    /\ \A sc : First(Say(sc))
    /\ \A a, sc : a.op # "buy" => First(Do(<<a>>, sc))
    /\ \A a, b, sc : a.op # "buy" => First(Do(<<a, b>>, sc))
    /\ \A a, b, c, sc : a.op # "buy" => First(Do(<<a, b, c>>, sc))
    /\ \A k, c : Set(k, c).op # "buy" /\ Touch(k, c).op # "buy" /\ Del(k).op # "buy"
  <1>1. \A sc : First(Say(sc))
    BY DEF First, Say
  <1>2. \A a, sc : a.op # "buy" => First(Do(<<a>>, sc))
    BY DEF First, Do
  <1>3. \A a, b, sc : a.op # "buy" => First(Do(<<a, b>>, sc))
    BY DEF First, Do
  <1>4. \A a, b, c, sc : a.op # "buy" => First(Do(<<a, b, c>>, sc))
    BY DEF First, Do
  <1>5. \A k, c : Set(k, c).op = "set" /\ Touch(k, c).op = "touch" /\ Del(k).op = "del"
    BY DEF Set, Touch, Del, Op
  <1>6. \A k, c : Set(k, c).op # "buy" /\ Touch(k, c).op # "buy" /\ Del(k).op # "buy"
    BY <1>5
  <1> QED BY <1>1, <1>2, <1>3, <1>4, <1>6, Zenon

LEMMA FirstStores ==
    ASSUME NEW o, NEW t, Proper(o, t), kind \in {"elect", "cable", "bank"}, First(o)
    PROVE  Writing(o.todo)
  <1> DEFINE todo == o.todo
  <1>1. todo \in Seq(Ops) /\ (Writing(todo) \/ \E d \in Deal : Sale(todo, d))
    BY DEF Proper, TodoOK
  <1>2. todo = <<>> \/ todo[1].op # "buy"
    BY DEF First
  <1> HIDE DEF todo
  <1>3. ASSUME NEW d \in Deal, Sale(todo, d) PROVE todo # <<>> /\ todo[1].op = "buy"
    <2>1. todo = <<Buy(d), Del(CatKey)>> \/ todo = <<Buy(d), Del(CatKey), Op("mirror")>>
      BY <1>3 DEF Sale
    <2>2. todo # <<>> /\ todo[1] = Buy(d)
      BY <1>1, <2>1
    <2> QED BY <2>2, OpsAre
  <1>4. Writing(todo)
    BY <1>1, <1>2, <1>3
  <1> QED BY <1>4 DEF todo

LEMMA BrowseFirst ==
    ASSUME NEW nav, NEW what, NEW list
    PROVE  First(BrowseOrEnd(nav, what, list))
  <1>1. BrowseOrEnd(nav, what, list) \in {Say(End), Say(Page(what, list, nav.page))}
    BY DEF BrowseOrEnd
  <1> QED BY <1>1, WritesFirst, Zenon

LEMMA PickFirst ==
    ASSUME NEW t, NEW p, NEW v
    PROVE  First(ElectPick(t, p, v))
  <1> DEFINE o == ElectPick(t, p, v)
             nav == Parse(t, Plans, TRUE)
             c1 == [p EXCEPT !.len = nav.used, !.chosen = [list |-> p.list, n |-> nav.picked]]
             c2 == [Fetched(v) EXCEPT !.chosen = p.chosen, !.ident = t[p.len + 1],
                                      !.len = p.len + 1]
  <1>1. \/ o = BrowseOrEnd(nav, "group", p.list)
        \/ o = Do(<<Set(PickKey, c1)>>, Ask("ident"))
        \/ o = Say(End)
        \/ o = Do(<<Set(CatKey, c2), Del(PickKey)>>, Page("item", v, 0))
    BY DEF ElectPick
  <1> HIDE DEF o, c1, c2, nav
  <1>2. CASE o = BrowseOrEnd(nav, "group", p.list)
    BY <1>2, BrowseFirst DEF o
  <1>3. CASE o # BrowseOrEnd(nav, "group", p.list)
    <2>1. First(o)
      BY <1>1, <1>3, WritesFirst, Zenon
    <2> QED BY <2>1 DEF o
  <1> QED BY <1>2, <1>3

(* Without a catalogue there is nothing to buy. *)
LEMMA NothingToSell ==
    ASSUME TypeInv, NEW q \in Requests, kind \in {"elect", "cable", "bank"},
           redis[CatKey] = Absent,
           req[q].pc = "load active" \/ (req[q].pc = "start" /\ ~NeedsActive(q))
    PROVE  First(Outcome(q))
  <1> DEFINE t == req[q].text
             v == current
  <1>1. CASE kind = "elect"
    <2>1. ASSUME t = <<>>, NEW p, NEW a PROVE First(Elect(t, p, a, v))
      <3>1. Elect(t, p, a, v) = Do(<<Del(PickKey), Del(CatKey), Set(PickKey, Fetched(v))>>,
                                   Page("group", v, 0))
        BY <2>1 DEF Elect
      <3> QED BY <3>1, WritesFirst, Zenon
    <2>2. ASSUME t # <<>>, NEW p, p # Absent, NEW a PROVE First(Elect(t, p, a, v))
      <3>1. Elect(t, p, a, v) = ElectPick(t, p, v)
        BY <2>2 DEF Elect
      <3> QED BY <3>1, PickFirst
    <2>3. ASSUME t # <<>>, NEW p, p = Absent, NEW a, a = Absent PROVE First(Elect(t, p, a, v))
      <3>1. Elect(t, p, a, v) = Say(End)
        BY <2>3 DEF Elect, ElectProduct
      <3> QED BY <3>1, WritesFirst, Zenon
    <2>4. ASSUME NEW p, NEW a PROVE Respond(t, p, a, v) = Elect(t, p, a, v)
      BY <1>1 DEF Respond, ReadAgain
    <2>5. CASE req[q].pc = "start" /\ ~NeedsActive(q)
      <3>1. Outcome(q) = Respond(t, redis[PickKey], redis[PickKey], v)
        BY <1>1, <2>5 DEF Outcome, CopyKey
      <3>2. t = <<>> \/ redis[PickKey] # Absent
        BY <1>1, <2>5 DEF NeedsActive
      <3> QED BY <2>1, <2>2, <2>4, <3>1, <3>2
    <2>6. CASE req[q].pc = "load active"
      <3>1. Outcome(q) = Respond(t, Absent, redis[CatKey], v)
        BY <2>6 DEF Outcome
      <3>2. t # <<>>
        BY <2>6, TypedIs DEF RequestOK
      <3> QED BY <2>3, <2>4, <3>1, <3>2
    <2> QED BY <2>5, <2>6
  <1>2. CASE kind \in {"cable", "bank"}
    <2>1. req[q].pc = "start"
      BY <1>2, TypedIs DEF RequestOK
    <2>2. Outcome(q) = Respond(t, Absent, Absent, v)
      BY <1>2, <2>1 DEF Outcome, CopyKey
    <2>3. CASE kind = "cable"
      <3>1. Respond(t, Absent, Absent, v) = BetOrCable(t, Absent, v)
        BY <2>3 DEF Respond, ReadAgain
      <3>2. \/ BetOrCable(t, Absent, v) = Do(<<Del(CatKey), Set(CatKey, Fetched(v))>>,
                                             Page("item", v, 0))
            \/ BetOrCable(t, Absent, v) = Say(End)
        BY <2>3 DEF BetOrCable
      <3> QED BY <2>2, <3>1, <3>2, WritesFirst, Zenon
    <2>4. CASE kind = "bank"
      <3>1. Respond(t, Absent, Absent, v) = Bank(t, Absent, v)
        BY <2>4 DEF Respond, ReadAgain
      <3>2. Bank(t, Absent, v) = Do(<<Set(CatKey, Fetched(v))>>, Page("item", v, 0))
        BY DEF Bank, BankPick
      <3> QED BY <2>2, <3>1, <3>2, WritesFirst, Zenon
    <2> QED BY <1>2, <2>3, <2>4
  <1> QED BY <1>1, <1>2


-----------------------------------------------------------------------------
(* The answer is worked out. *)

LEMMA NotStarted ==
    ASSUME kind \in Kinds, NEW x, SessionOK(x), ~Started(x)
    PROVE  x.text = <<>> /\ ~x.waiting
  <1>1. ~x.waiting /\ x.screen.ask = "nothing"
    BY DEF Started
  <1>2. "nothing" \notin AsksOf(kind)
    BY VendAssumption DEF AsksOf, Catalogued, ReadAgain, Fixed
  <1>3. ~GoodScreen(x.screen) /\ x.screen # Ask("gate")
    BY <1>1, <1>2, ScreensAre DEF GoodScreen, Asks
  <1> QED BY <1>1, <1>3 DEF SessionOK

LEMMA WritingSells ==
    ASSUME NEW todo, Writing(todo), NEW w
    PROVE  SalesAgree(todo, w)
  BY DEF Writing, Stores, SalesAgree

(* Whom nobody waits for buys only what the session has ended with. *)
LEMMA UnawaitedSells ==
    ASSUME kind \in Kinds, NEW r, NEW v, NEW x, SessionOK(x), ~x.waiting, NEW y,
           Trusts(r, v, x, y), NEW o, o # Panic, Replies(o, r, v, x.text),
           kind = "bank" /\ r[CatKey] = Absent => Writing(o.todo), o.todo # <<>>
    PROVE  /\ Writing(o.todo) \/ x.screen = End
           /\ Started(x) => SalesAgree(o.todo, x.wish)
  <1>1. Proper(o, x.text) /\ x.wish \in Deal /\ Plain(x.wish)
    BY DEF Replies, SessionOK
  <1>2. CASE x.screen.ask = "nothing"
    <2>1. ~Started(x)
      BY <1>2 DEF Started
    <2>2. x.text = <<>>
      BY <2>1, NotStarted
    <2>3. Writing(o.todo)
      BY <1>1, <2>2 DEF Proper
    <2> QED BY <2>3, WritingSells
  <1>3. CASE x.screen.ask = "end"
    <2>1. x.screen = End
      BY <1>3, ScreensAre DEF SessionOK, GoodScreen, Asks
    <2>2. Started(x) /\ Counts(r, v, x.text, x.wish)
      BY <1>3 DEF Started, Trusts
    <2>3. CASE Ground(r, x.text)
      <3>1. Keeps(o, r, v, x.text, x.wish)
        BY <1>1, <2>2, <2>3 DEF Replies
      <3> QED BY <2>1, <3>1 DEF Keeps
    <2>4. CASE ~Ground(r, x.text)
      <3>1. Writing(o.todo)
        BY <2>4 DEF Ground
      <3> QED BY <3>1, WritingSells
    <2> QED BY <2>3, <2>4
  <1>4. CASE x.screen.ask \notin {"nothing", "end"}
    <2>1. Shows(r, v, x.text, x.screen)
      BY <1>4 DEF Trusts
    <2>2. Writing(o.todo)
      BY <2>1 DEF Replies, NoSale
    <2> QED BY <2>2, WritingSells
  <1> QED BY <1>2, <1>3, <1>4

LEMMA HandledOkay ==
    ASSUME kind \in Kinds, NEW r \in Redis, NEW v, NEW x \in Session, SessionOK(x),
           NEW y \in Request, RequestOK(y), y.pc \in {"start", "load active"},
           NEW B, NEW gone, Okay(r, v, x, y, B, gone),
           NEW o, o # Panic, Replies(o, r, v, x.text),
           kind \in {"elect", "cable", "bank"} /\ r[CatKey] = Absent => Writing(o.todo),
           NEW z, z.pc = "work", z.text = y.text, z.todo = o.todo, z.say = o.say
    PROVE  /\ y.text = x.text
           /\ o.todo = <<>> /\ x.waiting => Okay(r, v, Shown(x, o.say), NoRequest, B, gone)
           /\ o.todo = <<>> /\ ~x.waiting => Okay(r, v, x, NoRequest, B, gone)
           /\ o.todo # <<>> => Okay(r, v, x, z, B, gone)
  <1>1. y.text = x.text
    BY DEF Okay, Works
  <1>2. Proper(o, x.text) /\ o.say \in Screen /\ x.wish \in Deal /\ Plain(x.wish)
    BY DEF Replies, SessionOK, Proper, GoodScreen
  <1>3. x.waiting => B = {}
    BY DEF Okay, Paid, Ending
  <1>4. ASSUME x.waiting
        PROVE  Keeps(o, r, v, x.text, x.wish) /\ Counts(r, v, x.text, x.wish)
               /\ Ground(r, x.text)
    <2>1. Counts(r, v, x.text, x.wish) /\ Ground(r, x.text)
      BY <1>4 DEF Okay, Trusts, Started, Ending
    <2> QED BY <1>2, <2>1 DEF Replies
  <1>5. ASSUME ~gone, kind \in {"elect", "cable", "bank"}, Told(B)
        PROVE  ~x.waiting /\ r[CatKey] = Absent /\ Writing(o.todo) /\ ToldLast(B)
    <2>1. Single(r, x, y, B)
      BY <1>5 DEF Okay
    <2>2. r[CatKey] = Absent /\ ToldLast(B)
      BY <1>5, <2>1 DEF Single
    <2> QED BY <1>3, <1>5, <2>2, ToldNotEmpty
  <1>6. ASSUME o.todo = <<>>, x.waiting
        PROVE  Okay(r, v, Shown(x, o.say), NoRequest, B, gone)
    <2>1. o.say = End \/ Shows(r, v, x.text, o.say)
      BY <1>4, <1>6 DEF Keeps
    <2> QED BY <1>2, <1>3, <1>4, <1>6, <2>1, ShownOkay, ToldNotEmpty
  <1>7. ASSUME o.todo = <<>>, ~x.waiting
        PROVE  Okay(r, v, x, NoRequest, B, gone)
    BY <1>5, <1>7, DroppedOkay
  <1>8. ASSUME o.todo # <<>>
        PROVE  Okay(r, v, x, z, B, gone)
    <2>1. Trusts(r, v, x, z)
      BY <1>4 DEF Okay, Trusts
    <2>2. /\ x.waiting => Promise(r, o.todo, v, x.text, x.wish, o.say)
          /\ x.waiting => SalesAgree(o.todo, x.wish)
      BY <1>4, <1>8 DEF Keeps
    <2>3. /\ ~x.waiting => Writing(o.todo) \/ x.screen = End
          /\ ~x.waiting /\ Started(x) => SalesAgree(o.todo, x.wish)
      BY <1>8, UnawaitedSells DEF Okay
    <2>4. Works(r, v, x, z)
      BY <1>1, <2>2, <2>3 DEF Works
    <2>5. Paid(x, z, B)
      BY <1>3 DEF Okay, Paid
    <2>6. gone \/ Single(r, x, z, B)
      BY <1>5 DEF Single
    <2> QED BY <2>1, <2>4, <2>5, <2>6 DEF Okay
  <1> QED BY <1>1, <1>6, <1>7, <1>8

(* There is no pick. *)
LEMMA NoPickOkay ==
    ASSUME NEW r, NEW v, NEW x, NEW y, y.pc = "start", NEW B, NEW gone,
           Okay(r, v, x, y, B, gone), r[PickKey] = Absent,
           NEW z, z.pc = "load active", z.text = y.text
    PROVE  Okay(r, v, x, z, B, gone)
  <1>1. Trusts(r, v, x, z) /\ Works(r, v, x, z)
    BY DEF Okay, Trusts, Works, Ending
  <1>2. Paid(x, z, B)
    BY DEF Okay, Paid, Ending
  <1>3. gone \/ Single(r, x, z, B)
    <2>1. SUFFICES ASSUME ~gone, kind \in {"elect", "cable", "bank"}, Told(B)
                   PROVE  Single(r, x, z, B)
      BY DEF Single
    <2>2. ~x.waiting
      BY <2>1, ToldNotEmpty DEF Okay, Paid, Ending
    <2> QED BY <2>1, <2>2 DEF Okay, Single
  <1> QED BY <1>1, <1>2, <1>3 DEF Okay

(* The request ends early, its user sees the end. *)
LEMMA EndedOkay ==
    ASSUME NEW r, NEW v, NEW x \in Session, NEW y, NEW B, NEW gone,
           Okay(r, v, x, y, B, gone), x.waiting,
           gone \/ ~Told(B) \/ kind \notin {"elect", "cable", "bank"}
              \/ (r[CatKey] = Absent /\ ToldLast(B))
    PROVE  Okay(r, v, Shown(x, End), NoRequest, B, gone)
  <1>1. Counts(r, v, x.text, x.wish)
    BY DEF Okay, Trusts, Started
  <1>2. \A b \in B : Agrees(b.deal, x.wish)
    BY DEF Okay, Paid
  <1> QED BY <1>1, <1>2, ScreensAre, ShownOkay

(* Before its work a request leaves a session that bought nothing, or that  *)
(* nobody waits in.                                                         *)
LEMMA RefusedOkay ==
    ASSUME NEW r, NEW v, NEW x \in Session, NEW y, y.pc # "work", NEW B, NEW gone,
           Okay(r, v, x, y, B, gone)
    PROVE  /\ x.waiting => Okay(r, v, Shown(x, End), NoRequest, B, gone)
           /\ ~x.waiting => Okay(r, v, x, NoRequest, B, gone)
  <1>1. x.waiting => B = {}
    BY DEF Okay, Paid, Ending
  <1>2. gone \/ ~Told(B) \/ r[CatKey] = Absent \/ kind \notin {"elect", "cable", "bank"}
    BY DEF Okay, Single
  <1> QED BY <1>1, <1>2, EndedOkay, DroppedOkay, ToldNotEmpty

(* The keys are deleted for a list that does not come. *)
LEMMA NoListOkay ==
    ASSUME NEW r \in Redis, NEW v, NEW x, NEW y, y.pc = "start", y.text = <<>>,
           NEW B, NEW gone, Okay(r, v, x, y, B, gone), kind \in {"elect", "cable"},
           NEW z, z.pc = "work", z.text = y.text, z.todo = Openings, z.say = End
    PROVE  Okay(r, v, x, z, B, gone)
  <1>1. y.text = x.text /\ x.text = <<>> /\ ~Ending(y) /\ Ending(z)
    BY DEF Okay, Works, Ending
  <1>2. \A e, w : Counts(e, v, <<>>, w)
    <2>1. kind \notin {"airtime", "data", "bank", "swap", "deposit", "withdraw", "favorite"}
      OBVIOUS
    <2> QED BY <2>1 DEF Counts, ReadAgain
  <1>3. Promise(r, Openings, v, x.text, x.wish, End)
    <2>1. \A e, a, b : Lands(e, v, x.text, x.wish, End) /\ Sound(e, v, x.text, x.wish, End)
      BY <1>1, <1>2 DEF Lands, Sound
    <2>2. CASE kind = "elect"
      <3>1. Del(PickKey).op = "del" /\ Del(CatKey).op = "del"
        BY OpsAre, Constants
      <3>2. \A a, b : Len(<<a, b>>) = 2 /\ <<a, b>>[1] = a /\ <<a, b>>[2] = b
        OBVIOUS
      <3>3. Len(Openings) = 2 /\ Openings[1].op = "del" /\ Openings[2].op = "del"
        BY <2>2, <3>1, <3>2 DEF Openings
      <3> QED BY <2>1, <3>3 DEF Promise, Step1, Step2
    <2>3. CASE kind = "cable"
      <3>1. Del(CatKey).op = "del"
        BY OpsAre, Constants
      <3>2. \A a : Len(<<a>>) = 1 /\ <<a>>[1] = a
        OBVIOUS
      <3>3. Len(Openings) = 1 /\ Openings[1].op = "del"
        BY <2>3, <3>1, <3>2 DEF Openings
      <3> QED BY <2>1, <3>3 DEF Promise, Step1
    <2> QED BY <2>2, <2>3
  <1>4. Trusts(r, v, x, z)
    BY <1>1 DEF Okay, Trusts
  <1>5. Writing(Openings) /\ SalesAgree(Openings, x.wish)
    BY OpeningsAre, WritingSells
  <1>6. Works(r, v, x, z)
    BY <1>1, <1>3, <1>5 DEF Works
  <1>7. Paid(x, z, B) /\ (x.waiting => B = {})
    BY <1>1 DEF Okay, Paid
  <1>8. gone \/ Single(r, x, z, B)
    BY <1>5, <1>7, ToldNotEmpty DEF Okay, Single
  <1> QED BY <1>4, <1>6, <1>7, <1>8 DEF Okay

(* The process has died: nobody buys again. *)
LEMMA DiedOkay ==
    ASSUME NEW r, NEW v, NEW x \in Session, NEW y, NEW B, NEW gone,
           Okay(r, v, x, y, B, gone)
    PROVE  /\ x.waiting => Okay(r, v, Shown(x, End), NoRequest, B, TRUE)
           /\ ~x.waiting => Okay(r, v, x, NoRequest, B, TRUE)
  <1>1. Okay(r, v, x, y, B, TRUE)
    BY DEF Okay
  <1> QED BY <1>1, EndedOkay, DroppedOkay


-----------------------------------------------------------------------------
(* The work is done. *)

(* What the rest of a promise is. *)
LEMMA PromiseHead ==
    ASSUME NEW r, NEW todo \in Seq(Ops), todo # <<>>, NEW v, NEW t, NEW w, NEW say,
           Promise(r, todo, v, t, w, say)
    PROVE  /\ todo[1].op = "touch" => Apply(r, todo[1]) = r
           /\ Sound(Apply(r, todo[1]), v, t, w, say)
           /\ Len(todo) = 1 => Lands(Apply(r, todo[1]), v, t, w, say)
           /\ Len(todo) # 1 => Promise(Apply(r, todo[1]), Tail(todo), v, t, w, say)
  <1>1. Len(todo) \in 1..3
    BY DEF Promise
  <1>2. CASE Len(todo) = 1
    BY <1>2 DEF Promise, Step1, Lands
  <1>3. CASE Len(todo) = 2
    <2>1. Len(Tail(todo)) = 1 /\ Tail(todo)[1] = todo[2]
      BY <1>3
    <2>2. Step2(r, todo[1], todo[2], v, t, w, say)
      BY <1>3 DEF Promise
    <2>3. Len(todo) # 1 /\ Len(Tail(todo)) \in 1..3 /\ Len(Tail(todo)) \notin {2, 3}
      <3>1. 2 # 1 /\ 1 \in 1..3 /\ 1 \notin {2, 3}
        OBVIOUS
      <3> QED BY <1>3, <2>1, <3>1, Zenon
    <2>4. Step1(Apply(r, todo[1]), Tail(todo)[1], v, t, w, say)
      BY <2>1, <2>2, Zenon DEF Step2
    <2>5. Promise(Apply(r, todo[1]), Tail(todo), v, t, w, say)
      BY <2>3, <2>4, Zenon DEF Promise
    <2> QED BY <2>2, <2>3, <2>5, Zenon DEF Step2
  <1>4. CASE Len(todo) = 3
    <2>1. Len(Tail(todo)) = 2 /\ Tail(todo)[1] = todo[2] /\ Tail(todo)[2] = todo[3]
      <3>1. /\ Len(Tail(todo)) = Len(todo) - 1
            /\ \A i \in 1..Len(Tail(todo)) : Tail(todo)[i] = todo[i + 1]
        BY HeadTailProperties
      <3>2. Len(Tail(todo)) = 2
        BY <1>4, <3>1
      <3>3. 1 \in 1..Len(Tail(todo)) /\ 2 \in 1..Len(Tail(todo)) /\ 1 + 1 = 2 /\ 2 + 1 = 3
        <4>1. 1 \in 1..2 /\ 2 \in 1..2 /\ 1 + 1 = 2 /\ 2 + 1 = 3
          OBVIOUS
        <4> QED BY <3>2, <4>1, Zenon
      <3>4. Tail(todo)[1] = todo[1 + 1] /\ Tail(todo)[2] = todo[2 + 1]
        BY <3>1, <3>3, Zenon
      <3> QED BY <3>2, <3>3, <3>4
    <2>2. Step3(r, todo[1], todo[2], todo[3], v, t, w, say)
      BY <1>4 DEF Promise
    <2>3. /\ todo[1].op = "touch" => Apply(r, todo[1]) = r
          /\ Sound(Apply(r, todo[1]), v, t, w, say)
          /\ Step2(Apply(r, todo[1]), todo[2], todo[3], v, t, w, say)
      BY <2>2 DEF Step3
    <2>4. ASSUME NEW rest, Len(rest) = 2, rest[1] = todo[2], rest[2] = todo[3]
          PROVE  Promise(Apply(r, todo[1]), rest, v, t, w, say)
      BY <2>3, <2>4 DEF Promise
    <2>5. Promise(Apply(r, todo[1]), Tail(todo), v, t, w, say)
      BY <2>1, <2>4
    <2> QED BY <1>4, <2>3, <2>5
  <1> QED BY <1>1, <1>2, <1>3, <1>4

LEMMA TailSells ==
    ASSUME NEW todo \in Seq(Ops), todo # <<>>, NEW w, SalesAgree(todo, w)
    PROVE  SalesAgree(Tail(todo), w)
  <1>1. ASSUME NEW i \in DOMAIN Tail(todo)
        PROVE  i + 1 \in DOMAIN todo /\ Tail(todo)[i] = todo[i + 1]
    OBVIOUS
  <1> QED BY <1>1 DEF SalesAgree

LEMMA RestsAre ==
    /\ \A todo \in Rests : todo \in Seq(Ops) /\ todo # <<>> /\ todo[1].op \in {"del", "mirror"}
    /\ \A todo \in Rests : Len(todo) = 1 =>
          (todo = <<Del(CatKey)>> /\ todo[1] = Del(CatKey))
             \/ (todo = <<Op("mirror")>> /\ todo[1].op = "mirror")
    /\ \A todo \in Rests : Len(todo) # 1 =>
          todo[1] = Del(CatKey) /\ Tail(todo) = <<Op("mirror")>>
    /\ <<Op("mirror")>> \in Rests /\ <<Op("mirror")>> \in MirrorLeft
    /\ <<Op("mirror")>>[1].op = "mirror"
    /\ \A todo \in MirrorLeft : todo \in Rests
    /\ \A todo \in Rests \ {<<Op("mirror")>>} : todo[1] = Del(CatKey) /\ todo[1].op = "del"
  <1> DEFINE a == Del(CatKey)
             b == Op("mirror")
             All == {<<a>>, <<a, b>>, <<b>>}
  <1>1. a \in Ops /\ b \in Ops /\ a.op = "del" /\ b.op = "mirror"
    BY OpsAre, Constants
  <1>2. Rests = All /\ MirrorLeft = {<<a, b>>, <<b>>}
    BY DEF Rests, MirrorLeft
  <1> HIDE DEF a, b, All
  <1>3. ASSUME NEW todo \in All
        PROVE  /\ todo \in Seq(Ops) /\ todo # <<>>
               /\ todo[1].op \in {"del", "mirror"}
               /\ Len(todo) = 1 => (todo = <<a>> /\ todo[1] = a)
                                      \/ (todo = <<b>> /\ todo[1].op = "mirror")
               /\ Len(todo) # 1 => todo[1] = a /\ Tail(todo) = <<b>>
               /\ todo # <<b>> => todo[1] = a /\ todo[1].op = "del"
    <2>1. CASE todo = <<a>>
      BY <1>1, <2>1
    <2>2. CASE todo = <<b>>
      BY <1>1, <2>2
    <2>3. CASE todo = <<a, b>>
      <3>1. Len(todo) = 2 /\ todo[1] = a /\ todo # <<>>
        BY <2>3
      <3>2. Tail(todo) = <<b>>
        BY <2>3
      <3>3. todo \in Seq(Ops)
        BY <1>1, <2>3
      <3> QED BY <1>1, <3>1, <3>2, <3>3
    <2> QED BY <2>1, <2>2, <2>3 DEF All
  <1>4. <<b>>[1].op = "mirror" /\ <<b>> \in All /\ MirrorLeft \subseteq All /\ <<b>> \in MirrorLeft
    BY <1>1, <1>2 DEF All
  <1> QED BY <1>2, <1>3, <1>4 DEF a, b

(* A piece of work that the user waits for is done, or passed over when it  *)
(* changes nothing.                                                         *)
LEMMA WriteOkay ==
    ASSUME NEW r \in Redis, NEW v, NEW x \in Session, NEW y \in Request, y.pc = "work",
           NEW todo \in Seq(Ops), todo = y.todo, todo # <<>>, y.say \in Screen,
           NEW B, NEW gone, Okay(r, v, x, y, B, gone), x.waiting,
           todo[1].op \in {"set", "touch", "del"}, NEW n, n = Apply(r, todo[1]),
           NEW z, z.pc = "work", z.text = y.text, z.todo = Tail(todo), z.say = y.say
    PROVE  /\ Len(todo) = 1 => Okay(n, v, Shown(x, y.say), NoRequest, B, gone)
           /\ Len(todo) # 1 => Okay(n, v, x, z, B, gone)
  <1>1. Promise(r, todo, v, x.text, x.wish, y.say) /\ SalesAgree(todo, x.wish)
        /\ y.text = x.text
    BY DEF Okay, Works, Started
  <1>2. /\ Sound(n, v, x.text, x.wish, y.say)
        /\ Len(todo) = 1 => Lands(n, v, x.text, x.wish, y.say)
        /\ Len(todo) # 1 => Promise(n, Tail(todo), v, x.text, x.wish, y.say)
    BY <1>1, PromiseHead
  <1>3. \A b \in B : y.say = End /\ Agrees(b.deal, x.wish)
    BY DEF Okay, Paid, Ending
  <1>4. ASSUME ~gone, kind \in {"elect", "cable", "bank"}, Told(B)
        PROVE  /\ ToldLast(B)
               /\ todo \in Rests /\ todo # <<Op("mirror")>> /\ n[CatKey] = Absent
               /\ Len(todo) # 1 => Tail(todo) = <<Op("mirror")>>
    <2>1. todo \in Rests /\ ToldLast(B)
      BY <1>4 DEF Okay, Single
    <2>2. todo # <<Op("mirror")>>
      BY RestsAre
    <2>3. todo[1] = Del(CatKey)
      BY <2>1, <2>2, RestsAre
    <2>6. Apply(r, Del(CatKey)) = [r EXCEPT ![CatKey] = Absent]
      BY ApplyIs, AbsentIs, Constants
    <2>4. n = [r EXCEPT ![CatKey] = Absent]
      BY <2>3, <2>6
    <2>5. n[CatKey] = Absent
      BY <2>4, Constants DEF Redis
    <2> QED BY <2>1, <2>2, <2>5, RestsAre
  <1>5. ASSUME Len(todo) = 1
        PROVE  Okay(n, v, Shown(x, y.say), NoRequest, B, gone)
    <2>1. Counts(n, v, x.text, x.wish) /\ (y.say = End \/ Shows(n, v, x.text, y.say))
      BY <1>2, <1>5 DEF Lands, Sound
    <2> QED BY <1>3, <1>4, <2>1, ShownOkay
  <1>6. ASSUME Len(todo) # 1
        PROVE  Okay(n, v, x, z, B, gone)
    <2>1. Trusts(n, v, x, z)
      BY <1>2 DEF Trusts, Sound, Ending
    <2>2. SalesAgree(Tail(todo), x.wish)
      BY <1>1, TailSells
    <2>3. Works(n, v, x, z)
      BY <1>1, <1>2, <1>6, <2>2 DEF Works
    <2>4. Paid(x, z, B)
      BY <1>3 DEF Paid, Ending
    <2>5. gone \/ Single(n, x, z, B)
      BY <1>4, <1>6, RestsAre DEF Single
    <2> QED BY <2>1, <2>3, <2>4, <2>5 DEF Okay
  <1> QED BY <1>5, <1>6


(* A purchase comes first. *)
LEMMA SaleHead ==
    ASSUME NEW todo \in Seq(Ops), NEW say, WorkOK(todo, say), todo # <<>>, todo[1].op = "buy"
    PROVE  /\ say = End /\ todo[1].deal \in Deal /\ todo \notin Rests
           /\ ~Writing(todo) /\ todo \notin MirrorLeft
           /\ kind \in {"elect", "cable", "bank"} =>
                 Len(todo) # 1 /\ Tail(todo) \in Rests \ {<<Op("mirror")>>}
           /\ Len(todo) # 1 => Writing(Tail(todo)) \/ Tail(todo) \in MirrorLeft
  <1>1. say = End /\ todo[1].deal \in Deal /\ ~Writing(todo) /\ todo \notin MirrorLeft
    BY HeadIs
  <1>2. todo \notin Rests
    BY RestsAre
  <1>3. Len(todo) # 1 => Writing(Tail(todo)) \/ Tail(todo) \in MirrorLeft
    BY TailIs
  <1>4. ASSUME kind \in {"elect", "cable", "bank"}
        PROVE  Len(todo) # 1 /\ Tail(todo) \in Rests \ {<<Op("mirror")>>}
    <2> DEFINE a == Del(CatKey)
               b == Op("mirror")
    <2>1. PICK d \in Deal : Sale(todo, d)
      BY <1>1 DEF WorkOK, TodoOK
    <2>2. Buy(d) \in Ops /\ a \in Ops /\ b \in Ops /\ a # b
      BY OpsAre, Constants
    <2>3. todo = <<Buy(d), a>> \/ todo = <<Buy(d), a, b>>
      BY <1>4, <2>1 DEF Sale
    <2> HIDE DEF a, b
    <2>4. CASE todo = <<Buy(d), a>>
      <3>1. Len(todo) = 2 /\ Tail(todo) = <<a>> /\ <<a>> # <<b>>
        BY <2>2, <2>4
      <3> QED BY <3>1 DEF Rests, a, b
    <2>5. CASE todo = <<Buy(d), a, b>>
      <3>1. Len(todo) = 3 /\ Tail(todo) = <<a, b>> /\ <<a, b>> # <<b>>
        BY <2>2, <2>5
      <3> QED BY <3>1 DEF Rests, a, b
    <2> QED BY <2>3, <2>4, <2>5
  <1> QED BY <1>1, <1>2, <1>3, <1>4

(* The purchase is made. *)
LEMMA PaidOkay ==
    ASSUME NEW r, NEW v, NEW x \in Session, NEW y \in Request, y.pc = "work",
           NEW todo \in Seq(Ops), todo = y.todo, todo # <<>>, WorkOK(todo, y.say),
           NEW B, NEW gone, Okay(r, v, x, y, B, gone), todo[1].op = "buy",
           x.waiting \in BOOLEAN,
           NEW b, b.deal = todo[1].deal, b.n \in Nat, \A d \in B : d.n \in Nat /\ d.n < b.n,
           NEW z, z.pc = "work", z.text = y.text, z.todo = Tail(todo), z.say = y.say
    PROVE  /\ Len(todo) = 1 /\ x.waiting =>
                 Okay(r, v, Shown(x, y.say), NoRequest, B \cup {b}, gone)
           /\ Len(todo) = 1 /\ ~x.waiting => Okay(r, v, x, NoRequest, B \cup {b}, gone)
           /\ Len(todo) # 1 => Okay(r, v, x, z, B \cup {b}, gone)
  <1>1. /\ y.say = End /\ todo \notin Rests /\ ~Writing(todo) /\ todo \notin MirrorLeft
        /\ kind \in {"elect", "cable", "bank"} =>
              Len(todo) # 1 /\ Tail(todo) \in Rests \ {<<Op("mirror")>>}
        /\ Len(todo) # 1 => Writing(Tail(todo)) \/ Tail(todo) \in MirrorLeft
    BY SaleHead
  <1>2. ~x.waiting => x.screen = End
    BY <1>1 DEF Okay, Works
  <1>3. Started(x)
    BY <1>2, ScreensAre DEF Started
  <1>4. SalesAgree(todo, x.wish) /\ y.text = x.text /\ Counts(r, v, x.text, x.wish)
    BY <1>3 DEF Okay, Works, Trusts
  <1>5. Agrees(b.deal, x.wish)
    <2>1. 1 \in DOMAIN todo
      OBVIOUS
    <2> QED BY <1>4, <2>1 DEF SalesAgree
  <1>6. \A d \in B \cup {b} : Agrees(d.deal, x.wish)
    BY <1>5 DEF Okay, Paid
  <1>7. ASSUME ~gone, kind \in {"elect", "cable", "bank"}
        PROVE  ToldLast(B \cup {b})
    <2>1. ~Told(B)
      BY <1>1, <1>7 DEF Okay, Single
    <2> QED BY <2>1 DEF Told, ToldLast
  <1>8. x.waiting => /\ Promise(r, todo, v, x.text, x.wish, y.say)
                     /\ Apply(r, todo[1]) = r
    BY DEF Okay, Works, Apply
  <1>9. ASSUME Len(todo) = 1, x.waiting
        PROVE  Okay(r, v, Shown(x, y.say), NoRequest, B \cup {b}, gone)
    <2>1. End \in Screen
      BY ScreensAre
    <2>2. \A d \in B \cup {b} : End = End /\ Agrees(d.deal, x.wish)
      BY <1>6
    <2>3. kind \notin {"elect", "cable", "bank"}
      BY <1>1, <1>9
    <2>4. Okay(r, v, Shown(x, End), NoRequest, B \cup {b}, gone)
      BY <1>4, <2>1, <2>2, <2>3, ShownOkay
    <2> QED BY <1>1, <2>4
  <1>10. ASSUME Len(todo) = 1, ~x.waiting
         PROVE  Okay(r, v, x, NoRequest, B \cup {b}, gone)
    <2>1. Trusts(r, v, x, NoRequest)
      BY <1>10 DEF Okay, Trusts
    <2>2. Paid(x, NoRequest, B \cup {b})
      BY <1>2, <1>6, <1>10 DEF Paid
    <2>3. Single(r, x, NoRequest, B \cup {b})
      BY <1>1, <1>10 DEF Single
    <2>4. Works(r, v, x, NoRequest)
      BY IdleIs, IncomingOkay
    <2> QED BY <2>1, <2>2, <2>3, <2>4 DEF Okay
  <1>11. ASSUME Len(todo) # 1
         PROVE  Okay(r, v, x, z, B \cup {b}, gone)
    <2>1. Trusts(r, v, x, z)
      BY <1>1 DEF Okay, Trusts, Ending
    <2>2. SalesAgree(Tail(todo), x.wish)
      BY <1>4, TailSells
    <2>3. x.waiting => Promise(r, Tail(todo), v, x.text, x.wish, y.say)
      BY <1>8, <1>11, PromiseHead
    <2>4. Works(r, v, x, z)
      BY <1>2, <1>4, <2>2, <2>3 DEF Works
    <2>5. Paid(x, z, B \cup {b})
      BY <1>1, <1>2, <1>6 DEF Paid, Ending
    <2>6. gone \/ Single(r, x, z, B \cup {b})
      BY <1>1, <1>7, <1>11 DEF Single
    <2> QED BY <2>1, <2>4, <2>5, <2>6 DEF Okay
  <1> QED BY <1>9, <1>10, <1>11

(* It is made, and the handler is told that it failed. *)
LEMMA UntoldOkay ==
    ASSUME NEW r, NEW v, NEW x \in Session, NEW y \in Request, y.pc = "work",
           NEW todo \in Seq(Ops), todo = y.todo, todo # <<>>, WorkOK(todo, y.say),
           NEW B, NEW gone, Okay(r, v, x, y, B, gone), todo[1].op = "buy",
           x.waiting \in BOOLEAN,
           NEW b, b.deal = todo[1].deal, ~b.told
    PROVE  Okay(r, v, x, y, B \cup {b}, gone)
  <1>1. y.say = End /\ todo \notin Rests /\ ~Writing(todo) /\ todo \notin MirrorLeft
    BY SaleHead
  <1>2. ~x.waiting => x.screen = End
    BY <1>1 DEF Okay, Works
  <1>3. Started(x)
    BY <1>2, ScreensAre DEF Started
  <1>4. Agrees(b.deal, x.wish)
    <2>1. 1 \in DOMAIN todo
      OBVIOUS
    <2> QED BY <1>3, <2>1 DEF SalesAgree, Okay, Works
  <1>5. Paid(x, y, B \cup {b})
    BY <1>1, <1>2, <1>4 DEF Okay, Paid, Ending
  <1>6. gone \/ Single(r, x, y, B \cup {b})
    BY <1>1 DEF Okay, Single, Told
  <1> QED BY <1>5, <1>6 DEF Okay

(* It is not made, or the handler is told so. *)
LEMMA UnpaidOkay ==
    ASSUME NEW r \in Redis, NEW v, NEW x \in Session, NEW y \in Request, y.pc = "work",
           NEW todo \in Seq(Ops), todo = y.todo, todo # <<>>, WorkOK(todo, y.say),
           NEW B, NEW gone, Okay(r, v, x, y, B, gone), todo[1].op = "buy",
           x.waiting \in BOOLEAN,
           NEW z, z.pc = "work", z.text = y.text, z.todo = <<Del(CatKey)>>, z.say = y.say
    PROVE  /\ x.waiting => Okay(r, v, Shown(x, End), NoRequest, B, gone)
           /\ ~x.waiting => Okay(r, v, x, NoRequest, B, gone)
           /\ kind = "bank" => Okay(r, v, x, z, B, gone)
  <1>1. y.say = End /\ todo \notin Rests /\ ~Writing(todo) /\ todo \notin MirrorLeft
    BY SaleHead
  <1>2. gone \/ ~Told(B) \/ kind \notin {"elect", "cable", "bank"}
    BY <1>1 DEF Okay, Single
  <1>3. ASSUME kind = "bank"
        PROVE  Okay(r, v, x, z, B, gone)
    <2>1. Del(CatKey) \in Ops /\ Del(CatKey).op = "del" /\ Stores(Del(CatKey))
      BY OpsAre, Constants
    <2>2. ASSUME NEW a \in Ops, a.op = "del", Stores(a)
          PROVE  /\ Len(<<a>>) = 1 /\ <<a>>[1] = a /\ Writing(<<a>>)
      BY <2>2 DEF Writing
    <2>3. Len(z.todo) = 1 /\ z.todo[1] = Del(CatKey) /\ Writing(z.todo)
      BY <2>1, <2>2
    <2>4. ~x.waiting => x.screen = End
      BY <1>1 DEF Okay, Works
    <2>5. Started(x)
      BY <2>4, ScreensAre DEF Started
    <2>6. Counts(r, v, x.text, x.wish) /\ y.text = x.text
      BY <2>5 DEF Okay, Trusts, Works
    <2>7. Apply(r, Del(CatKey)) = [r EXCEPT ![CatKey] = Absent]
      BY ApplyIs, AbsentIs, Constants
    <2>15. Counts([r EXCEPT ![CatKey] = Absent], v, x.text, x.wish)
      BY <2>6, CountsWithoutCat
    <2>8. Counts(Apply(r, Del(CatKey)), v, x.text, x.wish)
      BY <2>7, <2>15
    <2>9. Promise(r, z.todo, v, x.text, x.wish, End)
      BY <2>1, <2>3, <2>8 DEF Promise, Step1, Lands, Sound
    <2>10. Trusts(r, v, x, z)
      BY <1>1 DEF Okay, Trusts, Ending
    <2>11. SalesAgree(z.todo, x.wish)
      BY <2>3, WritingSells
    <2>12. Works(r, v, x, z)
      BY <1>1, <2>3, <2>6, <2>9, <2>11 DEF Works
    <2>13. Paid(x, z, B)
      BY <1>1 DEF Okay, Paid, Ending
    <2>14. gone \/ Single(r, x, z, B)
      BY <1>2, <1>3 DEF Single
    <2> QED BY <2>10, <2>12, <2>13, <2>14 DEF Okay
  <1> QED BY <1>2, <1>3, EndedOkay, DroppedOkay

(* A call that nobody waits for, or that an end follows, is passed over. *)
LEMMA PassedOkay ==
    ASSUME NEW r, NEW v, NEW x \in Session, NEW y \in Request, y.pc = "work",
           NEW todo \in Seq(Ops), todo = y.todo, todo # <<>>, WorkOK(todo, y.say),
           NEW B, NEW gone, Okay(r, v, x, y, B, gone), x.waiting \in BOOLEAN,
           todo[1].op \in {"set", "touch", "mirror"},
           NEW z, z.pc = "work", z.text = y.text, z.todo = Tail(todo), z.say = y.say
    PROVE  /\ todo[1].op # "touch" /\ x.waiting =>
                 Okay(r, v, Shown(x, End), NoRequest, B, gone)
           /\ ~x.waiting => Okay(r, v, x, NoRequest, B, gone)
           /\ ~x.waiting /\ Len(todo) # 1 => Okay(r, v, x, z, B, gone)
  <1>1. todo \notin Rests \ {<<Op("mirror")>>}
    BY RestsAre
  <1>2. ASSUME ~gone, kind \in {"elect", "cable", "bank"}, Told(B)
        PROVE  r[CatKey] = Absent /\ ToldLast(B)
    BY <1>1, <1>2 DEF Okay, Single
  <1>3. ASSUME ~x.waiting, Len(todo) # 1
        PROVE  Okay(r, v, x, z, B, gone)
    <2>1. todo[1].op # "mirror" /\ todo \notin MirrorLeft
      BY <1>3, HeadIs, RestsAre
    <2>2. Writing(todo) => Writing(Tail(todo))
      BY <1>3, TailIs
    <2>3. Started(x) => SalesAgree(Tail(todo), x.wish)
      BY TailSells DEF Okay, Works
    <2>4. Trusts(r, v, x, z) /\ Paid(x, z, B)
      BY <1>3 DEF Okay, Trusts, Paid
    <2>5. Works(r, v, x, z)
      BY <1>3, <2>1, <2>2, <2>3 DEF Okay, Works
    <2>6. gone \/ Single(r, x, z, B)
      BY <1>2, <1>3, <2>1, <2>2 DEF Okay, Single
    <2> QED BY <2>4, <2>5, <2>6 DEF Okay
  <1> QED BY <1>2, <1>3, EndedOkay, DroppedOkay


-----------------------------------------------------------------------------
(* One session's step leaves the others right. *)

LEMMA RightOne ==
    ASSUME NEW R, NEW q \in Requests, NEW s, R[q].session = s,
           \A p \in Requests \ {q} : R[p].session # s,
           NEW r, NEW v, NEW x, NEW B, NEW gone, Okay(r, v, x, R[q], Of(B, s), gone)
    PROVE  Right(r, v, x, R, B, gone, s)
  <1>1. Holds(R, s, R[q])
    BY DEF Holds
  <1> QED BY <1>1 DEF Right

LEMMA RightNone ==
    ASSUME NEW R, NEW s, \A p \in Requests : R[p].session # s,
           NEW r, NEW v, NEW x, NEW B, NEW gone, Okay(r, v, x, NoRequest, Of(B, s), gone)
    PROVE  Right(r, v, x, R, B, gone, s)
  <1>1. Holds(R, s, NoRequest)
    BY DEF Holds
  <1> QED BY <1>1 DEF Right

LEMMA OneRight ==
    ASSUME NEW R, NEW q \in Requests, NEW s \in Sessions, R[q].session = s,
           NEW r, NEW v, NEW x, NEW B, NEW gone, Right(r, v, x, R, B, gone, s)
    PROVE  Okay(r, v, x, R[q], Of(B, s), gone)
           /\ \A p \in Requests \ {q} : R[p].session # s
  <1>1. PICK y \in {NoRequest} \cup {R[p] : p \in Requests} :
           Holds(R, s, y) /\ Okay(r, v, x, y, Of(B, s), gone)
    BY DEF Right
  <1>2. y = R[q] /\ \A p \in Requests \ {q} : R[p].session # s
    BY <1>1 DEF Holds
  <1> QED BY <1>1, <1>2

LEMMA NoneRight ==
    ASSUME NEW R, NEW s \in Sessions, \A p \in Requests : R[p].session # s,
           NEW r, NEW v, NEW x, NEW B, NEW gone, Right(r, v, x, R, B, gone, s)
    PROVE  Okay(r, v, x, NoRequest, Of(B, s), gone)
  <1>1. PICK y \in {NoRequest} \cup {R[p] : p \in Requests} :
           Holds(R, s, y) /\ Okay(r, v, x, y, Of(B, s), gone)
    BY DEF Right
  <1>2. y = NoRequest
    BY <1>1 DEF Holds
  <1> QED BY <1>1, <1>2

(* The session's state, requests and purchases are as they were. *)
Untouched(s) ==
    /\ ses'[s] = ses[s] /\ Of(bought', s) = Of(bought, s)
    /\ \A q \in Requests : req[q].session = s \/ req'[q].session = s => req'[q] = req[q]
RightNext(s) == Right(redis', current', ses'[s], req', bought', s \in lost', s)

LEMMA Elsewhere ==
    ASSUME NEW s \in Sessions, Untouched(s), s \in lost => s \in lost',
           Right(redis, current, ses[s], req, bought, s \in lost, s),
           \/ redis' = redis /\ current' = current
           \/ redis' = redis /\ kind \notin ReadAgain
           \/ ~Started(ses[s])
    PROVE  RightNext(s)
  <1> DEFINE x == ses[s]
             B == Of(bought, s)
  <1>1. PICK y \in {NoRequest} \cup {req[q] : q \in Requests} :
           Holds(req, s, y) /\ Okay(redis, current, x, y, B, s \in lost)
    BY DEF Right
  <1>2. Okay(redis', current', x, y, B, s \in lost)
    BY <1>1, OtherListOkay, UnstartedOkay
  <1>3. Okay(redis', current', ses'[s], y, Of(bought', s), s \in lost')
    BY <1>2 DEF Okay, Untouched
  <1>4. Holds(req', s, y) /\ y \in {NoRequest} \cup {req'[q] : q \in Requests}
    BY <1>1 DEF Holds, Untouched
  <1> QED BY <1>3, <1>4 DEF RightNext, Right

LEMMA WishStep ==
    ASSUME kind' = kind, \A s \in Sessions : Clean(s)' => RightNext(s)
    PROVE  WishInv'
  <1> SUFFICES ASSUME NEW s \in Sessions, Clean(s)'
               PROVE  Right(redis, current, ses[s], req, bought, s \in lost, s)'
    BY DEF WishInv
  <1>1. PICK y \in {NoRequest} \cup {req'[q] : q \in Requests} :
           /\ Holds(req', s, y)
           /\ Okay(redis', current', ses'[s], y, Of(bought', s), s \in lost')
    BY DEF RightNext, Right
  <1>2. Okay(redis, current, ses[s], y, Of(bought, s), s \in lost)'
    BY <1>1, SameOkay DEF Of
  <1> QED BY <1>1, <1>2 DEF Right, Holds, Of

(* What was disturbed, or had two requests, stays so. *)
LEMMA StillClean ==
    ASSUME disturbed \subseteq disturbed', overlapped \subseteq overlapped', WishInv,
           NEW s \in Sessions, Clean(s)'
    PROVE  Clean(s) /\ Right(redis, current, ses[s], req, bought, s \in lost, s)
  <1>1. Clean(s)
    BY DEF Clean
  <1> QED BY <1>1 DEF WishInv

LEMMA OnlyUntouched ==
    ASSUME NEW q \in Requests, \A p \in Requests \ {q} : req'[p] = req[p],
           NEW s, req[q].session # s, req'[q].session # s, ses'[s] = ses[s],
           Of(bought', s) = Of(bought, s)
    PROVE  Untouched(s)
  BY DEF Untouched


-----------------------------------------------------------------------------
(* The user's steps keep the wish. *)

LEMMA NoneInFlight ==
    ASSUME NEW s \in Sessions, overlapped' = IF InFlight(s) THEN overlapped \cup {s}
                                                            ELSE overlapped
    PROVE  /\ overlapped \subseteq overlapped'
           /\ Clean(s)' => \A p \in Requests : req[p].session # s
  BY DEF InFlight, Clean

(* A request comes in to a session that has none. *)
LEMMA ComesIn ==
    ASSUME NEW q \in Requests, NEW s \in Sessions, \A p \in Requests : req[p].session # s,
           \A p \in Requests \ {q} : req'[p] = req[p], req'[q].session = s, bought' = bought,
           Okay(redis', current', ses'[s], req'[q], Of(bought, s), s \in lost')
    PROVE  RightNext(s)
  <1>1. \A p \in Requests \ {q} : req'[p].session # s
    OBVIOUS
  <1> QED BY <1>1, RightOne DEF RightNext

(* The other sessions. *)
LEMMA ComesInElsewhere ==
    ASSUME TypeInv, WishInv, NEW q \in Requests, NEW s \in Sessions, req[q] = NoRequest,
           \A p \in Requests \ {q} : req'[p] = req[p], req'[q].session = s,
           UNCHANGED <<redis, current, bought, lost>>, overlapped \subseteq overlapped',
           disturbed \subseteq disturbed' \cup {s},
           NEW z \in Sessions \ {s}, ses'[z] = ses[z], Clean(z)'
    PROVE  RightNext(z)
  <1>1. Clean(z)
    BY DEF Clean
  <1>2. req[q].session # z /\ req'[q].session # z
    BY IdleIs
  <1>3. Untouched(z)
    BY <1>2, OnlyUntouched DEF Of
  <1> QED BY <1>1, <1>3, Elsewhere DEF WishInv

LEMMA BeginWish ==
    ASSUME TypeInv, WishInv, NEW q \in Requests, NEW s \in Sessions, Begin(q, s)
    PROVE  WishInv'
  <1>1. /\ ses[s].screen = Ask("nothing") /\ ~ses[s].waiting /\ ses[s].text = <<>>
        /\ req[q] = NoRequest /\ Only(q, Incoming(s, <<>>))
        /\ OnlySession(s, Opening(ses[s]))
        /\ Incoming(s, <<>>).pc = "start"
        /\ Incoming(s, <<>>).session = s /\ Incoming(s, <<>>).text = <<>>
        /\ overlapped' = IF InFlight(s) THEN overlapped \cup {s} ELSE overlapped
    BY BeginIs
  <1>2. /\ UNCHANGED <<kind, redis, current, bought, mirrored, lost, slips>>
        /\ disturbed' = IF \E b \in bought : b.by = s THEN disturbed ELSE disturbed \ {s}
    BY DEF Begin
  <1>3. ASSUME NEW z \in Sessions, Clean(z)'
        PROVE  RightNext(z)
    <2>1. CASE z = s
      <3>1. \A p \in Requests : req[p].session # s
        BY <1>1, <1>3, <2>1, NoneInFlight
      <3>2. Of(bought, s) = {}
        <4>1. SUFFICES ASSUME Of(bought, s) # {} PROVE FALSE
          OBVIOUS
        <4>2. disturbed' = disturbed
          BY <1>2, <4>1 DEF Of
        <4>3. Right(redis, current, ses[s], req, bought, s \in lost, s)
          BY <1>1, <1>3, <2>1, <4>2, NoneInFlight, StillClean
        <4>4. Okay(redis, current, ses[s], NoRequest, Of(bought, s), s \in lost)
          BY <3>1, <4>3, NoneRight
        <4>5. ~Started(ses[s])
          BY <1>1, ScreensAre DEF Started, Asks
        <4> QED BY <4>1, <4>4, <4>5, UnstartedOkay
      <3>3. ses[s] \in Session
        BY TypedIs
      <3>4. /\ Opening(ses[s]).waiting = TRUE /\ Opening(ses[s]).wish = NoDeal
            /\ Opening(ses[s]).text = <<>>
        BY <1>1, <3>3, OpeningIs
      <3>5. ses'[s] = Opening(ses[s]) /\ req'[q] = Incoming(s, <<>>)
            /\ \A p \in Requests \ {q} : req'[p] = req[p]
        BY <1>1 DEF Only, OnlySession
      <3>6. Okay(redis', current', ses'[s], req'[q], {}, s \in lost')
        BY <1>1, <3>4, <3>5, OpeningOkay
      <3> QED BY <1>1, <1>2, <2>1, <3>1, <3>2, <3>5, <3>6, ComesIn
    <2>2. CASE z # s
      <3>1. ses'[z] = ses[z] /\ req'[q].session = s
            /\ \A p \in Requests \ {q} : req'[p] = req[p]
        BY <1>1, <2>2 DEF Only, OnlySession
      <3>2. overlapped \subseteq overlapped' /\ disturbed \subseteq disturbed' \cup {s}
        BY <1>1, <1>2
      <3> QED BY <1>1, <1>2, <1>3, <2>2, <3>1, <3>2, ComesInElsewhere
    <2> QED BY <2>1, <2>2
  <1> QED BY <1>2, <1>3, WishStep

LEMMA TypeWish ==
    ASSUME TypeInv, WishInv, NEW q \in Requests, NEW s \in Sessions, NEW seg, Type(q, s, seg),
           seg \in Sensible(ses[s].screen) \/ (seg = Back /\ ses[s].text # <<>>)
    PROVE  WishInv'
  <1> DEFINE x == ses[s]
             text == Press(x.text, seg)
             y == Incoming(s, text)
             z == Typing(x, seg)
  <1>6. /\ Typed(x.screen) /\ x.screen # End /\ ~x.waiting
        /\ x.screen.ask \notin {"nothing", "end"}
    BY TypeIs
  <1>10. /\ seg = Back <=> ~(seg \in Sensible(x.screen))
         /\ seg # Back => text = Append(x.text, seg)
         /\ seg = Back => text = Front(x.text)
    <2>3. seg = Back <=> ~(seg \in Sensible(x.screen))
      BY TypeIs
    <2>1. seg = Back => text = Front(x.text)
      BY <2>3 DEF Press
    <2>2. seg # Back => text = Append(x.text, seg)
      BY TypeIs
    <2> QED BY <2>1, <2>2, <2>3
  <1>7. req[q] = NoRequest /\ Only(q, y)
    BY TypeIs
  <1>11. y.pc = "start" /\ y.session = s /\ y.text = text
    BY DEF Incoming, NoRequest
  <1>8. /\ OnlySession(s, z)
        /\ overlapped' = IF InFlight(s) THEN overlapped \cup {s} ELSE overlapped
    BY TypeIs
  <1>12. z.text = text /\ z.waiting = TRUE /\ z.wish = Wished(x.wish, x.screen, seg)
    <2>1. x \in Session
      BY TypedIs
    <2> QED BY <2>1 DEF Typing, Session
  <1>1. /\ Typed(x.screen) /\ x.screen # End /\ ~x.waiting
        /\ x.screen.ask \notin {"nothing", "end"}
        /\ seg = Back <=> ~(seg \in Sensible(x.screen))
        /\ seg # Back => text = Append(x.text, seg)
        /\ seg = Back => text = Front(x.text)
        /\ req[q] = NoRequest /\ Only(q, y)
        /\ y.pc = "start" /\ y.session = s /\ y.text = text
        /\ OnlySession(s, z) /\ z.text = text /\ z.waiting = TRUE
        /\ z.wish = Wished(x.wish, x.screen, seg)
        /\ overlapped' = IF InFlight(s) THEN overlapped \cup {s} ELSE overlapped
    BY <1>6, <1>7, <1>8, <1>10, <1>11, <1>12
  <1>2. UNCHANGED <<kind, redis, current, bought, mirrored, disturbed, lost, trouble>>
    BY DEF Type
  <1>3. ses'[s] = z /\ req'[q] = y /\ \A p \in Requests \ {q} : req'[p] = req[p]
    BY <1>1 DEF Only, OnlySession
  <1>9. \A p \in Sessions \ {s} : ses'[p] = ses[p]
    BY <1>1 DEF OnlySession
  <1>4. x.text \in Texts /\ x.wish \in Deal /\ Plain(x.wish) /\ redis \in Redis
        /\ current \in Lists
    BY TypedIs DEF SessionOK
  <1> HIDE DEF y, z, text
  <1>5. ASSUME NEW o \in Sessions, Clean(o)'
        PROVE  RightNext(o)
    <2>1. CASE o = s
      <3>1. \A p \in Requests : req[p].session # s
        BY <1>1, <1>5, <2>1, NoneInFlight
      <3>2. Right(redis, current, x, req, bought, s \in lost, s)
        BY <1>1, <1>2, <1>5, <2>1, NoneInFlight, StillClean
      <3>3. Okay(redis, current, x, NoRequest, Of(bought, s), s \in lost)
        BY <3>1, <3>2, NoneRight
      <3>4. Okay(redis, current, z, y, Of(bought, s), s \in lost)
        BY <1>1, <1>4, <3>3, TypingOkay
      <3>5. Okay(redis', current', ses'[s], req'[q], Of(bought, s), s \in lost')
        BY <1>2, <1>3, <3>4
      <3> QED BY <1>1, <1>2, <1>3, <2>1, <3>1, <3>5, ComesIn
    <2>2. CASE o # s
      <3>3. req'[q].session = s
        BY <1>1, <1>3
      <3>4. ses'[o] = ses[o]
        BY <1>9, <2>2
      <3>1. ses'[o] = ses[o] /\ req'[q].session = s
        BY <3>3, <3>4
      <3>2. overlapped \subseteq overlapped' /\ disturbed \subseteq disturbed' \cup {s}
        BY <1>1, <1>2
      <3> QED BY <1>1, <1>2, <1>3, <1>5, <2>2, <3>1, <3>2, ComesInElsewhere
    <2> QED BY <2>1, <2>2
  <1> QED BY <1>2, <1>5, WishStep

LEMMA RepeatWish ==
    ASSUME TypeInv, WishInv, NEW q \in Requests, NEW s \in Sessions, Repeat(q, s)
    PROVE  WishInv'
  <1> DEFINE x == ses[s]
  <1>1. x.text \in Texts
    BY TypedIs DEF SessionOK
  <1>2. /\ req[q] = NoRequest /\ req'[q].pc = "start" /\ req'[q].text = x.text
        /\ req'[q].session = s
        /\ \A p \in Requests \ {q} : req'[p] = req[p]
        /\ overlapped' = IF InFlight(s) THEN overlapped \cup {s} ELSE overlapped
    BY <1>1, ArrivesIs DEF Repeat
  <1>3. UNCHANGED <<kind, redis, current, ses, bought, mirrored, disturbed, lost, slips>>
    BY DEF Repeat
  <1>4. ASSUME NEW o \in Sessions, Clean(o)'
        PROVE  RightNext(o)
    <2>1. CASE o = s
      <3>1. \A p \in Requests : req[p].session # s
        BY <1>2, <1>4, <2>1, NoneInFlight
      <3>2. Right(redis, current, x, req, bought, s \in lost, s)
        BY <1>2, <1>3, <1>4, <2>1, NoneInFlight, StillClean
      <3>3. Okay(redis, current, x, NoRequest, Of(bought, s), s \in lost)
        BY <3>1, <3>2, NoneRight
      <3>4. Okay(redis', current', ses'[s], req'[q], Of(bought, s), s \in lost')
        BY <1>2, <1>3, <3>3, RepeatOkay
      <3> QED BY <1>2, <1>3, <2>1, <3>1, <3>4, ComesIn
    <2>2. CASE o # s
      <3>1. ses'[o] = ses[o]
        BY <1>3
      <3>2. overlapped \subseteq overlapped' /\ disturbed \subseteq disturbed' \cup {s}
        BY <1>2, <1>3
      <3> QED BY <1>2, <1>3, <1>4, <2>2, <3>1, <3>2, ComesInElsewhere
    <2> QED BY <2>1, <2>2
  <1> QED BY <1>3, <1>4, WishStep

LEMMA LeavesWish ==
    ASSUME TypeInv, WishInv, NEW s \in Sessions, Leaves(s)
    PROVE  WishInv'
  <1> DEFINE x == ses[s]
             y == Leaving(x)
  <1>1. /\ ~x.waiting /\ x.screen.ask \notin {"nothing", "end"}
        /\ UNCHANGED <<kind, redis, current, req, bought, mirrored, disturbed,
                       overlapped, lost, trouble>>
    BY DEF Leaves
  <1>2. ses'[s] = y /\ \A z \in Sessions \ {s} : ses'[z] = ses[z]
    BY LeavesTyped DEF OnlySession
  <1>3. x \in Session /\ x.waiting = FALSE
    BY <1>1, TypedIs DEF SessionOK
  <1>4. y.text = x.text /\ y.waiting = FALSE /\ y.screen = Ask("nothing") /\ y.wish = x.wish
    BY <1>3, LeavingIs
  <1> HIDE DEF y
  <1>5. ASSUME NEW z \in Sessions, Clean(z)'
        PROVE  RightNext(z)
    <2>1. Right(redis, current, ses[z], req, bought, z \in lost, z)
      BY <1>1, <1>5, StillClean
    <2>2. CASE z = s
      <3>1. PICK w \in {NoRequest} \cup {req[q] : q \in Requests} :
               Holds(req, s, w) /\ Okay(redis, current, x, w, Of(bought, s), s \in lost)
        BY <2>1, <2>2 DEF Right
      <3>2. Okay(redis, current, y, w, Of(bought, s), s \in lost)
        BY <1>1, <1>4, <3>1, LeavingOkay
      <3> QED BY <1>1, <1>2, <2>2, <3>1, <3>2 DEF RightNext, Right
    <2>3. CASE z # s
      <3>1. Untouched(z)
        BY <1>1, <1>2, <2>3 DEF Untouched, Of
      <3> QED BY <1>1, <2>1, <3>1, Elsewhere
    <2> QED BY <2>2, <2>3
  <1> QED BY <1>1, <1>5, WishStep

LEMMA UserWish ==
    ASSUME TypeInv, WishInv, NEW q \in Requests, NEW s \in Sessions
    PROVE  Begin(q, s) \/ Answers(q, s) \/ GoesBack(q, s) \/ Repeat(q, s) => WishInv'
  <1>1. ASSUME Answers(q, s) PROVE WishInv'
    <2>1. PICK seg \in Sensible(ses[s].screen) : Type(q, s, seg)
      BY <1>1 DEF Answers
    <2> QED BY <2>1, TypeWish
  <1>2. ASSUME GoesBack(q, s) PROVE WishInv'
    BY <1>2, TypeWish DEF GoesBack
  <1> QED BY <1>1, <1>2, BeginWish, RepeatWish


-----------------------------------------------------------------------------
(* The steps of a request keep the wish. *)

(* What a step of the request q has to show. *)
LEMMA RequestWish ==
    ASSUME TypeInv, WishInv, NEW q \in Requests, NEW s \in Sessions, s = req[q].session,
           UNCHANGED <<kind, overlapped, lost>>, disturbed \subseteq disturbed',
           \A p \in Requests \ {q} : req'[p] = req[p], req'[q].session \in {s, "nobody"},
           \A z \in Sessions \ {s} : ses'[z] = ses[z] /\ Of(bought', z) = Of(bought, z),
           \/ redis' = redis /\ current' = current
           \/ \A z \in Sessions \ {s} : Clean(z)' => ~Started(ses[z]),
           Clean(s)' /\ Right(redis, current, ses[s], req, bought, s \in lost, s)
              => RightNext(s)
    PROVE  WishInv'
  <1>1. ASSUME NEW z \in Sessions, Clean(z)'
        PROVE  RightNext(z)
    <2>1. Right(redis, current, ses[z], req, bought, z \in lost, z)
      BY <1>1, StillClean
    <2>2. CASE z = s
      BY <1>1, <2>1, <2>2
    <2>3. CASE z # s
      <3>1. req[q].session # z /\ req'[q].session # z
        BY <2>3, IdleIs
      <3>2. Untouched(z)
        BY <2>3, <3>1, OnlyUntouched
      <3> QED BY <1>1, <2>1, <2>3, <3>2, Elsewhere
    <2> QED BY <2>2, <2>3
  <1> QED BY <1>1, WishStep

(* The session of a request that is at work, when it is alone. *)
LEMMA OwnerIs ==
    ASSUME TypeInv, NEW q \in Requests, req[q].pc # "idle", NEW s, s = req[q].session
    PROVE  /\ s \in Sessions /\ ses[s] \in Session /\ SessionOK(ses[s])
           /\ ses[s].waiting \in BOOLEAN /\ req[q] \in Request /\ RequestOK(req[q])
           /\ Right(redis, current, ses[s], req, bought, s \in lost, s) =>
                 /\ Okay(redis, current, ses[s], req[q], Of(bought, s), s \in lost)
                 /\ \A p \in Requests \ {q} : req[p].session # s
                 /\ Awaited(q) <=> ses[s].waiting
                 /\ req[q].text = ses[s].text
  <1>1. req[q] \in Request /\ RequestOK(req[q])
    BY TypedIs
  <1>2. s \in Sessions
    BY <1>1 DEF RequestOK
  <1>3. ses[s] \in Session /\ SessionOK(ses[s])
    BY <1>2, TypedIs
  <1>4. ses[s].waiting \in BOOLEAN
    BY <1>3 DEF SessionOK
  <1>5. ASSUME Right(redis, current, ses[s], req, bought, s \in lost, s)
        PROVE  /\ Okay(redis, current, ses[s], req[q], Of(bought, s), s \in lost)
               /\ \A p \in Requests \ {q} : req[p].session # s
               /\ Awaited(q) <=> ses[s].waiting
               /\ req[q].text = ses[s].text
    <2>1. /\ Okay(redis, current, ses[s], req[q], Of(bought, s), s \in lost)
          /\ \A p \in Requests \ {q} : req[p].session # s
      BY <1>2, <1>5, OneRight
    <2>2. req[q].text = ses[s].text
      BY <2>1 DEF Okay, Works
    <2> QED BY <1>4, <2>1, <2>2 DEF Awaited
  <1> QED BY <1>1, <1>2, <1>3, <1>4, <1>5

(* The request ends. *)
LEMMA EndsRight ==
    ASSUME TypeInv, NEW q \in Requests, req[q].pc # "idle", NEW s, s = req[q].session,
           NEW screen \in Screen, Ends(q, screen),
           Right(redis, current, ses[s], req, bought, s \in lost, s),
           ses[s].waiting => Okay(redis', current', Shown(ses[s], screen), NoRequest,
                                  Of(bought', s), s \in lost'),
           ~ses[s].waiting => Okay(redis', current', ses[s], NoRequest,
                                   Of(bought', s), s \in lost')
    PROVE  RightNext(s)
  <1>1. /\ s \in Sessions
        /\ \A p \in Requests \ {q} : req[p].session # s
        /\ Awaited(q) <=> ses[s].waiting
    BY OwnerIs
  <1>2. /\ req'[q] = NoRequest /\ \A p \in Requests \ {q} : req'[p] = req[p]
        /\ Awaited(q) => ses'[s] = Shown(ses[s], screen)
        /\ ~Awaited(q) => ses'[s] = ses[s]
    BY <1>1, EndsIs
  <1>3. \A p \in Requests : req'[p].session # s
    BY <1>1, <1>2, IdleIs
  <1>4. Okay(redis', current', ses'[s], NoRequest, Of(bought', s), s \in lost')
    BY <1>1, <1>2
  <1> QED BY <1>3, <1>4, RightNone DEF RightNext

(* It goes on. *)
LEMMA GoesOnRight ==
    ASSUME TypeInv, NEW q \in Requests, req[q].pc # "idle", NEW s, s = req[q].session,
           NEW z, Only(q, z), z.session = s, ses' = ses,
           Right(redis, current, ses[s], req, bought, s \in lost, s),
           Okay(redis', current', ses[s], z, Of(bought', s), s \in lost')
    PROVE  RightNext(s)
  <1>1. \A p \in Requests \ {q} : req[p].session # s
    BY OwnerIs
  <1>2. /\ req'[q] = z /\ \A p \in Requests \ {q} : req'[p] = req[p]
    BY DEF Only
  <1>3. \A p \in Requests \ {q} : req'[p].session # s
    BY <1>1, <1>2
  <1>4. req'[q].session = s
    BY <1>2
  <1>5. Okay(redis', current', ses'[s], req'[q], Of(bought', s), s \in lost')
    BY <1>2
  <1> QED BY <1>3, <1>4, <1>5, RightOne DEF RightNext

(* What a request that ends leaves alone. *)
LEMMA EndsElsewhere ==
    ASSUME TypeInv, NEW q \in Requests, req[q].pc # "idle", NEW s, s = req[q].session,
           NEW screen \in Screen, Ends(q, screen)
    PROVE  /\ \A p \in Requests \ {q} : req'[p] = req[p]
           /\ req'[q].session \in {s, "nobody"}
           /\ \A z \in Sessions \ {s} : ses'[z] = ses[z]
  <1>1. req'[q] = NoRequest /\ \A p \in Requests \ {q} : req'[p] = req[p]
    BY EndsIs
  <1>2. \A z \in Sessions : ~Awaited(q) \/ z # req[q].session => ses'[z] = ses[z]
    BY EndsIs
  <1> QED BY <1>1, <1>2, IdleIs

LEMMA RefusedWish ==
    ASSUME TypeInv, WishInv, NEW q \in Requests, Refuse(q)
    PROVE  WishInv'
  <1>7. req[q].pc \in {"start", "load active"} /\ req[q].pc # "idle" /\ req[q].pc # "work"
    BY DEF Refuse
  <1>3. PICK s \in Sessions : s = req[q].session /\ ses[s] \in Session
    BY <1>7, OwnerIs
  <1>1. /\ req[q].pc \in {"start", "load active"} /\ Ends(q, End)
        /\ UNCHANGED <<kind, redis, current, bought, mirrored, disturbed,
                       overlapped, lost, slips>>
    BY DEF Refuse
  <1>2. End \in Screen /\ req[q].pc # "idle" /\ req[q].pc # "work"
    BY <1>1, ScreensAre
  <1>4. /\ \A p \in Requests \ {q} : req'[p] = req[p]
        /\ req'[q].session \in {s, "nobody"}
        /\ \A z \in Sessions \ {s} : ses'[z] = ses[z]
    BY <1>1, <1>2, <1>3, EndsElsewhere
  <1>5. ASSUME Right(redis, current, ses[s], req, bought, s \in lost, s)
        PROVE  RightNext(s)
    <2>1. Okay(redis, current, ses[s], req[q], Of(bought, s), s \in lost)
      BY <1>2, <1>3, <1>5, OwnerIs
    <2>2. /\ ses[s].waiting => Okay(redis, current, Shown(ses[s], End), NoRequest,
                                    Of(bought, s), s \in lost)
          /\ ~ses[s].waiting => Okay(redis, current, ses[s], NoRequest,
                                     Of(bought, s), s \in lost)
      BY <1>2, <1>3, <2>1, RefusedOkay
    <2>3. redis' = redis /\ current' = current /\ bought' = bought /\ lost' = lost
      BY <1>1
    <2> QED BY <1>1, <1>2, <1>3, <1>5, <2>2, <2>3, EndsRight
  <1>6. \A z \in Sessions \ {s} : Of(bought', z) = Of(bought, z)
    BY <1>1
  <1> QED BY <1>1, <1>3, <1>4, <1>5, <1>6, RequestWish

LEMMA GateWish ==
    ASSUME TypeInv, WishInv, NEW q \in Requests, Gate(q)
    PROVE  WishInv'
  <1>7. req[q].pc = "start" /\ req[q].pc # "idle"
    BY DEF Gate
  <1>3. PICK s \in Sessions : s = req[q].session
    BY <1>7, OwnerIs
  <1>1. /\ req[q].pc = "start" /\ Ends(q, Ask("gate"))
        /\ disturbed' = disturbed \cup {s}
        /\ UNCHANGED <<kind, redis, current, bought, mirrored, overlapped, lost, slips>>
    BY <1>3 DEF Gate
  <1>2. Ask("gate") \in Screen /\ req[q].pc # "idle"
    BY <1>1, ScreensAre DEF Asks
  <1>4. /\ \A p \in Requests \ {q} : req'[p] = req[p]
        /\ req'[q].session \in {s, "nobody"}
        /\ \A z \in Sessions \ {s} : ses'[z] = ses[z]
    BY <1>1, <1>2, <1>3, EndsElsewhere
  <1>5. ~Clean(s)'
    BY <1>1 DEF Clean
  <1>6. \A z \in Sessions \ {s} : Of(bought', z) = Of(bought, z)
    BY <1>1
  <1> QED BY <1>1, <1>3, <1>4, <1>5, <1>6, RequestWish


(* The answer that Respond gives, to a session that is as it should be. *)
LEMMA OutcomeIs ==
    ASSUME TypeInv, NEW q \in Requests, NEW s \in Sessions, s = req[q].session,
           req[q].pc = "load active" \/ (req[q].pc = "start" /\ ~NeedsActive(q)),
           Right(redis, current, ses[s], req, bought, s \in lost, s)
    PROVE  /\ Replies(Outcome(q), redis, current, ses[s].text)
           /\ kind \in {"elect", "cable", "bank"} /\ redis[CatKey] = Absent
                 /\ Outcome(q) # Panic => Writing(Outcome(q).todo)
  <1> DEFINE x == ses[s]
             o == Outcome(q)
  <1>1. req[q].pc # "idle"
    OBVIOUS
  <1>2. /\ x \in Session /\ SessionOK(x) /\ RequestOK(req[q])
        /\ Okay(redis, current, x, req[q], Of(bought, s), s \in lost)
        /\ req[q].text = x.text
    BY <1>1, OwnerIs
  <1>3. redis \in Redis /\ current \in Lists /\ kind \in Kinds /\ req[q].text \in Texts
    BY <1>1, <1>2, TypedIs DEF RequestOK
  <1>4. Replies(o, redis, current, x.text)
    <2>1. CASE req[q].pc = "start"
      <3>1. ~NeedsActive(q)
        BY <2>1
      <3> QED BY <1>2, <1>3, <2>1, <3>1, OutcomeReplies
    <2>2. CASE req[q].pc = "load active"
      <3>1. kind = "elect" /\ req[q].text # <<>>
        BY <1>2, <2>2 DEF RequestOK
      <3>2. Started(x)
        BY <1>2, <1>3, <3>1, NotStarted
      <3>3. redis[PickKey] = Absent
        BY <1>2, <2>2, <3>2 DEF Okay, Works
      <3>4. NoPickThere = redis /\ Replies(o, NoPickThere, current, req[q].text)
        BY <1>3, <2>2, <3>1, <3>3, OutcomeReplies
      <3> QED BY <1>2, <3>4
    <2> QED BY <2>1, <2>2
  <1>5. ASSUME kind \in {"elect", "cable", "bank"}, redis[CatKey] = Absent, o # Panic
        PROVE  Writing(o.todo)
    <2>1. First(o)
      BY <1>5, NothingToSell
    <2>2. Proper(o, req[q].text)
      BY <1>5, OutcomeProper
    <2> QED BY <1>5, <2>1, <2>2, FirstStores
  <1> QED BY <1>4, <1>5

LEMMA HandledWish ==
    ASSUME TypeInv, WishInv, NEW q \in Requests, Start(q) \/ LoadActive(q)
    PROVE  WishInv'
  <1> DEFINE o == Outcome(q)
             y == req[q]
             z == Working(y, o.todo, o.say)
  <1>1. /\ y.pc = "load active" \/ (y.pc = "start" /\ ~NeedsActive(q))
        /\ Handles(q, o)
        /\ UNCHANGED <<kind, redis, current, bought, mirrored, disturbed,
                       overlapped, lost, slips, trouble>>
    BY DEF Start, LoadActive
  <1>2. y.pc # "idle" /\ y.pc \in {"start", "load active"}
    BY <1>1
  <1>3. PICK s \in Sessions : s = y.session
    BY <1>2, OwnerIs
  <1>4. o # Panic
    BY <1>1 DEF Handles
  <1>5. Proper(o, y.text)
    BY <1>1, <1>4, OutcomeProper
  <1>6. o.todo \in Seq(Ops) /\ o.say \in Screen
    BY <1>5 DEF Proper, TodoOK, GoodScreen
  <1>7. \/ o.todo = <<>> /\ Ends(q, o.say)
        \/ o.todo # <<>> /\ ses' = ses /\ Only(q, z)
    BY <1>1, <1>6, HandlesIs
  <1>8. /\ y \in Request /\ RequestOK(y) /\ ses[s] \in Session /\ SessionOK(ses[s])
    BY <1>2, <1>3, OwnerIs
  <1>9. z.pc = "work" /\ z.text = y.text /\ z.todo = o.todo /\ z.say = o.say /\ z.session = s
    BY <1>3, <1>6, <1>8, WorkingIs
  <1> HIDE DEF o, z
  <1>10. ASSUME Right(redis, current, ses[s], req, bought, s \in lost, s)
         PROVE  RightNext(s)
    <2>1. /\ Replies(o, redis, current, ses[s].text)
          /\ kind \in {"elect", "cable", "bank"} /\ redis[CatKey] = Absent => Writing(o.todo)
      BY <1>1, <1>3, <1>4, <1>10, OutcomeIs DEF o
    <2>2. Okay(redis, current, ses[s], y, Of(bought, s), s \in lost)
      BY <1>2, <1>3, <1>10, OwnerIs
    <2>3. kind \in Kinds /\ redis \in Redis
      BY TypedIs
    <2>4. /\ o.todo = <<>> /\ ses[s].waiting =>
                Okay(redis, current, Shown(ses[s], o.say), NoRequest, Of(bought, s), s \in lost)
          /\ o.todo = <<>> /\ ~ses[s].waiting =>
                Okay(redis, current, ses[s], NoRequest, Of(bought, s), s \in lost)
          /\ o.todo # <<>> => Okay(redis, current, ses[s], z, Of(bought, s), s \in lost)
      <3>1. ASSUME NEW x \in Session, NEW B, NEW gone, x = ses[s], B = Of(bought, s),
                   gone = (s \in lost)
            PROVE  /\ o.todo = <<>> /\ x.waiting =>
                         Okay(redis, current, Shown(x, o.say), NoRequest, B, gone)
                   /\ o.todo = <<>> /\ ~x.waiting => Okay(redis, current, x, NoRequest, B, gone)
                   /\ o.todo # <<>> => Okay(redis, current, x, z, B, gone)
        <4>1. SessionOK(x) /\ Replies(o, redis, current, x.text)
              /\ Okay(redis, current, x, y, B, gone)
          BY <1>8, <2>1, <2>2, <3>1
        <4>2. /\ kind \in {"elect", "cable", "bank"} /\ redis[CatKey] = Absent
                    => Writing(o.todo)
              /\ z.pc = "work" /\ z.text = y.text /\ z.todo = o.todo /\ z.say = o.say
              /\ y.pc \in {"start", "load active"} /\ y \in Request /\ RequestOK(y)
              /\ kind \in Kinds /\ redis \in Redis
          BY <1>2, <1>8, <1>9, <2>1, <2>3
        <4>3. o.todo # <<>> => Okay(redis, current, x, z, B, gone)
          BY <1>4, <4>1, <4>2, HandledOkay
        <4>6. y.pc # "work"
          BY <1>2
        <4>4. o.todo = <<>> /\ ~x.waiting => Okay(redis, current, x, NoRequest, B, gone)
          BY <4>1, <4>6, RefusedOkay
        <4>5. o.todo = <<>> /\ x.waiting =>
                 Okay(redis, current, Shown(x, o.say), NoRequest, B, gone)
          BY <1>4, <4>1, <4>2, HandledOkay
        <4> QED BY <4>3, <4>4, <4>5
      <3> QED BY <1>8, <3>1
    <2>5. redis' = redis /\ current' = current /\ bought' = bought /\ lost' = lost
      BY <1>1
    <2>6. CASE o.todo = <<>>
      <3>1. Ends(q, o.say)
        BY <1>7, <2>6
      <3> QED BY <1>2, <1>3, <1>6, <1>10, <2>4, <2>5, <2>6, <3>1, EndsRight
    <2>7. CASE o.todo # <<>>
      <3>1. ses' = ses /\ Only(q, z)
        BY <1>7, <2>7
      <3>2. Okay(redis', current', ses[s], z, Of(bought', s), s \in lost')
        BY <2>4, <2>5, <2>7
      <3> QED BY <1>2, <1>3, <1>9, <1>10, <3>1, <3>2, GoesOnRight
    <2> QED BY <2>6, <2>7
  <1>11. /\ \A p \in Requests \ {q} : req'[p] = req[p]
         /\ req'[q].session \in {s, "nobody"}
         /\ \A p \in Sessions \ {s} : ses'[p] = ses[p]
    <2>1. CASE Ends(q, o.say)
      BY <1>2, <1>3, <1>6, <2>1, EndsElsewhere
    <2>2. CASE ses' = ses /\ Only(q, z)
      BY <1>9, <2>2 DEF Only
    <2> QED BY <1>7, <2>1, <2>2
  <1>12. \A p \in Sessions \ {s} : Of(bought', p) = Of(bought, p)
    BY <1>1
  <1>13. redis' = redis /\ current' = current /\ disturbed \subseteq disturbed'
         /\ UNCHANGED <<kind, overlapped, lost>>
    BY <1>1
  <1> QED BY <1>3, <1>10, <1>11, <1>12, <1>13, RequestWish

LEMMA NoPickWish ==
    ASSUME TypeInv, WishInv, NEW q \in Requests, NoPick(q)
    PROVE  WishInv'
  <1> DEFINE y == req[q]
             z == [y EXCEPT !.pc = "load active"]
  <1>1. /\ y.pc = "start" /\ NeedsActive(q)
        /\ req' = [req EXCEPT ![q].pc = "load active"]
        /\ UNCHANGED <<kind, redis, current, ses, bought, mirrored, disturbed,
                       overlapped, lost, slips, trouble>>
    BY DEF NoPick
  <1>2. y.pc # "idle"
    BY <1>1
  <1>3. PICK s \in Sessions : s = y.session
    BY <1>2, OwnerIs
  <1>4. req \in [Requests -> Request] /\ y \in Request
    BY TypedIs
  <1>5. z \in Request /\ z.pc = "load active" /\ z.text = y.text /\ z.session = y.session
    BY <1>4 DEF Request
  <1>6. Only(q, z)
    BY <1>1, <1>4, <1>5 DEF Only
  <1> HIDE DEF z
  <1>7. ASSUME Right(redis, current, ses[s], req, bought, s \in lost, s)
        PROVE  RightNext(s)
    <2>1. Okay(redis, current, ses[s], y, Of(bought, s), s \in lost)
      BY <1>2, <1>3, <1>7, OwnerIs
    <2>2. redis[PickKey] = Absent
      BY <1>1 DEF NeedsActive
    <2>3. Okay(redis, current, ses[s], z, Of(bought, s), s \in lost)
      BY <1>1, <1>5, <2>1, <2>2, NoPickOkay
    <2>4. Okay(redis', current', ses[s], z, Of(bought', s), s \in lost')
      BY <1>1, <2>3
    <2>5. z.session = s /\ ses' = ses
      BY <1>1, <1>3, <1>5
    <2> QED BY <1>2, <1>3, <1>6, <1>7, <2>4, <2>5, GoesOnRight
  <1>8. /\ \A p \in Requests \ {q} : req'[p] = req[p]
        /\ req'[q].session \in {s, "nobody"}
    BY <1>3, <1>5, <1>6 DEF Only
  <1>9. /\ \A p \in Sessions \ {s} : ses'[p] = ses[p] /\ Of(bought', p) = Of(bought, p)
    BY <1>1
  <1>10. redis' = redis /\ current' = current /\ disturbed \subseteq disturbed'
         /\ UNCHANGED <<kind, overlapped, lost>>
    BY <1>1
  <1> QED BY <1>3, <1>7, <1>8, <1>9, <1>10, RequestWish

LEMMA NoListWish ==
    ASSUME TypeInv, WishInv, NEW q \in Requests, NoList(q)
    PROVE  WishInv'
  <1> DEFINE y == req[q]
             z == Working(y, Openings, End)
  <1>1. /\ kind \in {"elect", "cable"} /\ y.pc = "start" /\ y.text = <<>>
        /\ ses' = ses /\ Only(q, z)
        /\ UNCHANGED <<kind, redis, current, ses, bought, mirrored, disturbed,
                       overlapped, lost, slips>>
    BY NoListIs
  <1>2. y.pc # "idle"
    BY <1>1
  <1>3. PICK s \in Sessions : s = y.session
    BY <1>2, OwnerIs
  <1>4. /\ z.pc = "work" /\ z.text = y.text /\ z.todo = Openings /\ z.say = End
        /\ z.session = s
    BY <1>3, TypedIs, OpeningsAre, ScreensAre, WorkingIs
  <1> HIDE DEF z
  <1>5. ASSUME Right(redis, current, ses[s], req, bought, s \in lost, s)
        PROVE  RightNext(s)
    <2>1. Okay(redis, current, ses[s], y, Of(bought, s), s \in lost)
      BY <1>2, <1>3, <1>5, OwnerIs
    <2>2. redis \in Redis
      BY TypedIs
    <2>3. Okay(redis, current, ses[s], z, Of(bought, s), s \in lost)
      BY <1>1, <1>4, <2>1, <2>2, NoListOkay
    <2>4. Okay(redis', current', ses[s], z, Of(bought', s), s \in lost')
      BY <1>1, <2>3
    <2> QED BY <1>1, <1>2, <1>3, <1>4, <1>5, <2>4, GoesOnRight
  <1>6. /\ \A p \in Requests \ {q} : req'[p] = req[p]
        /\ req'[q].session \in {s, "nobody"}
    BY <1>1, <1>4 DEF Only
  <1>7. \A p \in Sessions \ {s} : ses'[p] = ses[p] /\ Of(bought', p) = Of(bought, p)
    BY <1>1
  <1>8. redis' = redis /\ current' = current /\ disturbed \subseteq disturbed'
        /\ UNCHANGED <<kind, overlapped, lost>>
    BY <1>1
  <1> QED BY <1>3, <1>5, <1>6, <1>7, <1>8, RequestWish

LEMMA MisreadsWish ==
    ASSUME TypeInv, WishInv, NEW q \in Requests, Misreads(q)
    PROVE  WishInv'
  <1>1. /\ req[q].pc = "start"
        /\ \/ \E screen \in Screen : Ends(q, screen)
           \/ ses' = ses /\ \E z : Only(q, z) /\ z.session = req[q].session
        /\ disturbed' = disturbed \cup {req[q].session}
        /\ UNCHANGED <<kind, redis, current, bought, mirrored, overlapped, lost, slips>>
    BY MisreadsIs
  <1>2. req[q].pc # "idle"
    BY <1>1
  <1>3. PICK s \in Sessions : s = req[q].session
    BY <1>2, OwnerIs
  <1>4. /\ \A p \in Requests \ {q} : req'[p] = req[p]
        /\ req'[q].session \in {s, "nobody"}
        /\ \A z \in Sessions \ {s} : ses'[z] = ses[z]
    <2>1. ASSUME NEW screen \in Screen, Ends(q, screen)
          PROVE  /\ \A p \in Requests \ {q} : req'[p] = req[p]
                 /\ req'[q].session \in {s, "nobody"}
                 /\ \A z \in Sessions \ {s} : ses'[z] = ses[z]
      BY <1>2, <1>3, <2>1, EndsElsewhere
    <2>2. ASSUME ses' = ses, NEW z, Only(q, z), z.session = req[q].session
          PROVE  /\ \A p \in Requests \ {q} : req'[p] = req[p]
                 /\ req'[q].session \in {s, "nobody"}
                 /\ \A p \in Sessions \ {s} : ses'[p] = ses[p]
      BY <1>3, <2>2 DEF Only
    <2> QED BY <1>1, <2>1, <2>2
  <1>5. ~Clean(s)'
    BY <1>1, <1>3 DEF Clean
  <1>6. \A z \in Sessions \ {s} : Of(bought', z) = Of(bought, z)
    BY <1>1
  <1> QED BY <1>1, <1>3, <1>4, <1>5, <1>6, RequestWish

LEMMA DiesWish ==
    ASSUME TypeInv, WishInv, NEW q \in Requests, Dies(q)
    PROVE  WishInv'
  <1>1. /\ \A p \in Requests : req'[p] = NoRequest
        /\ \A s \in Sessions : ses'[s] = IF ses[s].waiting THEN Shown(ses[s], End) ELSE ses[s]
    BY DiesTyped
  <1>2. /\ lost' = lost \cup {s \in Sessions : ses[s].waiting \/ InFlight(s)}
        /\ UNCHANGED <<kind, redis, current, bought, mirrored, disturbed,
                       overlapped, slips, trouble>>
    BY DEF Dies
  <1>3. ASSUME NEW s \in Sessions, Clean(s)'
        PROVE  RightNext(s)
    <2> DEFINE x == ses[s]
               B == Of(bought, s)
    <2>1. Right(redis, current, x, req, bought, s \in lost, s)
      BY <1>2, <1>3, StillClean
    <2>2. PICK y \in {NoRequest} \cup {req[p] : p \in Requests} :
             Holds(req, s, y) /\ Okay(redis, current, x, y, B, s \in lost)
      BY <2>1 DEF Right
    <2>3. x \in Session /\ x.waiting \in BOOLEAN
      BY TypedIs DEF SessionOK
    <2>4. Okay(redis, current, ses'[s], NoRequest, B, s \in lost')
      <3>1. CASE x.waiting
        <4>1. Okay(redis, current, Shown(x, End), NoRequest, B, TRUE)
          BY <2>2, <2>3, <3>1, DiedOkay
        <4>2. (s \in lost') = TRUE /\ ses'[s] = Shown(x, End)
          BY <1>1, <1>2, <3>1
        <4> QED BY <4>1, <4>2
      <3>2. CASE ~x.waiting /\ InFlight(s)
        <4>1. Okay(redis, current, x, NoRequest, B, TRUE)
          BY <2>2, <2>3, <3>2, DiedOkay
        <4>2. (s \in lost') = TRUE /\ ses'[s] = x
          BY <1>1, <1>2, <3>2
        <4> QED BY <4>1, <4>2
      <3>3. CASE ~x.waiting /\ ~InFlight(s)
        <4>1. y = NoRequest
          BY <2>2, <3>3 DEF Holds, InFlight
        <4>2. (s \in lost') = (s \in lost) /\ ses'[s] = x
          BY <1>1, <1>2, <3>3
        <4> QED BY <2>2, <4>1, <4>2
      <3> QED BY <3>1, <3>2, <3>3
    <2>5. \A p \in Requests : req'[p].session # s
      BY <1>1, IdleIs
    <2>6. redis' = redis /\ current' = current /\ bought' = bought
      BY <1>2
    <2>7. Okay(redis', current', ses'[s], NoRequest, Of(bought', s), s \in lost')
      BY <2>4, <2>6
    <2> QED BY <2>5, <2>7, RightNone DEF RightNext
  <1> QED BY <1>2, <1>3, WishStep


-----------------------------------------------------------------------------
(* The work is done, or fails. *)

(* A session that has not started has only writes at work for it. *)
LEMMA UnstartedWork ==
    ASSUME kind \in Kinds, NEW x, SessionOK(x), ~Started(x), NEW y, y.pc = "work",
           y.text = <<>> => Writing(y.todo), NEW todo \in Seq(Ops), todo = y.todo, todo # <<>>,
           WorkOK(todo, y.say),
           NEW r, NEW v, NEW B, NEW gone, Okay(r, v, x, y, B, gone), NEW n, NEW u,
           NEW z, z.pc = "work", z.text = y.text, z.todo = Tail(todo)
    PROVE  /\ Okay(n, u, x, NoRequest, B, gone)
           /\ Len(todo) # 1 => Okay(n, u, x, z, B, gone)
  <1>1. x.text = <<>> /\ ~x.waiting
    BY NotStarted
  <1>2. y.text = x.text /\ Writing(todo)
    BY <1>1 DEF Okay, Works
  <1>3. B = {} /\ Okay(n, u, x, y, B, gone)
    BY UnstartedOkay
  <1>4. Okay(n, u, x, NoRequest, B, gone)
    BY <1>1, <1>3, DroppedOkay, ToldNotEmpty
  <1>5. ASSUME Len(todo) # 1
        PROVE  Okay(n, u, x, z, B, gone)
    <2>1. Writing(Tail(todo))
      BY <1>2, <1>5, TailIs
    <2>2. Trusts(n, u, x, z)
      BY <1>1, <1>3 DEF Okay, Trusts
    <2>3. Works(n, u, x, z)
      BY <1>1, <1>2, <2>1 DEF Works
    <2> QED BY <1>3, <2>2, <2>3, NothingSold DEF Okay
  <1> QED BY <1>4, <1>5

(* What a request has at work. *)
LEMMA WorkIs ==
    ASSUME TypeInv, NEW q \in Requests, req[q].pc = "work", NEW s, s = req[q].session,
           NEW z, z = Left(req[q], Tail(req[q].todo))
    PROVE  /\ s \in Sessions /\ ses[s] \in Session /\ SessionOK(ses[s])
           /\ ses[s].waiting \in BOOLEAN /\ req[q] \in Request
           /\ req[q].todo \in Seq(Ops) /\ req[q].todo # <<>>
           /\ req[q].todo[1] \in Ops /\ Head(req[q].todo) = req[q].todo[1]
           /\ WorkOK(req[q].todo, req[q].say) /\ req[q].say \in Screen
           /\ z.pc = "work" /\ z.text = req[q].text /\ z.todo = Tail(req[q].todo)
           /\ z.say = req[q].say /\ z.session = s
           /\ redis \in Redis /\ kind \in Kinds /\ req[q].pc # "idle"
  <1>1. req[q].pc # "idle"
    OBVIOUS
  <1>2. /\ s \in Sessions /\ ses[s] \in Session /\ SessionOK(ses[s])
        /\ ses[s].waiting \in BOOLEAN /\ req[q] \in Request
    BY <1>1, OwnerIs
  <1>3. /\ req[q].todo \in Seq(Ops) /\ req[q].todo # <<>>
        /\ req[q].todo[1] \in Ops /\ Head(req[q].todo) = req[q].todo[1]
        /\ WorkOK(req[q].todo, req[q].say) /\ req[q].say \in Screen
    BY WorkerIs DEF GoodScreen
  <1>4. Tail(req[q].todo) \in Seq(Ops)
    BY <1>3
  <1>5. /\ z.pc = "work" /\ z.text = req[q].text /\ z.todo = Tail(req[q].todo)
        /\ z.say = req[q].say /\ z.session = s
    BY <1>2, <1>3, <1>4, WorkingIs
  <1>6. redis \in Redis /\ kind \in Kinds
    BY TypedIs
  <1> QED BY <1>1, <1>2, <1>3, <1>5, <1>6

(* The next piece is done: what remains to show. *)
LEMMA AdvanceRight ==
    ASSUME TypeInv, NEW q \in Requests, req[q].pc = "work", NEW s, s = req[q].session,
           Advance(q), Right(redis, current, ses[s], req, bought, s \in lost, s),
           NEW z, z = Left(req[q], Tail(req[q].todo)),
           /\ Len(req[q].todo) = 1 /\ ses[s].waiting =>
                 Okay(redis', current', Shown(ses[s], req[q].say), NoRequest,
                      Of(bought', s), s \in lost')
           /\ Len(req[q].todo) = 1 /\ ~ses[s].waiting =>
                 Okay(redis', current', ses[s], NoRequest, Of(bought', s), s \in lost')
           /\ Len(req[q].todo) # 1 =>
                 Okay(redis', current', ses[s], z, Of(bought', s), s \in lost')
    PROVE  RightNext(s)
  <1>1. /\ req[q].pc # "idle" /\ req[q].say \in Screen /\ z.session = s
    BY WorkIs
  <1>2. \/ Len(req[q].todo) = 1 /\ Ends(q, req[q].say)
        \/ Len(req[q].todo) # 1 /\ ses' = ses /\ Only(q, z)
    BY AdvanceIs
  <1>3. CASE Len(req[q].todo) = 1
    <2>1. Ends(q, req[q].say)
      BY <1>2, <1>3
    <2> QED BY <1>1, <1>3, <2>1, EndsRight
  <1>4. CASE Len(req[q].todo) # 1
    <2>1. ses' = ses /\ Only(q, z)
      BY <1>2, <1>4
    <2> QED BY <1>1, <1>4, <2>1, GoesOnRight
  <1> QED BY <1>3, <1>4

LEMMA AdvanceElsewhere ==
    ASSUME TypeInv, NEW q \in Requests, req[q].pc = "work", NEW s, s = req[q].session,
           Advance(q)
    PROVE  /\ \A p \in Requests \ {q} : req'[p] = req[p]
           /\ req'[q].session \in {s, "nobody"}
           /\ \A z \in Sessions \ {s} : ses'[z] = ses[z]
  <1> DEFINE z == Left(req[q], Tail(req[q].todo))
  <1>1. /\ req[q].pc # "idle" /\ req[q].say \in Screen /\ z.session = s
    BY WorkIs
  <1>2. \/ Ends(q, req[q].say)
        \/ ses' = ses /\ Only(q, z)
    BY AdvanceIs
  <1> HIDE DEF z
  <1>3. CASE Ends(q, req[q].say)
    BY <1>1, <1>3, EndsElsewhere
  <1>4. CASE ses' = ses /\ Only(q, z)
    BY <1>1, <1>4 DEF Only
  <1> QED BY <1>2, <1>3, <1>4

LEMMA WritesWish ==
    ASSUME TypeInv, WishInv, NEW q \in Requests, Writes(q)
    PROVE  WishInv'
  <1> DEFINE y == req[q]
             todo == y.todo
             z == Left(y, Tail(todo))
  <1>1. y.pc = "work"
    BY DEF Writes
  <1>2. PICK s \in Sessions : s = y.session
    BY <1>1, WorkIs
  <1>3. /\ ses[s] \in Session /\ SessionOK(ses[s]) /\ ses[s].waiting \in BOOLEAN /\ y \in Request
        /\ todo \in Seq(Ops) /\ todo # <<>> /\ Head(todo) = todo[1]
        /\ WorkOK(todo, y.say) /\ y.say \in Screen
        /\ redis \in Redis /\ kind \in Kinds
    BY <1>1, <1>2, WorkIs
  <1>4. z.pc = "work" /\ z.text = y.text /\ z.todo = Tail(todo) /\ z.say = y.say
    BY <1>1, <1>2, WorkIs
  <1>5. /\ todo[1].op \in {"set", "touch", "del"} /\ Advance(q)
        /\ redis' = Apply(redis, todo[1])
        /\ disturbed' = disturbed \cup Disturbs(q)
        /\ UNCHANGED <<kind, current, bought, mirrored, overlapped, lost, slips, trouble>>
    BY <1>3 DEF Writes, Apply
  <1> HIDE DEF z
  <1>6. ASSUME NEW p \in Sessions, Clean(p)', p # s \/ ~Awaited(q)
        PROVE  ~Started(ses[p])
    BY <1>2, <1>5, <1>6 DEF Clean, Disturbs, Begun, Started
  <1>7. y.text = <<>> => Writing(todo)
    BY <1>1, WorkerIs
  <1>8. ASSUME Clean(s)', Right(redis, current, ses[s], req, bought, s \in lost, s)
        PROVE  RightNext(s)
    <2>1. /\ Okay(redis, current, ses[s], y, Of(bought, s), s \in lost)
          /\ Awaited(q) <=> ses[s].waiting
      BY <1>1, <1>2, <1>8, OwnerIs
    <2>2. ASSUME NEW x \in Session, NEW B, NEW gone, x = ses[s], B = Of(bought, s),
                 gone = (s \in lost)
          PROVE  /\ Len(todo) = 1 /\ x.waiting =>
                       Okay(redis', current, Shown(x, y.say), NoRequest, B, gone)
                 /\ Len(todo) = 1 /\ ~x.waiting => Okay(redis', current, x, NoRequest, B, gone)
                 /\ Len(todo) # 1 => Okay(redis', current, x, z, B, gone)
      <3>1. CASE x.waiting
        BY <1>1, <1>3, <1>4, <1>5, <2>1, <2>2, <3>1, WriteOkay
      <3>2. CASE ~x.waiting
        <4>1. ~Started(x)
          BY <1>6, <1>8, <2>1, <2>2, <3>2
        <4> QED BY <1>1, <1>3, <1>4, <1>7, <2>1, <2>2, <3>2, <4>1, UnstartedWork
      <3> QED BY <3>1, <3>2
    <2>3. current' = current /\ bought' = bought /\ lost' = lost
      BY <1>5
    <2> QED BY <1>1, <1>2, <1>3, <1>5, <1>8, <2>2, <2>3, AdvanceRight DEF z
  <1>9. /\ \A p \in Requests \ {q} : req'[p] = req[p]
        /\ req'[q].session \in {s, "nobody"}
        /\ \A p \in Sessions \ {s} : ses'[p] = ses[p]
    BY <1>1, <1>2, <1>5, AdvanceElsewhere
  <1>10. /\ \A p \in Sessions \ {s} : Of(bought', p) = Of(bought, p)
         /\ \A p \in Sessions \ {s} : Clean(p)' => ~Started(ses[p])
         /\ disturbed \subseteq disturbed' /\ UNCHANGED <<kind, overlapped, lost>>
    BY <1>5, <1>6
  <1> QED BY <1>2, <1>8, <1>9, <1>10, RequestWish


(* Who bought what, when one more thing is bought. *)
LEMMA BoughtMore ==
    ASSUME NEW B, NEW b, NEW s, b.by = s
    PROVE  Of(B \cup {b}, s) = Of(B, s) \cup {b}
  BY DEF Of

LEMMA PaysWish ==
    ASSUME TypeInv, WishInv, NEW q \in Requests, Pays(q)
    PROVE  WishInv'
  <1> DEFINE y == req[q]
             todo == y.todo
             z == Left(y, Tail(todo))
             b == Purchase(q, TRUE)
  <1>1. y.pc = "work"
    BY DEF Pays, Buying
  <1>2. PICK s \in Sessions : s = y.session
    BY <1>1, WorkIs
  <1>3. /\ ses[s] \in Session /\ SessionOK(ses[s]) /\ ses[s].waiting \in BOOLEAN /\ y \in Request
        /\ todo \in Seq(Ops) /\ todo # <<>> /\ Head(todo) = todo[1]
        /\ WorkOK(todo, y.say) /\ y.say \in Screen
    BY <1>1, <1>2, WorkIs
  <1>4. z.pc = "work" /\ z.text = y.text /\ z.todo = Tail(todo) /\ z.say = y.say
    BY <1>1, <1>2, WorkIs
  <1>5. /\ todo[1].op = "buy" /\ Advance(q)
        /\ bought' = bought \cup {b}
        /\ UNCHANGED <<kind, redis, current, mirrored, disturbed, overlapped, lost,
                       slips, trouble>>
    BY <1>3 DEF Pays, Buying
  <1>6. /\ b.by = s /\ b.deal = todo[1].deal /\ b.n \in Nat
        /\ \A d \in bought : d.n \in Nat /\ d.n < b.n
    <2>1. Buying(q) /\ Cardinality(bought) \in Nat
      BY TypedIs DEF Pays
    <2> HIDE DEF b
    <2>2. /\ b.by = y.session /\ b.deal = todo[1].deal /\ b.n = Cardinality(bought) + 1
          /\ \A d \in bought : d.n \in Nat /\ d.n < b.n
      BY <1>5, <2>1, BoughtTyped DEF b
    <2> QED BY <1>2, <2>1, <2>2
  <1> HIDE DEF z, b
  <1>7. /\ Of(bought', s) = Of(bought, s) \cup {b}
        /\ \A p \in Sessions \ {s} : Of(bought', p) = Of(bought, p)
    <2>1. b.by = s /\ bought' = bought \cup {b}
      BY <1>5, <1>6
    <2>2. Of(bought \cup {b}, s) = Of(bought, s) \cup {b}
      BY <2>1, BoughtMore
    <2>3. ASSUME NEW p \in Sessions \ {s}
          PROVE  Of(bought \cup {b}, p) = Of(bought, p)
      BY <2>1 DEF Of
    <2> QED BY <2>1, <2>2, <2>3
  <1>8. ASSUME Right(redis, current, ses[s], req, bought, s \in lost, s)
        PROVE  RightNext(s)
    <2>1. Okay(redis, current, ses[s], y, Of(bought, s), s \in lost)
      BY <1>1, <1>2, <1>8, OwnerIs
    <2>2. ASSUME NEW x \in Session, NEW B, NEW gone, x = ses[s], B = Of(bought, s),
                 gone = (s \in lost)
          PROVE  /\ Len(todo) = 1 /\ x.waiting =>
                       Okay(redis, current, Shown(x, y.say), NoRequest, B \cup {b}, gone)
                 /\ Len(todo) = 1 /\ ~x.waiting =>
                       Okay(redis, current, x, NoRequest, B \cup {b}, gone)
                 /\ Len(todo) # 1 => Okay(redis, current, x, z, B \cup {b}, gone)
      <3>1. \A d \in B : d.n \in Nat /\ d.n < b.n
        BY <1>6, <2>2 DEF Of
      <3> QED BY <1>1, <1>3, <1>4, <1>5, <1>6, <2>1, <2>2, <3>1, PaidOkay
    <2>3. redis' = redis /\ current' = current /\ lost' = lost
      BY <1>5
    <2>4. /\ Len(todo) = 1 /\ ses[s].waiting =>
                Okay(redis', current', Shown(ses[s], y.say), NoRequest,
                     Of(bought', s), s \in lost')
          /\ Len(todo) = 1 /\ ~ses[s].waiting =>
                Okay(redis', current', ses[s], NoRequest, Of(bought', s), s \in lost')
          /\ Len(todo) # 1 => Okay(redis', current', ses[s], z, Of(bought', s), s \in lost')
      BY <1>3, <1>7, <2>2, <2>3
    <2> QED BY <1>1, <1>2, <1>5, <1>8, <2>4, AdvanceRight DEF z
  <1>9. /\ \A p \in Requests \ {q} : req'[p] = req[p]
        /\ req'[q].session \in {s, "nobody"}
        /\ \A p \in Sessions \ {s} : ses'[p] = ses[p]
    BY <1>1, <1>2, <1>5, AdvanceElsewhere
  <1>10. /\ redis' = redis /\ current' = current
         /\ disturbed \subseteq disturbed' /\ UNCHANGED <<kind, overlapped, lost>>
    BY <1>5
  <1> QED BY <1>2, <1>7, <1>8, <1>9, <1>10, RequestWish

(* An error, whether something was bought or not. *)
LEMMA ErrsWish ==
    ASSUME TypeInv, WishInv, NEW q \in Requests, Buying(q), Errs(q) \/ Ends(q, End),
           NEW new, \A b \in new : /\ b.by = req[q].session /\ ~b.told
                                   /\ b.deal = req[q].todo[1].deal,
           new = {} \/ (\E b : new = {b}), bought' = bought \cup new,
           UNCHANGED <<kind, redis, current, disturbed, overlapped, lost>>
    PROVE  WishInv'
  <1> DEFINE y == req[q]
             todo == y.todo
             z == Left(y, <<Del(CatKey)>>)
  <1>1. y.pc = "work"
    BY DEF Buying
  <1>2. PICK s \in Sessions : s = y.session
    BY <1>1, WorkIs
  <1>3. /\ ses[s] \in Session /\ SessionOK(ses[s]) /\ ses[s].waiting \in BOOLEAN /\ y \in Request
        /\ todo \in Seq(Ops) /\ todo # <<>> /\ Head(todo) = todo[1]
        /\ WorkOK(todo, y.say) /\ y.say \in Screen /\ redis \in Redis /\ y.pc # "idle"
    BY <1>1, <1>2, WorkIs
  <1>4. End \in Screen /\ <<Del(CatKey)>> \in Seq(Ops)
    BY ScreensAre, OpsAre, Constants
  <1>5. /\ z \in Request /\ z.pc = "work" /\ z.text = y.text /\ z.todo = <<Del(CatKey)>>
        /\ z.say = y.say /\ z.session = s
    BY <1>1, <1>2, <1>3, <1>4, WorkingIs
  <1>6. todo[1].op = "buy"
    BY <1>3 DEF Buying
  <1>7. \/ Ends(q, End)
        \/ kind = "bank" /\ ses' = ses /\ Only(q, z)
    BY ErrsIs
  <1> HIDE DEF z
  <1>11. /\ Of(bought', s) = Of(bought, s) \cup new
         /\ \A p \in Sessions \ {s} : Of(bought', p) = Of(bought, p)
    BY <1>2 DEF Of
  <1>8. ASSUME Right(redis, current, ses[s], req, bought, s \in lost, s)
        PROVE  RightNext(s)
    <2>1. Okay(redis, current, ses[s], y, Of(bought, s), s \in lost)
      BY <1>2, <1>3, <1>8, OwnerIs
    <2>2. ASSUME NEW x \in Session, NEW B, NEW gone, x = ses[s], B = Of(bought, s),
                 gone = (s \in lost)
          PROVE  /\ x.waiting => Okay(redis, current, Shown(x, End), NoRequest, B \cup new, gone)
                 /\ ~x.waiting => Okay(redis, current, x, NoRequest, B \cup new, gone)
                 /\ kind = "bank" => Okay(redis, current, x, z, B \cup new, gone)
      <3>1. Okay(redis, current, x, y, B \cup new, gone)
        <4>1. Okay(redis, current, x, y, B, gone)
          BY <2>1, <2>2
        <4>2. CASE new = {}
          <5>1. B \cup new = B
            BY <4>2
          <5> QED BY <4>1, <5>1
        <4>3. ASSUME NEW b, new = {b} PROVE Okay(redis, current, x, y, B \cup new, gone)
          <5>1. b.deal = todo[1].deal /\ ~b.told
            BY <4>3
          <5>2. Okay(redis, current, x, y, B \cup {b}, gone)
            BY <1>1, <1>3, <1>6, <2>2, <4>1, <5>1, UntoldOkay
          <5> QED BY <4>3, <5>2
        <4> QED BY <4>2, <4>3
      <3>2. ASSUME NEW D, D = B \cup new
            PROVE  /\ x.waiting => Okay(redis, current, Shown(x, End), NoRequest, D, gone)
                   /\ ~x.waiting => Okay(redis, current, x, NoRequest, D, gone)
                   /\ kind = "bank" => Okay(redis, current, x, z, D, gone)
        BY <1>1, <1>3, <1>5, <1>6, <2>2, <3>1, <3>2, UnpaidOkay
      <3> QED BY <3>2
    <2>3. redis' = redis /\ current' = current /\ lost' = lost
      OBVIOUS
    <2>6. /\ ses[s].waiting =>
                Okay(redis', current', Shown(ses[s], End), NoRequest, Of(bought', s), s \in lost')
          /\ ~ses[s].waiting =>
                Okay(redis', current', ses[s], NoRequest, Of(bought', s), s \in lost')
          /\ kind = "bank" => Okay(redis', current', ses[s], z, Of(bought', s), s \in lost')
      BY <1>3, <1>11, <2>2, <2>3
    <2>4. CASE Ends(q, End)
      BY <1>2, <1>3, <1>4, <1>8, <2>4, <2>6, EndsRight
    <2>5. CASE kind = "bank" /\ ses' = ses /\ Only(q, z)
      BY <1>2, <1>3, <1>5, <1>8, <2>5, <2>6, GoesOnRight
    <2> QED BY <1>7, <2>4, <2>5
  <1>9. /\ \A p \in Requests \ {q} : req'[p] = req[p]
        /\ req'[q].session \in {s, "nobody"}
        /\ \A p \in Sessions \ {s} : ses'[p] = ses[p]
    <2>1. CASE Ends(q, End)
      BY <1>2, <1>3, <1>4, <2>1, EndsElsewhere
    <2>2. CASE ses' = ses /\ Only(q, z)
      BY <1>5, <2>2 DEF Only
    <2> QED BY <1>7, <2>1, <2>2
  <1>10. /\ redis' = redis /\ current' = current
         /\ disturbed \subseteq disturbed' /\ UNCHANGED <<kind, overlapped, lost>>
    OBVIOUS
  <1> QED BY <1>2, <1>8, <1>9, <1>10, <1>11, RequestWish

LEMMA PayFailsWish ==
    ASSUME TypeInv, WishInv, NEW q \in Requests, PayFails(q) \/ PaysAndErrs(q)
    PROVE  WishInv'
  <1>1. CASE PayFails(q)
    <2>1. /\ Buying(q)
          /\ Errs(q) \/ Ends(q, End)
          /\ UNCHANGED <<kind, redis, current, disturbed, overlapped, lost>>
          /\ bought' = bought
      BY <1>1 DEF PayFails
    <2>2. PICK new : new = {}
      OBVIOUS
    <2>3. /\ bought' = bought \cup new /\ (new = {} \/ (\E b : new = {b}))
          /\ \A b \in new : /\ b.by = req[q].session /\ ~b.told
                           /\ b.deal = req[q].todo[1].deal
      BY <2>1, <2>2
    <2> QED BY <2>1, <2>3, ErrsWish
  <1>2. CASE PaysAndErrs(q)
    <2>1. PICK b : b = Purchase(q, FALSE)
      OBVIOUS
    <2>2. /\ Buying(q) /\ Errs(q) /\ bought' = bought \cup {b}
          /\ UNCHANGED <<kind, redis, current, disturbed, overlapped, lost>>
      BY <1>2, <2>1 DEF PaysAndErrs
    <2>3. /\ b.by = req[q].session /\ b.deal = req[q].todo[1].deal /\ b.told = FALSE
      BY <2>1, <2>2, BoughtTyped
    <2>4. PICK new : new = {b}
      OBVIOUS
    <2>5. /\ bought' = bought \cup new /\ (new = {} \/ (\E d : new = {d}))
          /\ \A d \in new : /\ d.by = req[q].session /\ ~d.told
                           /\ d.deal = req[q].todo[1].deal
      BY <2>2, <2>3, <2>4
    <2> QED BY <2>2, <2>5, ErrsWish
  <1> QED BY <1>1, <1>2

(* The work that ends with a local row: the answer is the end. *)
LEMMA RowRight ==
    ASSUME TypeInv, NEW q \in Requests, req[q].pc = "work", NEW s, s = req[q].session,
           req[q].todo[1].op = "mirror", Advance(q),
           Right(redis, current, ses[s], req, bought, s \in lost, s),
           redis' = redis, current' = current, bought' = bought, lost' = lost
    PROVE  RightNext(s)
  <1> DEFINE y == req[q]
             todo == y.todo
             z == Left(y, Tail(todo))
  <1>1. /\ ses[s] \in Session /\ ses[s].waiting \in BOOLEAN /\ y \in Request
        /\ todo \in Seq(Ops) /\ todo # <<>> /\ WorkOK(todo, y.say) /\ y.pc # "idle"
    BY WorkIs
  <1>2. z.pc = "work" /\ z.text = y.text /\ z.todo = Tail(todo) /\ z.say = y.say
    BY WorkIs
  <1>3. Len(todo) = 1 /\ y.say = End
    BY <1>1, HeadIs
  <1>4. Okay(redis, current, ses[s], y, Of(bought, s), s \in lost)
    BY <1>1, OwnerIs
  <1> HIDE DEF z
  <1>5. ASSUME NEW x \in Session, NEW B, NEW gone, x = ses[s], B = Of(bought, s),
               gone = (s \in lost)
        PROVE  /\ x.waiting => Okay(redis, current, Shown(x, End), NoRequest, B, gone)
               /\ ~x.waiting => Okay(redis, current, x, NoRequest, B, gone)
    BY <1>1, <1>2, <1>4, <1>5, PassedOkay
  <1> QED BY <1>1, <1>3, <1>5, AdvanceRight DEF z

LEMMA MirrorsWish ==
    ASSUME TypeInv, WishInv, NEW q \in Requests, Mirrors(q)
    PROVE  WishInv'
  <1>1. req[q].pc = "work"
    BY DEF Mirrors
  <1>2. PICK s \in Sessions : s = req[q].session
    BY <1>1, WorkIs
  <1>3. Head(req[q].todo) = req[q].todo[1]
    BY <1>1, <1>2, WorkIs
  <1>4. /\ req[q].todo[1].op = "mirror" /\ Advance(q)
        /\ UNCHANGED <<kind, redis, current, bought, disturbed, overlapped, lost,
                       slips, trouble>>
    BY <1>3 DEF Mirrors
  <1>5. Right(redis, current, ses[s], req, bought, s \in lost, s) => RightNext(s)
    BY <1>1, <1>2, <1>4, RowRight
  <1>6. /\ \A p \in Requests \ {q} : req'[p] = req[p]
        /\ req'[q].session \in {s, "nobody"}
        /\ \A p \in Sessions \ {s} : ses'[p] = ses[p]
    BY <1>1, <1>2, <1>4, AdvanceElsewhere
  <1>7. /\ redis' = redis /\ current' = current
        /\ \A p \in Sessions \ {s} : Of(bought', p) = Of(bought, p)
        /\ disturbed \subseteq disturbed' /\ UNCHANGED <<kind, overlapped, lost>>
    BY <1>4
  <1> QED BY <1>2, <1>5, <1>6, <1>7, RequestWish


(* A call fails.  A session that waits is told the end, or goes on where it  *)
(* is when the failure is passed over; a delete that fails is a disturbance. *)
LEMMA WorkFailsWish ==
    ASSUME TypeInv, WishInv, NEW q \in Requests, WorkFails(q)
    PROVE  WishInv'
  <1> DEFINE y == req[q]
             todo == y.todo
             z == Left(y, Tail(todo))
  <1>1. y.pc = "work"
    BY DEF WorkFails
  <1>2. PICK s \in Sessions : s = y.session
    BY <1>1, WorkIs
  <1>3. /\ ses[s] \in Session /\ SessionOK(ses[s]) /\ ses[s].waiting \in BOOLEAN /\ y \in Request
        /\ todo \in Seq(Ops) /\ todo # <<>> /\ Head(todo) = todo[1]
        /\ WorkOK(todo, y.say) /\ y.say \in Screen /\ redis \in Redis /\ y.pc # "idle"
    BY <1>1, <1>2, WorkIs
  <1>4. z.pc = "work" /\ z.text = y.text /\ z.todo = Tail(todo) /\ z.say = y.say
    BY <1>1, <1>2, WorkIs
  <1>5. /\ todo[1].op # "buy"
        /\ IF todo[1].op = "set" THEN Ends(q, End) ELSE Advance(q)
        /\ disturbed' = IF todo[1].op = "del" THEN disturbed \cup {s} ELSE disturbed
        /\ UNCHANGED <<kind, redis, current, bought, mirrored, overlapped, lost, slips>>
    BY <1>2, <1>3 DEF WorkFails
  <1>6. End \in Screen
    BY ScreensAre
  <1>7. /\ todo[1].op \in {"set", "touch", "del", "mirror"}
        /\ todo[1].op = "mirror" => Len(todo) = 1 /\ y.say = End
    BY <1>3, <1>5, HeadIs
  <1>8. redis' = redis /\ current' = current /\ lost' = lost /\ bought' = bought
    BY <1>5
  <1> HIDE DEF z
  <1>9. ASSUME Clean(s)', Right(redis, current, ses[s], req, bought, s \in lost, s)
        PROVE  RightNext(s)
    <2>1. Okay(redis, current, ses[s], y, Of(bought, s), s \in lost)
      BY <1>2, <1>3, <1>9, OwnerIs
    <2>2. todo[1].op # "del"
      BY <1>5, <1>9 DEF Clean
    <2>3. ASSUME NEW x \in Session, NEW B, NEW gone, x = ses[s], B = Of(bought, s),
                 gone = (s \in lost)
          PROVE  /\ todo[1].op # "touch" /\ x.waiting =>
                       Okay(redis, current, Shown(x, End), NoRequest, B, gone)
                 /\ ~x.waiting => Okay(redis, current, x, NoRequest, B, gone)
                 /\ ~x.waiting /\ Len(todo) # 1 => Okay(redis, current, x, z, B, gone)
      BY <1>1, <1>3, <1>4, <1>7, <2>1, <2>2, <2>3, PassedOkay
    <2>4. CASE todo[1].op = "set"
      <3>1. /\ ses[s].waiting => Okay(redis', current', Shown(ses[s], End), NoRequest,
                                      Of(bought', s), s \in lost')
            /\ ~ses[s].waiting => Okay(redis', current', ses[s], NoRequest,
                                       Of(bought', s), s \in lost')
        BY <1>3, <1>8, <2>3, <2>4
      <3>2. Ends(q, End)
        BY <1>5, <2>4
      <3> QED BY <1>2, <1>3, <1>6, <1>9, <3>1, <3>2, EndsRight
    <2>5. CASE todo[1].op \in {"touch", "mirror"}
      <3>1. Advance(q)
        BY <1>5, <2>5
      <3>2. ASSUME todo[1].op = "touch", NEW x \in Session, NEW B, NEW gone, x = ses[s],
                   B = Of(bought, s), gone = (s \in lost), x.waiting
            PROVE  /\ Len(todo) = 1 => Okay(redis, current, Shown(x, y.say), NoRequest, B, gone)
                   /\ Len(todo) # 1 => Okay(redis, current, x, z, B, gone)
        <4>1. Promise(redis, todo, current, x.text, x.wish, y.say)
          BY <1>1, <2>1, <3>2 DEF Okay, Works
        <4>2. redis = Apply(redis, todo[1])
          BY <1>3, <3>2, <4>1, PromiseHead
        <4>3. todo[1].op \in {"set", "touch", "del"}
          BY <3>2
        <4> QED BY <1>1, <1>3, <1>4, <2>1, <3>2, <4>2, <4>3, WriteOkay
      <3>3. ASSUME todo[1].op = "touch", ses[s].waiting
            PROVE  /\ Len(todo) = 1 => Okay(redis, current, Shown(ses[s], y.say), NoRequest,
                                            Of(bought, s), s \in lost)
                   /\ Len(todo) # 1 => Okay(redis, current, ses[s], z, Of(bought, s), s \in lost)
        BY <1>3, <3>2, <3>3
      <3>4. ASSUME todo[1].op = "mirror", ses[s].waiting
            PROVE  /\ Len(todo) = 1 /\ y.say = End
                   /\ Okay(redis, current, Shown(ses[s], End), NoRequest,
                           Of(bought, s), s \in lost)
        BY <1>3, <1>7, <2>3, <3>4
      <3>5. /\ ~ses[s].waiting => Okay(redis, current, ses[s], NoRequest,
                                       Of(bought, s), s \in lost)
            /\ ~ses[s].waiting /\ Len(todo) # 1 =>
                  Okay(redis, current, ses[s], z, Of(bought, s), s \in lost)
        BY <1>3, <2>3
      <3>6. /\ Len(todo) = 1 /\ ses[s].waiting =>
                  Okay(redis', current', Shown(ses[s], y.say), NoRequest,
                       Of(bought', s), s \in lost')
            /\ Len(todo) = 1 /\ ~ses[s].waiting =>
                  Okay(redis', current', ses[s], NoRequest, Of(bought', s), s \in lost')
            /\ Len(todo) # 1 => Okay(redis', current', ses[s], z, Of(bought', s), s \in lost')
        BY <1>3, <1>8, <2>5, <3>3, <3>4, <3>5
      <3> QED BY <1>1, <1>2, <1>9, <3>1, <3>6, AdvanceRight DEF z
    <2> QED BY <1>7, <2>2, <2>4, <2>5
  <1>10. /\ \A p \in Requests \ {q} : req'[p] = req[p]
         /\ req'[q].session \in {s, "nobody"}
         /\ \A p \in Sessions \ {s} : ses'[p] = ses[p]
    <2>1. CASE Ends(q, End)
      BY <1>2, <1>3, <1>6, <2>1, EndsElsewhere
    <2>2. CASE Advance(q)
      BY <1>1, <1>2, <2>2, AdvanceElsewhere
    <2> QED BY <1>5, <2>1, <2>2
  <1>11. /\ redis' = redis /\ current' = current
         /\ \A p \in Sessions \ {s} : Of(bought', p) = Of(bought, p)
         /\ disturbed \subseteq disturbed' /\ UNCHANGED <<kind, overlapped, lost>>
    BY <1>5
  <1> QED BY <1>2, <1>9, <1>10, <1>11, RequestWish


-----------------------------------------------------------------------------
(* A key expires, or a list changes. *)
LEMMA AroundWish ==
    ASSUME TypeInv, WishInv,
           (\E k \in Keys : Expire(k)) \/ ListChanges \/ UNCHANGED vars
    PROVE  WishInv'
  <1>1. UNCHANGED <<kind, ses, req, bought, overlapped, lost>>
    BY DEF Expire, ListChanges, vars
  <1>2. disturbed \subseteq disturbed'
    BY DEF Expire, ListChanges, vars
  <1>3. ASSUME NEW s \in Sessions, Clean(s)'
        PROVE  RightNext(s)
    <2>1. Clean(s) /\ Right(redis, current, ses[s], req, bought, s \in lost, s)
      BY <1>1, <1>2, <1>3, StillClean
    <2>2. Untouched(s)
      BY <1>1 DEF Untouched
    <2>3. \/ redis' = redis /\ current' = current
          \/ redis' = redis /\ kind \notin ReadAgain
          \/ ~Started(ses[s])
      <3>1. CASE \E k \in Keys : Expire(k)
        BY <1>3, <3>1 DEF Expire, Clean, Begun, Started
      <3>2. CASE ListChanges
        BY <1>3, <3>2 DEF ListChanges, Clean, Begun, Started
      <3>3. CASE UNCHANGED vars
        BY <3>3 DEF vars
      <3> QED BY <3>1, <3>2, <3>3
    <2> QED BY <1>1, <2>1, <2>2, <2>3, Elsewhere
  <1> QED BY <1>1, <1>3, WishStep

LEMMA InitWish ==
    ASSUME Init
    PROVE  WishInv
  <1>1. ASSUME NEW s \in Sessions
        PROVE  Right(redis, current, ses[s], req, bought, s \in lost, s)
    <2> DEFINE x == ses[s]
    <2>1. /\ ~x.waiting /\ x.screen = Ask("nothing") /\ x.screen.ask = "nothing"
          /\ bought = {}
      BY DEF Init, Ask
    <2>2. /\ \A q \in Requests : req[q] = NoRequest
          /\ NoRequest.session = "nobody" /\ NoRequest.pc = "idle"
      BY DEF Init, NoRequest
    <2>3. \A q \in Requests : req[q].session # s
      BY <2>2, Constants, VendAssumption
    <2>4. Of(bought, s) = {} /\ ~Started(x)
      BY <2>1 DEF Of, Started
    <2>5. Trusts(redis, current, x, NoRequest)
      BY <2>1, <2>4 DEF Trusts
    <2>6. Works(redis, current, x, NoRequest)
      BY <2>1, <2>2, <2>4 DEF Works
    <2>7. Paid(x, NoRequest, {}) /\ Single(redis, x, NoRequest, {})
      BY NothingSold
    <2>8. Okay(redis, current, x, NoRequest, Of(bought, s), s \in lost)
      BY <2>4, <2>5, <2>6, <2>7 DEF Okay
    <2>9. Right(redis, current, x, req, bought, s \in lost, s)
      BY <2>3, <2>8, RightNone
    <2> QED BY <2>9
  <1> QED BY <1>1 DEF WishInv

LEMMA NextWish ==
    ASSUME TypeInv, WishInv, [Next]_vars
    PROVE  WishInv'
  <1>1. ASSUME NEW q \in Requests, Step(q) PROVE WishInv'
    BY <1>1, HandledWish, NoPickWish, DiesWish, RefusedWish, NoListWish, MisreadsWish,
       GateWish, WritesWish, PaysWish, PayFailsWish, MirrorsWish, WorkFailsWish DEF Step
  <1>2. CASE Next
    BY <1>1, <1>2, UserWish, LeavesWish, AroundWish DEF Next
  <1> QED BY <1>2, AroundWish

LEMMA VendInvariant == Spec => [](TypeInv /\ WishInv)
  <1>1. Init => TypeInv /\ WishInv
    BY InitTyped, InitWish
  <1>2. TypeInv /\ WishInv /\ [Next]_vars => (TypeInv /\ WishInv)'
    BY NextTyped, NextWish
  <1> QED BY <1>1, <1>2, PTL DEF Spec

(* What is paid for, or saved at PAJ, is what the user picked on the screen  *)
(* that showed it and typed where it was asked for: the answers that the     *)
(* handlers read from the text again never slip against the list, the pick   *)
(* and the offset they keep in Redis, in any of the menus, for any number of *)
(* pages, Backs and mistakes, unless the session's ground was disturbed or   *)
(* it had two requests at once.                                              *)
THEOREM VendBoughtAsWished == Spec => []BoughtAsWished
  <1>1. ASSUME TypeInv, WishInv
        PROVE  BoughtAsWished
    <2> SUFFICES ASSUME NEW b \in bought, b.by \notin disturbed \cup overlapped
                 PROVE  Agrees(b.deal, ses[b.by].wish)
      BY DEF BoughtAsWished
    <2>1. b.by \in Sessions
      BY <1>1 DEF TypeInv, VendTypeOK
    <2>2. PICK s \in Sessions : s = b.by
      BY <2>1
    <2>3. Right(redis, current, ses[s], req, bought, s \in lost, s)
      BY <1>1, <2>2 DEF WishInv, Clean
    <2>4. PICK y \in {NoRequest} \cup {req[q] : q \in Requests} :
             Paid(ses[s], y, Of(bought, s))
      BY <2>3 DEF Right, Okay
    <2>5. b \in Of(bought, s)
      BY <2>2 DEF Of
    <2> QED BY <2>2, <2>4, <2>5 DEF Paid
  <1> QED BY <1>1, VendInvariant, PTL

(* In the menus that delete their key after the purchase (electricity, cable *)
(* TV, saved banks), a session buys nothing more after a purchase that its   *)
(* handler was told of, however often it goes on, unless it was disturbed,   *)
(* had two requests at once, or lost one to a panic.  After an error the key *)
(* stays, and it may buy again what was paid for.                            *)
THEOREM VendBoughtOnce == Spec => []BoughtOnce
  <1>1. ASSUME TypeInv, WishInv
        PROVE  BoughtOnce
    <2> SUFFICES ASSUME NEW b \in bought, NEW d \in bought, b.by = d.by, b.n < d.n, b.told,
                        kind \in {"elect", "cable", "bank"},
                        b.by \notin disturbed \cup overlapped \cup lost
                 PROVE  FALSE
      BY DEF BoughtOnce
    <2>1. b.by \in Sessions /\ b.n \in Nat /\ d.n \in Nat
      BY <1>1 DEF TypeInv, VendTypeOK
    <2>2. PICK s \in Sessions : s = b.by
      BY <2>1
    <2>3. Right(redis, current, ses[s], req, bought, s \in lost, s)
      BY <1>1, <2>2 DEF WishInv, Clean
    <2>4. PICK y \in {NoRequest} \cup {req[q] : q \in Requests} :
             Single(redis, ses[s], y, Of(bought, s))
      BY <2>2, <2>3 DEF Right, Okay
    <2>5. b \in Of(bought, s) /\ d \in Of(bought, s)
      BY <2>2 DEF Of
    <2>6. d.n <= b.n
      BY <2>4, <2>5 DEF Single, Told, ToldLast
    <2> QED BY <2>1, <2>6
  <1> QED BY <1>1, VendInvariant, PTL

-----------------------------------------------------------------------------
(* Without trouble one session at a time has the menu open, and one request *)
(* is under way: the one that the session waits for.                        *)
Alone ==
    /\ overlapped = {}
    /\ \A s, z \in Begun : s = z
    /\ \A q \in Requests : req[q].pc # "idle" => Awaited(q)
    /\ \A p, q \in Requests : req[p].pc # "idle" /\ req[q].pc # "idle" => p = q
OneAtATime == trouble = 0 => Alone

LEMMA SpendingIs ==
    ASSUME TypeInv
    PROVE  /\ slips \in Nat /\ trouble \in Nat
           /\ Trouble => trouble' # 0
           /\ Slip => slips' # 0
  BY VendAssumption DEF TypeInv, VendTypeOK, Trouble, Slip

(* Nothing is under way for a session that does not wait. *)
LEMMA QuietIs ==
    ASSUME TypeInv, Alone, \A s \in Begun : ~ses[s].waiting
    PROVE  /\ \A q \in Requests : req[q].pc = "idle" /\ req[q] = NoRequest
           /\ \A s \in Sessions : ~InFlight(s)
  <1>1. ASSUME NEW q \in Requests
        PROVE  req[q].pc = "idle"
    <2> SUFFICES ASSUME req[q].pc # "idle" PROVE FALSE
      OBVIOUS
    <2>1. req[q].session \in Sessions
      BY OwnerIs
    <2>2. ses[req[q].session].waiting
      BY DEF Alone, Awaited
    <2>3. req[q].session \in Begun
      BY <2>1, <2>2 DEF Begun
    <2> QED BY <2>2, <2>3
  <1>2. \A q \in Requests : req[q] = NoRequest
    BY <1>1, TypedIs DEF RequestOK
  <1> QED BY <1>1, <1>2, IdleIs DEF InFlight

(* The requests that go on, if any, are those that were under way. *)
LEMMA AloneStays ==
    ASSUME Alone, overlapped' = overlapped, Begun' \subseteq Begun,
           \A q \in Requests : req'[q].pc # "idle" =>
              req[q].pc # "idle" /\ (Awaited(q) => Awaited(q)')
    PROVE  Alone'
  BY DEF Alone

(* A request comes in when none is under way. *)
LEMMA AloneComesIn ==
    ASSUME Alone, overlapped' = overlapped, NEW s \in Sessions, Begun' \subseteq {s},
           NEW q \in Requests, \A p \in Requests \ {q} : req[p].pc = "idle" /\ req'[p] = req[p],
           Awaited(q)'
    PROVE  Alone'
  BY DEF Alone

LEMMA BeginAlone ==
    ASSUME TypeInv, OneAtATime, NEW q \in Requests, NEW s \in Sessions, Begin(q, s)
    PROVE  OneAtATime'
  <1> SUFFICES ASSUME trouble' = 0 PROVE Alone'
    BY DEF OneAtATime
  <1>1. Begun = {} /\ trouble' = trouble
    BY SpendingIs DEF Begin
  <1>2. Alone
    BY <1>1 DEF OneAtATime
  <1>3. /\ \A p \in Requests : req[p].pc = "idle"
        /\ ~InFlight(s)
    BY <1>1, <1>2, QuietIs
  <1>4. /\ ses[s].text = <<>> /\ Only(q, Incoming(s, <<>>)) /\ OnlySession(s, Opening(ses[s]))
        /\ Incoming(s, <<>>).session = s /\ Incoming(s, <<>>).text = <<>>
        /\ overlapped' = overlapped
    BY <1>3, BeginIs
  <1>5. Opening(ses[s]).waiting = TRUE /\ Opening(ses[s]).text = ses[s].text
    BY TypedIs, OpeningIs
  <1>6. Begun' \subseteq {s}
    BY <1>1, <1>4 DEF Begun, OnlySession
  <1>7. Awaited(q)'
    BY <1>4, <1>5 DEF Awaited, Only, OnlySession
  <1> QED BY <1>2, <1>3, <1>4, <1>6, <1>7, AloneComesIn DEF Only

LEMMA TypeAlone ==
    ASSUME TypeInv, OneAtATime, NEW q \in Requests, NEW s \in Sessions, NEW seg,
           Type(q, s, seg),
           seg \in Sensible(ses[s].screen) \/ (seg = Back /\ ses[s].text # <<>>)
    PROVE  OneAtATime'
  <1> SUFFICES ASSUME trouble' = 0 PROVE Alone'
    BY DEF OneAtATime
  <1>1. Alone /\ ~ses[s].waiting /\ s \in Begun
    BY DEF OneAtATime, Type, Begun
  <1>2. \A z \in Begun : z = s
    BY <1>1 DEF Alone
  <1>3. /\ \A p \in Requests : req[p].pc = "idle"
        /\ ~InFlight(s)
    BY <1>1, <1>2, QuietIs
  <1>4. Only(q, Incoming(s, Press(ses[s].text, seg))) /\ OnlySession(s, Typing(ses[s], seg))
    BY TypeIs
  <1>5. Incoming(s, Press(ses[s].text, seg)).session = s
    BY DEF Incoming
  <1>6. Incoming(s, Press(ses[s].text, seg)).text = Press(ses[s].text, seg)
    BY DEF Incoming
  <1>7. ses[s] \in Session
    BY TypedIs
  <1>8. /\ Typing(ses[s], seg).text = Press(ses[s].text, seg)
        /\ Typing(ses[s], seg).waiting = TRUE
    BY <1>7 DEF Typing, Session
  <1> DEFINE text == Press(ses[s].text, seg)
  <1>9. overlapped' = IF InFlight(s) THEN overlapped \cup {s} ELSE overlapped
    BY TypeIs
  <1>10. overlapped' = overlapped
    BY <1>3, <1>9
  <1>11. /\ Only(q, Incoming(s, text)) /\ OnlySession(s, Typing(ses[s], seg))
        /\ Incoming(s, text).session = s /\ Incoming(s, text).text = text
        /\ Typing(ses[s], seg).text = text /\ Typing(ses[s], seg).waiting = TRUE
        /\ overlapped' = overlapped
    BY <1>4, <1>5, <1>6, <1>8, <1>10
  <1> HIDE DEF text
  <1>12. Begun' \subseteq {s}
    BY <1>2, <1>11 DEF Begun, OnlySession
  <1>13. Awaited(q)'
    BY <1>11 DEF Awaited, Only, OnlySession
  <1> QED BY <1>1, <1>3, <1>11, <1>12, <1>13, AloneComesIn DEF Only

LEMMA UserAlone ==
    ASSUME TypeInv, OneAtATime, NEW q \in Requests, NEW s \in Sessions
    PROVE  Begin(q, s) \/ Answers(q, s) \/ GoesBack(q, s) \/ Repeat(q, s) => OneAtATime'
  <1>1. ASSUME Answers(q, s) PROVE OneAtATime'
    <2>1. PICK seg \in Sensible(ses[s].screen) : Type(q, s, seg)
      BY <1>1 DEF Answers
    <2> QED BY <2>1, TypeAlone
  <1>2. ASSUME GoesBack(q, s) PROVE OneAtATime'
    BY <1>2, TypeAlone DEF GoesBack
  <1>3. ASSUME Repeat(q, s) PROVE OneAtATime'
    BY <1>3, SpendingIs DEF Repeat, OneAtATime
  <1> QED BY <1>1, <1>2, <1>3, BeginAlone

LEMMA LeavesAlone ==
    ASSUME TypeInv, OneAtATime, NEW s \in Sessions, Leaves(s)
    PROVE  OneAtATime'
  <1> SUFFICES ASSUME trouble' = 0 PROVE Alone'
    BY DEF OneAtATime
  <1>1. Alone /\ overlapped' = overlapped /\ req' = req
    BY DEF Leaves, OneAtATime
  <1>2. OnlySession(s, Leaving(ses[s])) /\ ~ses[s].waiting /\ s \in Begun
    BY LeavesTyped DEF Leaves, Begun
  <1>3. Leaving(ses[s]).waiting = ses[s].waiting /\ Leaving(ses[s]).text = ses[s].text
    BY TypedIs, LeavingIs
  <1>4. Begun' \subseteq Begun
    BY <1>2 DEF Begun, OnlySession
  <1>5. ASSUME NEW q \in Requests, req[q].pc # "idle"
        PROVE  Awaited(q)'
    <2>1. Awaited(q) /\ req[q].session \in Sessions
      BY <1>1, <1>5, OwnerIs DEF Alone
    <2> QED BY <1>1, <1>2, <1>3, <2>1 DEF Awaited, OnlySession
  <1> QED BY <1>1, <1>4, <1>5, AloneStays

(* A request ends, or goes on. *)
LEMMA EndsAlone ==
    ASSUME TypeInv, Alone, overlapped' = overlapped, NEW q \in Requests, req[q].pc # "idle",
           NEW screen \in Screen, Ends(q, screen)
    PROVE  Alone'
  <1>1. /\ req[q].session \in Sessions
        /\ req'[q] = NoRequest /\ \A p \in Requests \ {q} : req'[p] = req[p]
        /\ \A s \in Sessions : ~Awaited(q) \/ s # req[q].session => ses'[s] = ses[s]
    BY EndsIs
  <1>2. Awaited(q)
    BY DEF Alone
  <1>3. req[q].session \in Begun
    BY <1>1, <1>2 DEF Begun, Awaited
  <1>4. Begun' \subseteq Begun
    BY <1>1, <1>3 DEF Begun
  <1>5. \A p \in Requests : req'[p].pc = "idle"
    BY <1>1, IdleIs DEF Alone
  <1> QED BY <1>4, <1>5, AloneStays

LEMMA GoesOnAlone ==
    ASSUME Alone, overlapped' = overlapped, NEW q \in Requests, req[q].pc # "idle",
           NEW z, Only(q, z), z.session = req[q].session, z.text = req[q].text, ses' = ses
    PROVE  Alone'
  <1>1. Begun' \subseteq Begun
    BY DEF Begun
  <1>2. ASSUME NEW p \in Requests, req'[p].pc # "idle"
        PROVE  req[p].pc # "idle" /\ (Awaited(p) => Awaited(p)')
    <2>1. req'[p].session = req[p].session /\ req'[p].text = req[p].text
      BY DEF Only
    <2>2. req[p].pc # "idle"
      BY <1>2 DEF Only
    <2> QED BY <2>1, <2>2 DEF Awaited
  <1> QED BY <1>1, <1>2, AloneStays

LEMMA AdvanceAlone ==
    ASSUME TypeInv, Alone, overlapped' = overlapped, NEW q \in Requests,
           req[q].pc = "work", Advance(q)
    PROVE  Alone'
  <1> DEFINE z == Left(req[q], Tail(req[q].todo))
  <1>1. /\ req[q].say \in Screen /\ req[q].pc # "idle"
        /\ Ends(q, req[q].say) \/ (ses' = ses /\ Only(q, z))
    BY AdvanceIs
  <1>2. z.session = req[q].session /\ z.text = req[q].text
    BY WorkIs
  <1> HIDE DEF z
  <1>3. CASE Ends(q, req[q].say)
    BY <1>1, <1>3, EndsAlone
  <1>4. CASE ses' = ses /\ Only(q, z)
    BY <1>1, <1>2, <1>4, GoesOnAlone
  <1> QED BY <1>1, <1>3, <1>4

LEMMA HandledAlone ==
    ASSUME TypeInv, OneAtATime, NEW q \in Requests
    PROVE  /\ Start(q) \/ LoadActive(q) \/ NoPick(q) => OneAtATime'
           /\ Refuse(q) \/ Gate(q) \/ NoList(q) \/ Misreads(q) => OneAtATime'
  <1>1. ASSUME Start(q) \/ LoadActive(q) PROVE OneAtATime'
    <2> SUFFICES ASSUME trouble' = 0 PROVE Alone'
      BY DEF OneAtATime
    <2> DEFINE o == Outcome(q)
               z == Working(req[q], o.todo, o.say)
    <2>1. /\ req[q].pc = "load active" \/ (req[q].pc = "start" /\ ~NeedsActive(q))
          /\ Handles(q, o) /\ trouble' = trouble /\ overlapped' = overlapped
      BY <1>1 DEF Start, LoadActive
    <2>2. req[q].pc # "idle" /\ Alone
      BY <2>1 DEF OneAtATime
    <2>3. o # Panic
      BY <2>1 DEF Handles
    <2>4. Proper(o, req[q].text)
      BY <2>1, <2>3, OutcomeProper
    <2>5. o.todo \in Seq(Ops) /\ o.say \in Screen
      BY <2>4 DEF Proper, TodoOK, GoodScreen
    <2>6. Ends(q, o.say) \/ (ses' = ses /\ Only(q, z))
      BY <2>1, <2>5, HandlesIs
    <2>7. req[q] \in Request
      BY <2>2, OwnerIs
    <2>8. z.text = req[q].text /\ z.session = req[q].session
      BY <2>5, <2>7, WorkingIs
    <2> HIDE DEF o, z
    <2>9. CASE Ends(q, o.say)
      BY <2>1, <2>2, <2>5, <2>9, EndsAlone
    <2>10. CASE ses' = ses /\ Only(q, z)
      BY <2>1, <2>2, <2>8, <2>10, GoesOnAlone
    <2> QED BY <2>6, <2>9, <2>10
  <1>2. ASSUME NoPick(q) PROVE OneAtATime'
    <2> SUFFICES ASSUME trouble' = 0 PROVE Alone'
      BY DEF OneAtATime
    <2> DEFINE z == [req[q] EXCEPT !.pc = "load active"]
    <2>1. /\ req[q].pc = "start" /\ req' = [req EXCEPT ![q].pc = "load active"]
          /\ ses' = ses /\ trouble' = trouble /\ overlapped' = overlapped
      BY <1>2 DEF NoPick
    <2>2. req[q].pc # "idle" /\ Alone
      BY <2>1 DEF OneAtATime
    <2>3. req \in [Requests -> Request] /\ req[q] \in Request
      BY TypedIs
    <2>4. z.text = req[q].text /\ z.session = req[q].session /\ z \in Request
      BY <2>3 DEF Request
    <2>5. Only(q, z)
      BY <2>1, <2>3, <2>4 DEF Only
    <2> HIDE DEF z
    <2> QED BY <2>1, <2>2, <2>4, <2>5, GoesOnAlone
  <1>3. ASSUME Refuse(q) \/ Gate(q) \/ NoList(q) \/ Misreads(q) PROVE OneAtATime'
    BY <1>3, SpendingIs DEF Refuse, Gate, NoList, Misreads, OneAtATime
  <1> QED BY <1>1, <1>2, <1>3

LEMMA DiesAlone ==
    ASSUME TypeInv, OneAtATime, NEW q \in Requests, Dies(q)
    PROVE  OneAtATime'
  <1> SUFFICES ASSUME trouble' = 0 PROVE Alone'
    BY DEF OneAtATime
  <1>1. /\ \A p \in Requests : req'[p] = NoRequest
        /\ \A s \in Sessions : ses'[s] = IF ses[s].waiting THEN Shown(ses[s], End) ELSE ses[s]
    BY DiesTyped
  <1>2. overlapped' = overlapped /\ Alone
    BY DEF Dies, OneAtATime
  <1>3. \A s \in Sessions : ses'[s] = ses[s] \/ ses[s].waiting
    BY <1>1
  <1>4. Begun' \subseteq Begun
    BY <1>3 DEF Begun
  <1>5. \A p \in Requests : req'[p].pc = "idle"
    BY <1>1, IdleIs
  <1> QED BY <1>2, <1>4, <1>5, AloneStays

LEMMA WorkAlone ==
    ASSUME TypeInv, OneAtATime, NEW q \in Requests
    PROVE  /\ Writes(q) \/ Pays(q) \/ Mirrors(q) => OneAtATime'
           /\ PayFails(q) \/ PaysAndErrs(q) => OneAtATime'
           /\ WorkFails(q) => OneAtATime'
  <1>1. ASSUME Writes(q) \/ Pays(q) \/ Mirrors(q) PROVE OneAtATime'
    <2> SUFFICES ASSUME trouble' = 0 PROVE Alone'
      BY DEF OneAtATime
    <2>1. /\ req[q].pc = "work" /\ Advance(q)
          /\ trouble' = trouble /\ overlapped' = overlapped
      BY <1>1 DEF Writes, Pays, Buying, Mirrors
    <2> QED BY <2>1, AdvanceAlone DEF OneAtATime
  <1>2. ASSUME PayFails(q) \/ PaysAndErrs(q) PROVE OneAtATime'
    <2> SUFFICES ASSUME trouble' = 0 PROVE Alone'
      BY DEF OneAtATime
    <2> DEFINE z == Left(req[q], <<Del(CatKey)>>)
    <2>1. /\ Buying(q) /\ trouble' = trouble /\ overlapped' = overlapped
          /\ Errs(q) \/ Ends(q, End)
      BY <1>2 DEF PayFails, PaysAndErrs
    <2>2. req[q].pc # "idle" /\ Alone /\ End \in Screen
      BY <2>1, ScreensAre DEF OneAtATime, Buying
    <2>3. Ends(q, End) \/ (ses' = ses /\ Only(q, z))
      BY <2>1, ErrsIs
    <2>4. z.text = req[q].text /\ z.session = req[q].session
      BY TypedIs DEF Left, Request
    <2> HIDE DEF z
    <2>5. CASE Ends(q, End)
      BY <2>1, <2>2, <2>5, EndsAlone
    <2>6. CASE ses' = ses /\ Only(q, z)
      BY <2>1, <2>2, <2>4, <2>6, GoesOnAlone
    <2> QED BY <2>3, <2>5, <2>6
  <1>3. ASSUME WorkFails(q) PROVE OneAtATime'
    BY <1>3, SpendingIs DEF WorkFails, OneAtATime
  <1> QED BY <1>1, <1>2, <1>3

LEMMA NextAlone ==
    ASSUME TypeInv, OneAtATime, [Next]_vars
    PROVE  OneAtATime'
  <1>1. ASSUME NEW q \in Requests, Step(q) PROVE OneAtATime'
    BY <1>1, HandledAlone, DiesAlone, WorkAlone DEF Step
  <1>2. ASSUME NEW s \in Sessions, Leaves(s) PROVE OneAtATime'
    BY <1>2, LeavesAlone
  <1>3. ASSUME (\E k \in Keys : Expire(k)) \/ ListChanges PROVE OneAtATime'
    BY <1>3, SpendingIs DEF Expire, ListChanges, OneAtATime
  <1>4. ASSUME UNCHANGED vars PROVE OneAtATime'
    BY <1>4 DEF vars, OneAtATime, Alone, Begun, Awaited
  <1>5. CASE Next
    BY <1>1, <1>2, <1>3, <1>5, UserAlone DEF Next
  <1> QED BY <1>4, <1>5

LEMMA InitAlone ==
    ASSUME Init
    PROVE  OneAtATime
  <1>1. \A s \in Sessions : ses[s].waiting = FALSE /\ ses[s].screen = Ask("nothing")
    BY DEF Init
  <1>2. Ask("nothing").ask = "nothing"
    BY DEF Ask
  <1>3. Begun = {}
    BY <1>1, <1>2 DEF Begun
  <1>4. \A q \in Requests : req[q].pc = "idle"
    BY IdleIs DEF Init
  <1>5. overlapped = {}
    BY DEF Init
  <1> QED BY <1>3, <1>4, <1>5 DEF OneAtATime, Alone

-----------------------------------------------------------------------------
(* Without trouble a saved bank has its row, or the request that saved it,  *)
(* the only one under way, has still to write the row of its last one.      *)
Rows == {b.n : b \in {b \in bought : b.told}}
LastOf(s) == LET mine == {b.n : b \in {b \in bought : b.by = s /\ b.told}}
             IN CHOOSE n \in mine : \A m \in mine : m <= n
Due(q) == req[q].pc = "work" /\ req[q].todo \in MirrorLeft
RowsInv == kind = "bank" /\ trouble = 0 =>
    \/ Rows = mirrored
    \/ \E q \in Requests : Due(q) /\ Rows = mirrored \cup {LastOf(req[q].session)}

LEMMA MirrorHead ==
    ASSUME NEW todo \in MirrorLeft
    PROVE  /\ todo[1].op # "buy"
           /\ todo[1].op = "mirror" => todo = <<Op("mirror")>>
           /\ todo[1].op # "mirror" => todo = <<Del(CatKey), Op("mirror")>>
  <1>1. Op("mirror").op = "mirror" /\ Del(CatKey).op = "del"
    BY OpsAre, Constants
  <1>2. CASE todo = <<Op("mirror")>>
    <2>1. todo[1] = Op("mirror")
      BY <1>2
    <2> QED BY <1>1, <1>2, <2>1
  <1>3. CASE todo = <<Del(CatKey), Op("mirror")>>
    <2>1. todo[1] = Del(CatKey)
      BY <1>3
    <2> QED BY <1>1, <1>3, <2>1
  <1> QED BY <1>2, <1>3 DEF MirrorLeft

LEMMA BankSale ==
    ASSUME NEW todo, NEW say, WorkOK(todo, say), todo # <<>>, todo \in Seq(Ops),
           todo[1].op = "buy", kind = "bank"
    PROVE  Len(todo) # 1 /\ Tail(todo) \in MirrorLeft
  <1>1. todo \notin MirrorLeft
    BY MirrorHead
  <1>2. 1 \in DOMAIN todo
    BY LengthIs
  <1>3. ~Writing(todo)
    BY <1>2 DEF Writing, Stores
  <1>4. PICK d \in Deal : Sale(todo, d)
    BY <1>1, <1>3 DEF WorkOK, TodoOK
  <1>5. todo = <<Buy(d), Del(CatKey), Op("mirror")>>
    BY <1>4 DEF Sale
  <1>6. Len(todo) = 3 /\ Tail(todo) = <<Del(CatKey), Op("mirror")>>
    BY <1>5
  <1> QED BY <1>6 DEF MirrorLeft

LEMMA RowsStay ==
    ASSUME RowsInv, UNCHANGED <<kind, trouble, bought, mirrored>>,
           \A q \in Requests : Due(q) => Due(q)' /\ req'[q].session = req[q].session
    PROVE  RowsInv'
  <1> SUFFICES ASSUME kind = "bank", trouble = 0 PROVE RowsInv'
    BY DEF RowsInv
  <1>1. Rows' = Rows /\ mirrored' = mirrored
    BY DEF Rows
  <1>2. \A s : LastOf(s)' = LastOf(s)
    BY DEF LastOf
  <1>3. CASE Rows = mirrored
    BY <1>1, <1>3 DEF RowsInv
  <1>4. CASE \E q \in Requests : Due(q) /\ Rows = mirrored \cup {LastOf(req[q].session)}
    <2>1. PICK q \in Requests : Due(q) /\ Rows = mirrored \cup {LastOf(req[q].session)}
      BY <1>4
    <2>2. Due(q)' /\ req'[q].session = req[q].session
      BY <2>1
    <2>3. LastOf(req[q].session)' = LastOf(req[q].session)
      BY <2>2 DEF LastOf
    <2> QED BY <1>1, <2>1, <2>2, <2>3 DEF RowsInv
  <1> QED BY <1>3, <1>4 DEF RowsInv

(* Nobody else is at work. *)
LEMMA OnlyOneDue ==
    ASSUME Alone, NEW q \in Requests, req[q].pc # "idle", NEW p \in Requests, Due(p)
    PROVE  p = q
  BY DEF Alone, Due

LEMMA ComesRows ==
    ASSUME RowsInv, NEW q \in Requests, req[q].pc # "work", NEW z, Only(q, z),
           UNCHANGED <<kind, trouble, bought, mirrored>>
    PROVE  RowsInv'
  <1>1. ASSUME NEW p \in Requests, Due(p)
        PROVE  Due(p)' /\ req'[p].session = req[p].session
    <2>1. req'[p] = req[p]
      BY <1>1 DEF Due, Only
    <2> QED BY <1>1, <2>1 DEF Due
  <1> QED BY <1>1, RowsStay

LEMMA WritesRows ==
    ASSUME TypeInv, OneAtATime, RowsInv, NEW q \in Requests, Writes(q)
    PROVE  RowsInv'
  <1> SUFFICES ASSUME kind = "bank", trouble = 0 PROVE RowsInv'
    BY DEF RowsInv, Writes
  <1>1. /\ req[q].pc = "work" /\ Advance(q) /\ Head(req[q].todo).op # "mirror"
        /\ UNCHANGED <<kind, trouble, bought, mirrored>>
    BY DEF Writes
  <1>2. Alone /\ req[q].pc # "idle"
    BY <1>1 DEF OneAtATime
  <1> DEFINE todo == req[q].todo
             z == Left(req[q], Tail(todo))
  <1>3. Head(todo) = todo[1] /\ z.pc = "work" /\ z.todo = Tail(todo)
        /\ z.session = req[q].session
    BY <1>1, WorkIs
  <1>4. ASSUME NEW p \in Requests, Due(p)
        PROVE  Due(p)' /\ req'[p].session = req[p].session
    <2>1. p = q
      BY <1>2, <1>4, OnlyOneDue
    <2>2. todo = <<Del(CatKey), Op("mirror")>>
      BY <1>1, <1>3, <1>4, <2>1, MirrorHead DEF Due
    <2>3. Len(todo) # 1 /\ Tail(todo) = <<Op("mirror")>>
      BY <2>2
    <2>4. Only(q, z)
      BY <1>1, <2>3, AdvanceIs
    <2>5. req'[q] = z
      BY <2>4 DEF Only
    <2> HIDE DEF z
    <2> QED BY <1>3, <2>1, <2>3, <2>5 DEF Due, MirrorLeft
  <1> QED BY <1>1, <1>4, RowsStay

LEMMA NewestIs ==
    ASSUME TypeInv, NEW s \in Sessions, NEW b, b.n = Cardinality(bought) + 1, b.by = s, b.told,
           bought' = bought \cup {b}
    PROVE  LastOf(s)' = b.n
  <1> DEFINE mine == {d.n : d \in {d \in bought' : d.by = s /\ d.told}}
             N == Cardinality(bought)
  <1>1. N \in Nat /\ \A d \in bought : d.n \in Nat /\ d.n <= N
    BY TypedIs, GhostsTyped DEF TypeInv, Numbered
  <1>2. b.n \in mine
    OBVIOUS
  <1>3. \A m \in mine : m \in Nat /\ m <= b.n
    BY <1>1
  <1>4. LastOf(s)' = CHOOSE n \in mine : \A m \in mine : m <= n
    BY DEF LastOf
  <1> HIDE DEF mine, N
  <1>5. \A n \in mine : (\A m \in mine : m <= n) <=> n = b.n
    BY <1>2, <1>3
  <1> QED BY <1>2, <1>4, <1>5

LEMMA PaysRows ==
    ASSUME TypeInv, OneAtATime, RowsInv, NEW q \in Requests, Pays(q)
    PROVE  RowsInv'
  <1> SUFFICES ASSUME kind = "bank", trouble = 0 PROVE RowsInv'
    BY DEF RowsInv, Pays
  <1>0. PICK s \in Sessions : s = req[q].session
    BY OwnerIs DEF Pays, Buying
  <1> DEFINE todo == req[q].todo
             z == Left(req[q], Tail(todo))
  <1>b. PICK b : b = Purchase(q, TRUE)
    OBVIOUS
  <1>1. /\ req[q].pc = "work" /\ Advance(q) /\ Head(todo).op = "buy"
        /\ bought' = bought \cup {b}
        /\ UNCHANGED <<kind, trouble, mirrored>>
    BY <1>b DEF Pays, Buying
  <1>2. Alone /\ req[q].pc # "idle"
    BY <1>1 DEF OneAtATime
  <1>3. Head(todo) = todo[1] /\ z.pc = "work" /\ z.todo = Tail(todo) /\ z.session = s
        /\ s \in Sessions /\ todo # <<>> /\ todo \in Seq(Ops) /\ WorkOK(todo, req[q].say)
    BY <1>0, <1>1, WorkIs
  <1>4. Len(todo) # 1 /\ Tail(todo) \in MirrorLeft
    BY <1>1, <1>3, BankSale
  <1>5. Only(q, z)
    BY <1>1, <1>4, AdvanceIs
  <1>6. req'[q] = z
    BY <1>5 DEF Only
  <1>7. b.n = Cardinality(bought) + 1 /\ b.by = s /\ b.told
    BY <1>0, <1>b DEF Purchase
  <1> HIDE DEF z
  <1>8. Due(q)' /\ req'[q].session = s
    BY <1>3, <1>4, <1>6 DEF Due
  <1>9. ASSUME NEW p \in Requests, Due(p)
        PROVE  FALSE
    <2>1. p = q
      BY <1>2, <1>9, OnlyOneDue
    <2> QED BY <1>1, <1>3, <1>9, <2>1, MirrorHead DEF Due
  <1>10. Rows = mirrored
    BY <1>9 DEF RowsInv
  <1>11. LastOf(s)' = b.n
    BY <1>1, <1>7, NewestIs
  <1>12. Rows' = Rows \cup {b.n}
    BY <1>1, <1>7 DEF Rows
  <1>13. LastOf(req[q].session)' = LastOf(s)'
    BY <1>8 DEF LastOf
  <1>14. Rows' = mirrored' \cup {LastOf(req[q].session)'}
    BY <1>1, <1>10, <1>11, <1>12, <1>13
  <1> QED BY <1>8, <1>14 DEF RowsInv

LEMMA MirrorsRows ==
    ASSUME TypeInv, OneAtATime, RowsInv, NEW q \in Requests, Mirrors(q)
    PROVE  RowsInv'
  <1> SUFFICES ASSUME kind = "bank", trouble = 0 PROVE RowsInv'
    BY DEF RowsInv, Mirrors
  <1>1. /\ req[q].pc = "work" /\ Head(req[q].todo).op = "mirror"
        /\ UNCHANGED <<kind, trouble, bought>>
    BY DEF Mirrors
  <1>2. mirrored' = mirrored \cup {LastOf(req[q].session)}
    BY DEF Mirrors, LastOf
  <1>3. Alone /\ req[q].pc # "idle"
    BY <1>1 DEF OneAtATime
  <1>4. req[q].todo \in MirrorLeft
    <2>1. req[q].todo[1].op = "mirror"
      BY <1>1, WorkIs
    <2> QED BY <1>1, <2>1, WorkerIs, HeadIs
  <1>5. \E b \in bought : b.by = req[q].session /\ b.told
    BY <1>1, <1>4 DEF TypeInv, MirrorsBought
  <1>6. LastOf(req[q].session) \in {b.n : b \in {b \in bought : b.by = req[q].session /\ b.told}}
    BY <1>5, LastIs DEF LastOf
  <1>7. LastOf(req[q].session) \in Rows
    BY <1>6 DEF Rows
  <1>8. Rows = mirrored'
    <2>1. CASE Rows = mirrored
      BY <1>2, <1>7, <2>1
    <2>2. CASE \E p \in Requests : Due(p) /\ Rows = mirrored \cup {LastOf(req[p].session)}
      <3>1. PICK p \in Requests : Due(p) /\ Rows = mirrored \cup {LastOf(req[p].session)}
        BY <2>2
      <3>2. p = q
        BY <1>3, <3>1, OnlyOneDue
      <3> QED BY <1>2, <3>1, <3>2
    <2> QED BY <2>1, <2>2 DEF RowsInv
  <1>9. Rows' = Rows
    BY <1>1 DEF Rows
  <1> QED BY <1>8, <1>9 DEF RowsInv

(* Every other step of one that is under way and has no row to write. *)
LEMMA IdleRows ==
    ASSUME OneAtATime, RowsInv, NEW q \in Requests, req[q].pc # "idle", ~Due(q),
           UNCHANGED <<kind, trouble, bought, mirrored>>
    PROVE  RowsInv'
  <1> SUFFICES ASSUME trouble = 0 PROVE RowsInv'
    BY DEF RowsInv
  <1>1. \A p \in Requests : ~Due(p)
    BY OnlyOneDue DEF OneAtATime
  <1> QED BY <1>1, RowsStay

(* A row is not due yet where something is bought. *)
LEMMA BuyingRows ==
    ASSUME TypeInv, NEW q \in Requests, Buying(q)
    PROVE  req[q].pc # "idle" /\ ~Due(q)
  <1>1. req[q].pc = "work" /\ req[q].todo[1].op = "buy"
    BY WorkerIs DEF Buying
  <1> QED BY <1>1, MirrorHead DEF Due

(* What nobody was told of has no row. *)
LEMMA UntoldRows ==
    ASSUME TypeInv, OneAtATime, RowsInv, NEW q \in Requests, PaysAndErrs(q)
    PROVE  RowsInv'
  <1> SUFFICES ASSUME kind = "bank", trouble = 0 PROVE RowsInv'
    BY DEF RowsInv, PaysAndErrs
  <1>1. PICK b : b = Purchase(q, FALSE)
    OBVIOUS
  <1>2. Buying(q) /\ bought' = bought \cup {b} /\ mirrored' = mirrored
    BY <1>1 DEF PaysAndErrs
  <1>3. ~b.told
    BY <1>1 DEF Purchase
  <1>4. Rows' = Rows
    BY <1>2, <1>3 DEF Rows
  <1>5. \A p \in Requests : ~Due(p)
    BY <1>2, BuyingRows, OnlyOneDue DEF OneAtATime
  <1> QED BY <1>2, <1>4, <1>5 DEF RowsInv

LEMMA StepRows ==
    ASSUME TypeInv, OneAtATime, RowsInv, NEW q \in Requests, Step(q)
    PROVE  RowsInv'
  <1>1. CASE Start(q) \/ LoadActive(q) \/ NoPick(q)
    <2>1. /\ req[q].pc # "idle" /\ req[q].pc # "work"
          /\ UNCHANGED <<kind, trouble, bought, mirrored>>
      BY <1>1 DEF Start, LoadActive, NoPick
    <2> QED BY <2>1, IdleRows DEF Due
  <1>2. CASE Dies(q)
    <2>1. UNCHANGED <<kind, trouble, bought, mirrored>>
      BY <1>2 DEF Dies
    <2>2. CASE kind = "swap" /\ req[q].pc = "work"
      BY <2>1, <2>2 DEF RowsInv
    <2>3. CASE req[q].pc = "start" \/ req[q].pc = "load active"
      BY <2>1, <2>3, IdleRows DEF Due
    <2> QED BY <1>2, <2>2, <2>3 DEF Dies
  <1>3. CASE Refuse(q) \/ Gate(q) \/ NoList(q) \/ Misreads(q) \/ WorkFails(q)
    BY <1>3, SpendingIs DEF Refuse, Gate, NoList, Misreads, WorkFails, RowsInv
  <1>4. CASE PayFails(q)
    <2>1. Buying(q) /\ UNCHANGED <<kind, trouble, bought, mirrored>>
      BY <1>4 DEF PayFails
    <2> QED BY <2>1, BuyingRows, IdleRows
  <1> QED BY <1>1, <1>2, <1>3, <1>4, WritesRows, PaysRows, UntoldRows, MirrorsRows DEF Step

LEMMA ArrivesRows ==
    ASSUME TypeInv, RowsInv, NEW q \in Requests, NEW s, NEW t, Arrives(q, s, t),
           UNCHANGED <<kind, trouble, bought, mirrored>>
    PROVE  RowsInv'
  <1>1. /\ req[q].pc = "idle"
        /\ req' = [req EXCEPT ![q] = [NoRequest EXCEPT !.pc = "start", !.session = s,
                                                       !.text = t]]
    BY DEF Arrives
  <1>2. req \in [Requests -> Request]
    BY TypedIs
  <1>3. ASSUME NEW p \in Requests, Due(p)
        PROVE  Due(p)' /\ req'[p].session = req[p].session
    <2>1. p # q
      BY <1>1, <1>3 DEF Due
    <2>2. req'[p] = req[p]
      BY <1>1, <1>2, <2>1
    <2> QED BY <1>3, <2>2 DEF Due
  <1> QED BY <1>3, RowsStay

LEMMA UserRows ==
    ASSUME TypeInv, RowsInv, NEW q \in Requests, NEW s \in Sessions
    PROVE  Begin(q, s) \/ Answers(q, s) \/ GoesBack(q, s) \/ Repeat(q, s) => RowsInv'
  <1>1. ASSUME Begin(q, s) PROVE RowsInv'
    <2>1. Arrives(q, s, <<>>) /\ UNCHANGED <<kind, bought, mirrored>>
          /\ (trouble' = trouble \/ trouble' = trouble + 2)
      BY <1>1 DEF Begin
    <2>2. CASE trouble' = trouble
      BY <2>1, <2>2, ArrivesRows
    <2>3. CASE trouble' = trouble + 2
      BY <2>1, <2>3, SpendingIs DEF RowsInv
    <2> QED BY <2>1, <2>2, <2>3
  <1>2. ASSUME NEW seg, Type(q, s, seg) PROVE RowsInv'
    <2>1. /\ Arrives(q, s, Press(ses[s].text, seg))
          /\ UNCHANGED <<kind, trouble, bought, mirrored>>
      BY <1>2 DEF Type
    <2> QED BY <2>1, ArrivesRows
  <1>3. ASSUME Repeat(q, s) PROVE RowsInv'
    BY <1>3, SpendingIs DEF Repeat, RowsInv
  <1> QED BY <1>1, <1>2, <1>3 DEF Answers, GoesBack

LEMMA NextRows ==
    ASSUME TypeInv, OneAtATime, RowsInv, [Next]_vars
    PROVE  RowsInv'
  <1>1. ASSUME NEW s \in Sessions, Leaves(s) PROVE RowsInv'
    <2>1. UNCHANGED <<kind, trouble, bought, mirrored, req>>
      BY <1>1 DEF Leaves
    <2>2. \A q \in Requests : Due(q) => Due(q)' /\ req'[q].session = req[q].session
      BY <2>1 DEF Due
    <2> QED BY <2>1, <2>2, RowsStay
  <1>2. ASSUME (\E k \in Keys : Expire(k)) \/ ListChanges PROVE RowsInv'
    BY <1>2, SpendingIs DEF Expire, ListChanges, RowsInv
  <1>3. ASSUME UNCHANGED vars PROVE RowsInv'
    <2>1. UNCHANGED <<kind, trouble, bought, mirrored, req>>
      BY <1>3 DEF vars
    <2>2. \A q \in Requests : Due(q) => Due(q)' /\ req'[q].session = req[q].session
      BY <2>1 DEF Due
    <2> QED BY <2>1, <2>2, RowsStay
  <1>4. CASE Next
    BY <1>1, <1>2, <1>4, UserRows, StepRows DEF Next
  <1> QED BY <1>3, <1>4

LEMMA InitRows ==
    ASSUME Init
    PROVE  RowsInv
  BY DEF Init, RowsInv, Rows

(* Without trouble there is one session at a time, with one request. *)
LEMMA VendAlone == Spec => [](TypeInv /\ OneAtATime)
  <1>1. Init => TypeInv /\ OneAtATime
    BY InitTyped, InitAlone
  <1>2. TypeInv /\ OneAtATime /\ [Next]_vars => TypeInv' /\ OneAtATime'
    BY NextTyped, NextAlone
  <1> QED BY <1>1, <1>2, PTL DEF Spec

(* A bank that PAJ has saved has its row in user_paj_bank_accounts, or the  *)
(* request that saved it has still to write it, unless a call failed.       *)
THEOREM VendRowsMirrored == Spec => []SavedBankIsMirrored
  <1>1. Init => RowsInv
    BY InitRows
  <1>2. TypeInv /\ OneAtATime /\ RowsInv /\ [Next]_vars => RowsInv'
    BY NextRows
  <1>3. ASSUME TypeInv, RowsInv
        PROVE  SavedBankIsMirrored
    <2>0. trouble = 0 \/ trouble > 0
      BY <1>3, SpendingIs
    <2> SUFFICES ASSUME kind = "bank", trouble = 0,
                        {b.n : b \in {b \in bought : b.told}} # mirrored
                 PROVE  \E q \in Requests :
                           req[q].pc = "work" /\ Op("mirror") \in ToSet(req[q].todo)
      BY <2>0 DEF SavedBankIsMirrored
    <2>1. PICK q \in Requests : Due(q)
      BY <1>3 DEF RowsInv, Rows
    <2>2. CASE req[q].todo = <<Op("mirror")>>
      <3>1. 1 \in DOMAIN req[q].todo /\ req[q].todo[1] = Op("mirror")
        BY <2>2
      <3> QED BY <2>1, <3>1 DEF ToSet, Due
    <2>3. CASE req[q].todo = <<Del(CatKey), Op("mirror")>>
      <3>1. 2 \in DOMAIN req[q].todo /\ req[q].todo[2] = Op("mirror")
        BY <2>3
      <3> QED BY <2>1, <3>1 DEF ToSet, Due
    <2> QED BY <2>1, <2>2, <2>3 DEF Due, MirrorLeft
  <1> QED BY <1>1, <1>2, <1>3, VendAlone, PTL DEF Spec

-----------------------------------------------------------------------------
(* Without trouble what the screen offers is taken: the answer to a pick    *)
(* that is under way, or on the screen, goes on from it.                   *)

(* What the request y will say, if nothing comes between. *)
Said(r, v, y) == IF y.pc = "work" THEN y.say ELSE Reply(r, v, y.text).say
Awaits(x, say) == x.picked # "nothing" => Onward(say, x.picked, x.text)
Kept(x, s, gone) ==
    /\ x.text = <<>> => x.picked = "nothing"
    /\ ~x.waiting => s \in gone \/ x.screen.ask = "nothing" \/ Awaits(x, x.screen)
Settled ==
    /\ disturbed = {}
    /\ \A s \in Sessions : Kept(ses[s], s, lost)
    /\ \A q \in Requests : req[q].pc # "idle" =>
          Awaits(ses[req[q].session], Said(redis, current, req[q]))
PicksInv == trouble = 0 => Settled

SettledNext ==
    /\ disturbed' = {}
    /\ \A s \in Sessions : Kept(ses'[s], s, lost')
    /\ \A q \in Requests : req'[q].pc # "idle" =>
          Awaits(ses'[req'[q].session], Said(redis', current', req'[q]))

LEMMA SameReply ==
    ASSUME kind' = kind, current' = current
    PROVE  /\ \A r, v, t : Reply(r, v, t)' = Reply(r, v, t)
           /\ \A say, picked, t : Onward(say, picked, t)' <=> Onward(say, picked, t)
  <1>1. \A t : CopyKey(t)' = CopyKey(t)
    BY DEF CopyKey
  <1>2. \A t, c, v : BetOrCable(t, c, v)' = BetOrCable(t, c, v)
    BY DEF BetOrCable
  <1>3. \A t, list : Listed(t, list)' = Listed(t, list)
    BY DEF Listed
  <1>4. \A t, p, c, v : Respond(t, p, c, v)' = Respond(t, p, c, v)
    BY <1>2, <1>3 DEF Respond
  <1>5. \A r, v, t : Reply(r, v, t)' = Reply(r, v, t)
    BY <1>1, <1>4 DEF Reply
  <1>6. \A say, picked, t : Onward(say, picked, t)' <=> Onward(say, picked, t)
    BY DEF Onward, MistakeStays
  <1> QED BY <1>5, <1>6

LEMMA SettledStays ==
    ASSUME kind' = kind, current' = current, SettledNext
    PROVE  Settled'
  <1>1. \A r, v, y : Said(r, v, y)' = Said(r, v, y)
    BY SameReply DEF Said
  <1>2. \A x, say : Awaits(x, say)' <=> Awaits(x, say)
    BY SameReply DEF Awaits
  <1>3. \A x, s, gone : Kept(x, s, gone)' <=> Kept(x, s, gone)
    BY <1>2 DEF Kept
  <1>4. (\A s \in Sessions : Kept(ses[s], s, lost))'
    BY <1>3 DEF SettledNext
  <1>5. ASSUME NEW q \in Requests, req'[q].pc # "idle"
        PROVE  Awaits(ses[req[q].session], Said(redis, current, req[q]))'
    <2>1. Awaits(ses'[req'[q].session], Said(redis', current', req'[q]))
      BY <1>5 DEF SettledNext
    <2>2. Said(redis, current, req[q])' = Said(redis', current', req'[q])
      BY <1>1
    <2> QED BY <1>2, <2>1, <2>2
  <1> QED BY <1>4, <1>5 DEF Settled, SettledNext

(* The only request ends, or goes on. *)
LEMMA EndsSettled ==
    ASSUME TypeInv, Alone, Settled, NEW q \in Requests, req[q].pc # "idle",
           NEW screen \in Screen, Ends(q, screen), Awaits(ses[req[q].session], screen),
           disturbed' = {}, lost' = lost
    PROVE  SettledNext
  <1>1. /\ req[q].session \in Sessions
        /\ req'[q] = NoRequest /\ \A p \in Requests \ {q} : req'[p] = req[p]
        /\ Awaited(q) => ses'[req[q].session] = Shown(ses[req[q].session], screen)
        /\ \A s \in Sessions : ~Awaited(q) \/ s # req[q].session => ses'[s] = ses[s]
    BY EndsIs
  <1>2. \A p \in Requests : req'[p].pc = "idle"
    BY <1>1, IdleIs DEF Alone
  <1>3. ASSUME NEW x \in Session, Awaits(x, screen), NEW s, Kept(x, s, lost)
        PROVE  Kept(Shown(x, screen), s, lost)
    <2> DEFINE z == Shown(x, screen)
    <2>1. z.screen = screen /\ z.text = x.text /\ z.picked = x.picked
      BY <1>3, ShownIs
    <2> HIDE DEF z
    <2>2. Awaits(z, z.screen)
      BY <1>3, <2>1 DEF Awaits
    <2> QED BY <1>3, <2>1, <2>2 DEF Kept, z
  <1>4. ASSUME NEW s \in Sessions PROVE Kept(ses'[s], s, lost)
    <2>1. Kept(ses[s], s, lost) /\ ses[s] \in Session
      BY TypedIs DEF Settled
    <2>2. CASE ses'[s] = ses[s]
      BY <2>1, <2>2
    <2>3. CASE ses'[s] # ses[s]
      <3>1. s = req[q].session /\ ses'[s] = Shown(ses[s], screen)
        BY <1>1, <2>3
      <3> QED BY <1>3, <2>1, <3>1
    <2> QED BY <2>2, <2>3
  <1> QED BY <1>2, <1>4 DEF SettledNext

LEMMA GoesOnSettled ==
    ASSUME TypeInv, Alone, Settled, NEW q \in Requests, req[q].pc # "idle",
           NEW z, Only(q, z), z.session = req[q].session, ses' = ses,
           Awaits(ses[req[q].session], Said(redis', current', z)),
           disturbed' = {}, lost' = lost
    PROVE  SettledNext
  <1>1. ASSUME NEW p \in Requests, req'[p].pc # "idle"
        PROVE  Awaits(ses'[req'[p].session], Said(redis', current', req'[p]))
    <2>1. p = q
      BY <1>1 DEF Only, Alone
    <2>2. req'[p] = z
      BY <2>1 DEF Only
    <2> QED BY <2>2
  <1> QED BY <1>1 DEF SettledNext, Settled

(* Without trouble no session's ground is disturbed. *)
LEMMA SettledIs ==
    ASSUME TypeInv, WishInv, OneAtATime, PicksInv, trouble = 0
    PROVE  /\ Alone /\ Settled /\ disturbed = {}
           /\ \A s \in Sessions : Right(redis, current, ses[s], req, bought, s \in lost, s)
  <1>1. Alone /\ Settled
    BY DEF OneAtATime, PicksInv
  <1>2. \A s \in Sessions : Clean(s)
    BY <1>1 DEF Alone, Settled, Clean
  <1> QED BY <1>1, <1>2 DEF WishInv, Settled

(* What the request comes to is what was said of it. *)
LEMMA OutcomeReply ==
    ASSUME TypeInv, NEW q \in Requests,
           req[q].pc = "load active" \/ (req[q].pc = "start" /\ ~NeedsActive(q)),
           NEW s \in Sessions, s = req[q].session,
           Right(redis, current, ses[s], req, bought, s \in lost, s)
    PROVE  Outcome(q) = Reply(redis, current, req[q].text)
  <1> DEFINE t == req[q].text
  <1>1. CASE req[q].pc = "start"
    <2>1. ~(kind = "elect" /\ t # <<>> /\ redis[PickKey] = Absent)
      BY <1>1 DEF NeedsActive
    <2> QED BY <1>1, <2>1 DEF Outcome, Reply
  <1>2. CASE req[q].pc = "load active"
    <2>1. /\ ses[s] \in Session /\ SessionOK(ses[s]) /\ RequestOK(req[q])
          /\ Okay(redis, current, ses[s], req[q], Of(bought, s), s \in lost)
          /\ t = ses[s].text
      BY <1>2, OwnerIs
    <2>2. kind = "elect" /\ t # <<>>
      BY <1>2, <2>1 DEF RequestOK
    <2>3. kind \in Kinds
      BY TypedIs
    <2>4. Started(ses[s])
      BY <2>1, <2>2, <2>3, NotStarted
    <2>5. redis[PickKey] = Absent
      BY <1>2, <2>1, <2>4 DEF Okay, Works
    <2> QED BY <1>2, <2>2, <2>5 DEF Outcome, Reply
  <1> QED BY <1>1, <1>2

LEMMA HandledSettled ==
    ASSUME TypeInv, WishInv, OneAtATime, PicksInv, trouble = 0, NEW q \in Requests,
           Start(q) \/ LoadActive(q)
    PROVE  SettledNext
  <1>1. Alone /\ Settled /\ disturbed = {}
        /\ \A s \in Sessions : Right(redis, current, ses[s], req, bought, s \in lost, s)
    BY SettledIs
  <1> DEFINE o == Outcome(q)
             z == Working(req[q], o.todo, o.say)
  <1>2. /\ req[q].pc = "load active" \/ (req[q].pc = "start" /\ ~NeedsActive(q))
        /\ Handles(q, o) /\ redis' = redis /\ current' = current
        /\ disturbed' = disturbed /\ lost' = lost
    BY DEF Start, LoadActive
  <1>3. req[q].pc # "idle" /\ req[q].pc # "work" /\ o # Panic
    BY <1>2 DEF Handles
  <1>4. req[q] \in Request /\ req[q].session \in Sessions
    BY <1>3, OwnerIs
  <1>5. o = Reply(redis, current, req[q].text)
    BY <1>1, <1>2, <1>4, OutcomeReply
  <1>6. Awaits(ses[req[q].session], o.say)
    BY <1>1, <1>3, <1>5 DEF Settled, Said
  <1>7. Proper(o, req[q].text)
    BY <1>2, <1>3, OutcomeProper
  <1>8. o.todo \in Seq(Ops) /\ o.say \in Screen
    BY <1>7 DEF Proper, TodoOK, GoodScreen
  <1>9. Ends(q, o.say) \/ (ses' = ses /\ Only(q, z))
    BY <1>2, <1>8, HandlesIs
  <1>10. z.session = req[q].session /\ z.pc = "work" /\ z.say = o.say
    BY <1>4, <1>8, WorkingIs
  <1> HIDE DEF o, z
  <1>11. CASE Ends(q, o.say)
    BY <1>1, <1>2, <1>3, <1>6, <1>8, <1>11, EndsSettled
  <1>12. CASE ses' = ses /\ Only(q, z)
    <2>1. Said(redis', current', z) = o.say
      BY <1>10 DEF Said
    <2> QED BY <1>1, <1>2, <1>3, <1>6, <1>10, <1>12, <2>1, GoesOnSettled
  <1> QED BY <1>9, <1>11, <1>12

LEMMA NoPickSettled ==
    ASSUME TypeInv, WishInv, OneAtATime, PicksInv, trouble = 0, NEW q \in Requests, NoPick(q)
    PROVE  SettledNext
  <1>1. Alone /\ Settled /\ disturbed = {}
    BY SettledIs
  <1> DEFINE z == [req[q] EXCEPT !.pc = "load active"]
  <1>2. /\ req[q].pc = "start" /\ req' = [req EXCEPT ![q].pc = "load active"]
        /\ ses' = ses /\ redis' = redis /\ current' = current
        /\ disturbed' = disturbed /\ lost' = lost
    BY DEF NoPick
  <1>3. req \in [Requests -> Request] /\ req[q] \in Request
    BY TypedIs
  <1>4. z \in Request /\ z.pc = "load active" /\ z.text = req[q].text
        /\ z.session = req[q].session
    BY <1>3 DEF Request
  <1>5. Only(q, z)
    BY <1>2, <1>3, <1>4 DEF Only
  <1> HIDE DEF z
  <1>6. Said(redis', current', z) = Said(redis, current, req[q])
    BY <1>2, <1>4 DEF Said
  <1>7. Awaits(ses[req[q].session], Said(redis', current', z))
    BY <1>1, <1>2, <1>6 DEF Settled
  <1> QED BY <1>1, <1>2, <1>4, <1>5, <1>7, GoesOnSettled

LEMMA DiesSettled ==
    ASSUME TypeInv, WishInv, OneAtATime, PicksInv, trouble = 0, NEW q \in Requests, Dies(q)
    PROVE  SettledNext
  <1>1. Settled /\ disturbed = {}
    BY SettledIs
  <1>2. /\ disturbed' = disturbed
        /\ lost' = lost \cup {s \in Sessions : ses[s].waiting \/ InFlight(s)}
    BY DEF Dies
  <1>3. /\ \A p \in Requests : req'[p] = NoRequest
        /\ \A s \in Sessions : ses'[s] = IF ses[s].waiting THEN Shown(ses[s], End) ELSE ses[s]
    BY DiesTyped
  <1>4. ASSUME NEW s \in Sessions PROVE Kept(ses'[s], s, lost')
    <2>1. Kept(ses[s], s, lost) /\ ses[s] \in Session /\ End \in Screen
      BY <1>1, TypedIs, ScreensAre DEF Settled
    <2>2. CASE ses[s].waiting
      <3> DEFINE z == Shown(ses[s], End)
      <3>1. z.text = ses[s].text /\ z.picked = ses[s].picked
        BY <2>1, ShownIs
      <3>2. ses'[s] = z /\ s \in lost'
        BY <1>2, <1>3, <2>2
      <3> HIDE DEF z
      <3> QED BY <2>1, <3>1, <3>2 DEF Kept
    <2>3. CASE ~ses[s].waiting
      <3>1. ses'[s] = ses[s] /\ lost \subseteq lost'
        BY <1>2, <1>3, <2>3
      <3> QED BY <2>1, <3>1 DEF Kept
    <2> QED BY <2>2, <2>3
  <1> QED BY <1>1, <1>2, <1>3, <1>4, IdleIs DEF SettledNext

(* The work of the only request disturbs nobody. *)
LEMMA NoneDisturbed ==
    ASSUME TypeInv, Alone, NEW q \in Requests, req[q].pc # "idle"
    PROVE  Disturbs(q) = {}
  <1>1. Awaited(q) /\ req[q].session \in Sessions
    BY OwnerIs DEF Alone
  <1>2. req[q].session \in Begun
    BY <1>1 DEF Begun, Awaited
  <1>3. Begun = {req[q].session}
    BY <1>2 DEF Alone
  <1> QED BY <1>1, <1>3 DEF Disturbs

LEMMA AdvanceSettled ==
    ASSUME TypeInv, Alone, Settled, NEW q \in Requests, req[q].pc = "work", Advance(q),
           disturbed' = {}, lost' = lost
    PROVE  SettledNext
  <1> DEFINE z == Left(req[q], Tail(req[q].todo))
  <1>1. /\ req[q].pc # "idle" /\ req[q].say \in Screen
        /\ Ends(q, req[q].say) \/ (ses' = ses /\ Only(q, z))
    BY AdvanceIs
  <1>2. z.session = req[q].session /\ z.pc = "work" /\ z.say = req[q].say
    BY WorkIs
  <1>3. Awaits(ses[req[q].session], req[q].say)
    BY <1>1 DEF Settled, Said
  <1> HIDE DEF z
  <1>4. CASE Ends(q, req[q].say)
    BY <1>1, <1>3, <1>4, EndsSettled
  <1>5. CASE ses' = ses /\ Only(q, z)
    <2>1. Said(redis', current', z) = req[q].say
      BY <1>2 DEF Said
    <2> QED BY <1>1, <1>2, <1>3, <1>5, <2>1, GoesOnSettled
  <1> QED BY <1>1, <1>4, <1>5

LEMMA WorkSettled ==
    ASSUME TypeInv, WishInv, OneAtATime, PicksInv, trouble = 0, NEW q \in Requests
    PROVE  /\ Writes(q) \/ Pays(q) \/ Mirrors(q) => SettledNext
           /\ PayFails(q) \/ PaysAndErrs(q) => SettledNext
  <1>1. Alone /\ Settled /\ disturbed = {}
    BY SettledIs
  <1>2. ASSUME Writes(q) \/ Pays(q) \/ Mirrors(q) PROVE SettledNext
    <2>1. /\ req[q].pc = "work" /\ Advance(q) /\ lost' = lost
          /\ disturbed' = disturbed \/ disturbed' = disturbed \cup Disturbs(q)
      BY <1>2 DEF Writes, Pays, Buying, Mirrors
    <2>2. disturbed' = {}
      BY <1>1, <2>1, NoneDisturbed
    <2> QED BY <1>1, <2>1, <2>2, AdvanceSettled
  <1>3. ASSUME PayFails(q) \/ PaysAndErrs(q) PROVE SettledNext
    <2> DEFINE z == Left(req[q], <<Del(CatKey)>>)
    <2>1. /\ Buying(q)
          /\ Errs(q) \/ Ends(q, End)
          /\ redis' = redis /\ current' = current /\ disturbed' = {} /\ lost' = lost
      BY <1>1, <1>3 DEF PayFails, PaysAndErrs
    <2>2. req[q].pc = "work" /\ req[q].say = End /\ End \in Screen
      <3>1. /\ req[q].pc = "work" /\ req[q].todo \in Seq(Ops) /\ req[q].todo # <<>>
            /\ req[q].todo[1].op = "buy" /\ WorkOK(req[q].todo, req[q].say)
        BY <2>1, WorkerIs DEF Buying
      <3> QED BY <3>1, SaleHead, ScreensAre
    <2>3. Awaits(ses[req[q].session], End)
      BY <1>1, <2>2 DEF Settled, Said
    <2>4. Ends(q, End) \/ (ses' = ses /\ Only(q, z))
      BY <2>1, ErrsIs
    <2>5. z.session = req[q].session /\ z.pc = "work" /\ z.say = End
      BY <2>2, TypedIs DEF Left, Request
    <2> HIDE DEF z
    <2>6. CASE Ends(q, End)
      BY <1>1, <2>1, <2>2, <2>3, <2>6, EndsSettled
    <2>7. CASE ses' = ses /\ Only(q, z)
      <3>1. Said(redis', current', z) = End
        BY <2>5 DEF Said
      <3> QED BY <1>1, <2>1, <2>2, <2>3, <2>5, <2>7, <3>1, GoesOnSettled
    <2> QED BY <2>4, <2>6, <2>7
  <1> QED BY <1>2, <1>3

(* A request comes in when none is under way. *)
LEMMA ComesInSettled ==
    ASSUME Settled, \A p \in Requests : req[p].pc = "idle", disturbed' = {}, lost' = lost,
           NEW q \in Requests, NEW y, Only(q, y), NEW s \in Sessions, y.session = s,
           NEW z, OnlySession(s, z), z.waiting = TRUE, z.text = <<>> => z.picked = "nothing",
           Awaits(z, Said(redis', current', y))
    PROVE  SettledNext
  <1>1. ASSUME NEW o \in Sessions PROVE Kept(ses'[o], o, lost')
    <2>1. CASE o = s
      BY <2>1 DEF OnlySession, Kept
    <2>2. CASE o # s
      BY <2>2 DEF OnlySession, Settled
    <2> QED BY <2>1, <2>2
  <1>2. ASSUME NEW p \in Requests, req'[p].pc # "idle"
        PROVE  Awaits(ses'[req'[p].session], Said(redis', current', req'[p]))
    <2>1. p = q
      BY <1>2 DEF Only
    <2>2. req'[p] = y /\ ses'[s] = z
      BY <2>1 DEF Only, OnlySession
    <2> QED BY <2>2
  <1> QED BY <1>1, <1>2 DEF SettledNext

LEMMA BeginSettled ==
    ASSUME TypeInv, WishInv, OneAtATime, PicksInv, trouble = 0, trouble' = 0,
           NEW q \in Requests, NEW s \in Sessions, Begin(q, s)
    PROVE  SettledNext
  <1>1. Alone /\ Settled /\ disturbed = {}
    BY SettledIs
  <1>2. Begun = {} /\ disturbed' = {} /\ lost' = lost
    BY <1>1 DEF Begin
  <1>3. \A p \in Requests : req[p].pc = "idle"
    BY <1>1, <1>2, QuietIs
  <1>4. /\ ses[s].text = <<>> /\ Only(q, Incoming(s, <<>>)) /\ OnlySession(s, Opening(ses[s]))
        /\ Incoming(s, <<>>).session = s
    BY BeginIs
  <1> DEFINE z == Opening(ses[s])
             y == Incoming(s, <<>>)
  <1>5. z.waiting = TRUE /\ z.text = ses[s].text /\ z.picked = ses[s].picked
    BY TypedIs, OpeningIs
  <1>6. Only(q, y) /\ OnlySession(s, z) /\ y.session = s
    BY <1>4
  <1> HIDE DEF z, y
  <1>7. z.picked = "nothing"
    BY <1>1, <1>4, <1>5 DEF Settled, Kept
  <1>8. Awaits(z, Said(redis', current', y))
    BY <1>7 DEF Awaits
  <1> QED BY <1>1, <1>2, <1>3, <1>5, <1>6, <1>7, <1>8, ComesInSettled

LEMMA TypeSettled ==
    ASSUME TypeInv, WishInv, OneAtATime, PicksInv, trouble = 0,
           NEW q \in Requests, NEW s \in Sessions, NEW seg, Type(q, s, seg),
           seg \in Sensible(ses[s].screen) \/ (seg = Back /\ ses[s].text # <<>>)
    PROVE  SettledNext
  <1> DEFINE x == ses[s]
             text == Press(x.text, seg)
             y == Incoming(s, text)
             z == Typing(x, seg)
  <1>1. /\ Alone /\ Settled /\ disturbed = {}
        /\ Right(redis, current, x, req, bought, s \in lost, s)
    BY SettledIs
  <1>2. /\ disturbed' = {} /\ lost' = lost /\ redis' = redis /\ current' = current
        /\ ~x.waiting /\ x.screen.ask \notin {"nothing", "end"}
    BY <1>1 DEF Type
  <1>3. s \in Begun /\ \A p \in Begun : p = s
    BY <1>1, <1>2 DEF Alone, Begun
  <1>4. /\ \A p \in Requests : req[p].pc = "idle"
        /\ \A p \in Requests : req[p].session # s
    <2>1. /\ \A p \in Requests : req[p].pc = "idle"
          /\ ~InFlight(s)
      BY <1>1, <1>2, <1>3, QuietIs
    <2> QED BY <2>1 DEF InFlight
  <1>5. Only(q, y) /\ OnlySession(s, z)
    BY TypeIs
  <1>6. y.pc = "start" /\ y.session = s /\ y.text = text
    BY DEF Incoming, NoRequest
  <1>7. /\ x \in Session /\ SessionOK(x) /\ redis \in Redis /\ current \in Lists
        /\ kind \in Kinds /\ x.text \in Texts
    BY TypedIs DEF SessionOK
  <1>8. /\ z.text = text /\ z.waiting = TRUE
        /\ z.picked = IF seg \in Options(x.screen) THEN x.screen.ask ELSE "nothing"
    BY <1>7 DEF Typing, Session
  <1>9. Typed(x.screen) /\ (seg # Back => seg \in Segs /\ text = Append(x.text, seg))
    BY TypeIs
  <1>10. seg \in Options(x.screen) => seg # Back /\ x.screen.ask \in {"group", "item"}
    <2>1. Options(x.screen) \subseteq 1..4
          /\ (Options(x.screen) # {} => x.screen.ask \in {"group", "item"})
      BY <1>9, OptionsAre
    <2> QED BY <2>1 DEF Back
  <1> HIDE DEF x, y, z, text
  <1>11. ASSUME seg \in Options(x.screen)
         PROVE  /\ text # <<>>
                /\ Onward(Reply(redis, current, text).say, x.screen.ask, text)
    <2>1. Okay(redis, current, x, NoRequest, Of(bought, s), s \in lost)
      BY <1>1, <1>4, NoneRight
    <2>2. Counts(redis, current, x.text, x.wish) /\ Shows(redis, current, x.text, x.screen)
      BY <1>2, <2>1 DEF Okay, Trusts, Started
    <2>3. seg \in Segs /\ text = Append(x.text, seg) /\ x.screen.ask \in {"group", "item"}
      BY <1>9, <1>10, <1>11
    <2>4. text # <<>>
      BY <1>7, <2>3, TextIs, AppendTyped
    <2>5. Onward(Reply(redis, current, text).say, x.screen.ask, text)
      BY <1>7, <1>11, <2>2, <2>3, PickTaken
    <2> QED BY <2>4, <2>5
  <1>12. z.text = <<>> => z.picked = "nothing"
    BY <1>8, <1>11
  <1>13. Said(redis', current', y) = Reply(redis, current, text).say
    BY <1>2, <1>6 DEF Said
  <1>14. Awaits(z, Said(redis', current', y))
    BY <1>8, <1>11, <1>13 DEF Awaits
  <1> QED BY <1>1, <1>2, <1>4, <1>5, <1>6, <1>8, <1>12, <1>14, ComesInSettled

LEMMA LeavesSettled ==
    ASSUME TypeInv, WishInv, OneAtATime, PicksInv, trouble = 0, NEW s \in Sessions, Leaves(s)
    PROVE  SettledNext
  <1>1. Alone /\ Settled /\ disturbed = {}
    BY SettledIs
  <1>2. /\ ~ses[s].waiting /\ s \in Begun /\ disturbed' = {} /\ lost' = lost /\ req' = req
    BY <1>1 DEF Leaves, Begun
  <1>3. \A p \in Begun : p = s
    BY <1>1, <1>2 DEF Alone
  <1>4. \A p \in Requests : req[p].pc = "idle"
    BY <1>1, <1>2, <1>3, QuietIs
  <1> DEFINE z == Leaving(ses[s])
  <1>5. OnlySession(s, z)
    BY LeavesTyped
  <1>6. /\ z.screen = Ask("nothing") /\ z.text = ses[s].text /\ z.picked = ses[s].picked
    BY TypedIs, LeavingIs
  <1>7. Ask("nothing").ask = "nothing"
    BY DEF Ask
  <1> HIDE DEF z
  <1>8. Kept(z, s, lost)
    BY <1>1, <1>6, <1>7 DEF Kept, Settled
  <1>9. \A p \in Sessions : Kept(ses'[p], p, lost')
    BY <1>1, <1>2, <1>5, <1>8 DEF OnlySession, Settled
  <1> QED BY <1>2, <1>4, <1>9 DEF SettledNext

LEMMA NextPicks ==
    ASSUME TypeInv, WishInv, OneAtATime, PicksInv, [Next]_vars
    PROVE  PicksInv'
  <1> SUFFICES ASSUME trouble' = 0 PROVE Settled'
    BY DEF PicksInv
  <1>1. CASE UNCHANGED vars
    <2>1. Settled /\ kind' = kind /\ current' = current
      BY <1>1 DEF PicksInv, vars
    <2>2. SettledNext
      BY <1>1, <2>1 DEF Settled, SettledNext, vars
    <2> QED BY <2>1, <2>2, SettledStays
  <1>2. CASE Next
    <2>1. ASSUME NEW q \in Requests, NEW s \in Sessions, Begin(q, s)
          PROVE  SettledNext /\ kind' = kind /\ current' = current
      <3>1. trouble = 0 /\ kind' = kind /\ current' = current
        BY <2>1, SpendingIs DEF Begin
      <3> QED BY <2>1, <3>1, BeginSettled
    <2>2. ASSUME NEW q \in Requests, NEW s \in Sessions, Answers(q, s) \/ GoesBack(q, s)
          PROVE  SettledNext /\ kind' = kind /\ current' = current
      <3>1. PICK seg : /\ Type(q, s, seg)
                       /\ seg \in Sensible(ses[s].screen) \/ (seg = Back /\ ses[s].text # <<>>)
        BY <2>2 DEF Answers, GoesBack
      <3>2. trouble = 0 /\ kind' = kind /\ current' = current
        BY <3>1 DEF Type
      <3> QED BY <3>1, <3>2, TypeSettled
    <2>3. ASSUME NEW s \in Sessions, Leaves(s)
          PROVE  SettledNext /\ kind' = kind /\ current' = current
      <3>1. trouble = 0 /\ kind' = kind /\ current' = current
        BY <2>3 DEF Leaves
      <3> QED BY <2>3, <3>1, LeavesSettled
    <2>4. ASSUME NEW q \in Requests, Start(q) \/ LoadActive(q) \/ NoPick(q) \/ Dies(q)
          PROVE  SettledNext /\ kind' = kind /\ current' = current
      <3>1. trouble = 0 /\ kind' = kind /\ current' = current
        BY <2>4 DEF Start, LoadActive, NoPick, Dies
      <3> QED BY <2>4, <3>1, HandledSettled, NoPickSettled, DiesSettled
    <2>5. ASSUME NEW q \in Requests, Writes(q) \/ Pays(q) \/ PayFails(q)
                                      \/ PaysAndErrs(q) \/ Mirrors(q)
          PROVE  SettledNext /\ kind' = kind /\ current' = current
      <3>1. trouble = 0 /\ kind' = kind /\ current' = current
        BY <2>5 DEF Writes, Pays, PayFails, PaysAndErrs, Mirrors
      <3> QED BY <2>5, <3>1, WorkSettled
    <2>6. ~(\E q \in Requests, s \in Sessions : Repeat(q, s))
          /\ ~(\E q \in Requests : Refuse(q) \/ NoList(q) \/ Misreads(q) \/ Gate(q) \/ WorkFails(q))
          /\ ~((\E k \in Keys : Expire(k)) \/ ListChanges)
      BY SpendingIs DEF Repeat, Refuse, NoList, Misreads, Gate, WorkFails, Expire, ListChanges
    <2>7. SettledNext /\ kind' = kind /\ current' = current
      BY <1>2, <2>1, <2>2, <2>3, <2>4, <2>5, <2>6 DEF Next, Step
    <2> QED BY <2>7, SettledStays
  <1> QED BY <1>1, <1>2

LEMMA InitPicks ==
    ASSUME Init
    PROVE  PicksInv
  <1>1. /\ \A s \in Sessions : ses[s].picked = "nothing"
        /\ \A q \in Requests : req[q].pc = "idle"
        /\ disturbed = {}
    BY IdleIs DEF Init
  <1> QED BY <1>1 DEF PicksInv, Settled, Kept, Awaits

(* A digit that the screen offers is taken: the answer goes on from the     *)
(* group or the item that the user picked, in any of the menus, unless the  *)
(* session was disturbed, lost, or met trouble; but for the segment that    *)
(* data with one plan type skips, and behind a mistake that was answered    *)
(* with the same page.                                                      *)
THEOREM VendValidPickTaken == Spec => []ValidPickIsTaken
  <1>1. Init => PicksInv
    BY InitPicks
  <1>2. TypeInv /\ WishInv /\ OneAtATime /\ PicksInv /\ [Next]_vars => PicksInv'
    BY NextPicks
  <1>3. ASSUME TypeInv, PicksInv
        PROVE  ValidPickIsTaken
    <2>1. trouble = 0 \/ trouble > 0
      BY <1>3, SpendingIs
    <2> SUFFICES ASSUME NEW s \in Sessions, ~ses[s].waiting, ses[s].picked # "nothing",
                        ses[s].screen.ask # "nothing", s \notin lost, trouble = 0
                 PROVE  \/ ses[s].screen.ask \notin {ses[s].picked, "end"}
                        \/ /\ kind = "data" /\ Buckets[ses[s].screen.list] = 1
                           /\ Len(ses[s].text) = 2
                        \/ MistakeStays(ses[s].text)
      BY <2>1 DEF ValidPickIsTaken
    <2>2. Awaits(ses[s], ses[s].screen)
      BY <1>3 DEF PicksInv, Settled, Kept
    <2> QED BY <2>2 DEF Awaits, Onward
  <1> QED BY <1>1, <1>2, <1>3, VendInvariant, VendAlone, PTL DEF Spec

=============================================================================
