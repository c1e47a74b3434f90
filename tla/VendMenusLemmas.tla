---------------------------- MODULE VendMenusLemmas ----------------------------
(***************************************************************************)
(* What a text means to the menus that sell something, and what their      *)
(* handlers reply: lemmas about single requests, for any lists, page size  *)
(* and length of the text.  VendMenusProofs builds on them.                *)
(*                                                                         *)
(* A text is read by a fold, which reads one segment more when the text    *)
(* has one more (ParseAppend).  So each menu has a relation between what   *)
(* Redis holds, the text and the wish (Counts) that an answer extends      *)
(* (AnswerCounts), a Back shortens (BackCounts), and every reply keeps     *)
(* while it is written piece by piece (Promise, RespondReplies).           *)
(***************************************************************************)
EXTENDS VendMenus, FiniteSetTheorems, SequenceTheorems, WellFoundedInduction, TLAPS

Segs == 1..Wrong

Questions == {<<"ident", "amount", "pin">>, <<"amount", "pin">>, <<"pin">>,
              <<"contact", "amount", "pin">>, <<"token", "amount", "pin">>}

(* Which wish an answer fills. *)
Says(w, what, seg) ==
    /\ what = "ident" => w.ident = seg
    /\ what \in {"contact", "token"} => w.contact = seg
    /\ what = "amount" => w.amount = seg

Asked(what, asks) == \E i \in DOMAIN asks : asks[i] = what

(* The wish is the deal so far, with the answers that are accepted. *)
Fits(deal, asks, tail, w) ==
    /\ w.item = deal.item
    /\ deal.under = w.under \/ (kind = "data" /\ Buckets[deal.item.list] = 1)
    /\ ~Asked("ident", asks) => w.ident = deal.ident
    /\ ~Asked("contact", asks) /\ ~Asked("token", asks) => w.contact = deal.contact
    /\ ~Asked("amount", asks) => w.amount = deal.amount
    /\ \A i \in DOMAIN asks \cap DOMAIN tail :
          Accepts(asks[i], tail[i]) => Says(w, asks[i], tail[i])

(* The screen asks for the next answer, or once more for the token. *)
Asking(asks, tail, sc) ==
    \/ /\ Len(tail) < Len(asks) /\ sc = Ask(asks[Len(tail) + 1])
       /\ \A i \in DOMAIN asks \cap DOMAIN tail : Accepts(asks[i], tail[i])
    \/ /\ sc = Ask("token")
       /\ \E i \in DOMAIN asks \cap DOMAIN tail :
             asks[i] = "token" /\ ~Accepts(asks[i], tail[i])

(* What the questions after the pick come to. *)
GoesOn(o, asks, tail) ==
    /\ o = Say(o.say) /\ Asking(asks, tail, o.say)
    /\ o.say \in {Ask(what) : what \in {"ident", "amount", "pin", "contact", "token"}}
    /\ Asked(o.say.ask, asks)
Sells(o, asks, tail, deal, after) ==
    /\ Len(tail) = Len(asks)
    /\ \A i \in DOMAIN asks : Accepts(asks[i], tail[i])
    /\ \E d \in Deal :
          /\ o = Do(<<Buy(d)>> \o after, End)
          /\ d.item = deal.item /\ d.under = deal.under
          /\ \A w \in Deal : Fits(deal, asks, tail, w) => Agrees(d, w)

NavOK(nav, n, count) ==
    /\ nav \in [page: Nat, picked: 0..count, used: 0..n, error: BOOLEAN]
    /\ nav.picked # 0 => nav.used # 0 /\ ~nav.error
    /\ nav.picked = 0 /\ ~nav.error => nav.used = n
    /\ nav.error => nav.used < n

LEMMA Least ==
    ASSUME NEW T \in SUBSET Nat, T # {}
    PROVE  \E m \in T : \A k \in T : m <= k
  <1> DEFINE R == OpToRel(<, Nat)
  <1>1. IsWellFoundedOn(R, Nat)
    BY NatLessThanWellFounded
  <1>2. \A j, k \in Nat : <<j, k>> \in R <=> j < k
    BY DEF OpToRel
  <1> HIDE DEF R
  <1>3. PICK m \in T : \A k \in T : ~ (<<k, m>> \in R)
    BY <1>1, WFMin
  <1>4. ASSUME NEW k \in T PROVE m <= k
    <2>1. k \in Nat /\ m \in Nat
      OBVIOUS
    <2>2. ~(k < m)
      BY <1>2, <1>3, <2>1, Zenon
    <2> QED BY <2>1, <2>2
  <1> QED BY <1>4

LEMMA EveryNumber ==
    ASSUME NEW T \in SUBSET Nat, 0 \in T, \A n \in T : n + 1 \in T
    PROVE  T = Nat
  <1> SUFFICES ASSUME Nat \ T # {} PROVE FALSE
    OBVIOUS
  <1>1. PICK m \in Nat \ T : \A k \in Nat \ T : m <= k
    BY Least
  <1>2. m # 0 /\ m - 1 \in Nat /\ m - 1 \in T
    BY <1>1
  <1> QED BY <1>1, <1>2
(* g reads a text the way the fold does. *)
Reads(g, text, count, prev) == g = [s \in SUBSET (DOMAIN text) |->
    IF s = {} THEN AtStart
    ELSE Read(count, prev, g[s \ {Max(s)}], text[Max(s)])]

LEMMA ParseReads ==
    ASSUME NEW text, NEW count, NEW prev
    PROVE  Parse(text, count, prev)
              = (CHOOSE g : Reads(g, text, count, prev))[DOMAIN text]
  BY DEF Parse, FoldLeft, MapThenFoldSet, Reads

LEMMA MaxOfUpTo ==
    ASSUME NEW m \in Nat, NEW s \in SUBSET (1..m), m \in s
    PROVE  Max(s) = m
  <1>1. \A y \in s : m >= y
    OBVIOUS
  <1>2. \A x \in s : (\A y \in s : x >= y) => x = m
    BY <1>1
  <1> QED BY <1>1, <1>2 DEF Max

(* Right for all sets of places up to m. *)
ReadsUpTo(g, m, text, count, prev) ==
    \A s \in SUBSET (DOMAIN text) : s \subseteq 1..m =>
        g[s] = IF s = {} THEN AtStart
               ELSE Read(count, prev, g[s \ {Max(s)}], text[Max(s)])

LEMMA ReaderUpTo ==
    ASSUME NEW text, DOMAIN text \subseteq Nat, NEW count, NEW prev, NEW m \in Nat
    PROVE  \E g : DOMAIN g = SUBSET (DOMAIN text) /\ ReadsUpTo(g, m, text, count, prev)
  <1> DEFINE Right(k) == \E g : DOMAIN g = SUBSET (DOMAIN text)
                                /\ ReadsUpTo(g, k, text, count, prev)
             T == {k \in Nat : Right(k)}
  <1>1. 0 \in T
    <2> DEFINE g == [s \in SUBSET (DOMAIN text) |-> AtStart]
    <2>1. \A s : s \subseteq 1..0 => s = {}
      OBVIOUS
    <2>2. ReadsUpTo(g, 0, text, count, prev)
      BY <2>1 DEF ReadsUpTo
    <2> QED BY <2>2
  <1>2. ASSUME NEW k \in T PROVE k + 1 \in T
    <2>1. PICK g : DOMAIN g = SUBSET (DOMAIN text) /\ ReadsUpTo(g, k, text, count, prev)
      OBVIOUS
    <2> DEFINE h == [s \in SUBSET (DOMAIN text) |->
                       IF s \subseteq 1..k THEN g[s]
                       ELSE Read(count, prev, g[s \ {Max(s)}], text[Max(s)])]
    <2>2. ASSUME NEW s \in SUBSET (DOMAIN text), s \subseteq 1..(k + 1)
          PROVE  h[s] = IF s = {} THEN AtStart
                        ELSE Read(count, prev, h[s \ {Max(s)}], text[Max(s)])
      <3>1. CASE s \subseteq 1..k
        <4>1. s \ {Max(s)} \subseteq 1..k /\ s \ {Max(s)} \in SUBSET (DOMAIN text)
          BY <3>1
        <4>2. h[s] = g[s] /\ h[s \ {Max(s)}] = g[s \ {Max(s)}]
          BY <3>1, <4>1
        <4> QED BY <3>1, <4>2, <2>1 DEF ReadsUpTo
      <3>2. CASE ~(s \subseteq 1..k)
        <4>1. k + 1 \in s
          BY <3>2, <2>2
        <4>2. Max(s) = k + 1
          BY <4>1, <2>2, MaxOfUpTo
        <4>3. s \ {Max(s)} \subseteq 1..k /\ s \ {Max(s)} \in SUBSET (DOMAIN text)
          BY <4>2, <2>2
        <4>4. h[s \ {Max(s)}] = g[s \ {Max(s)}]
          BY <4>3
        <4>5. h[s] = Read(count, prev, g[s \ {Max(s)}], text[Max(s)]) /\ s # {}
          BY <3>2, <4>1
        <4> QED BY <4>4, <4>5
      <3> QED BY <3>1, <3>2
    <2>3. ReadsUpTo(h, k + 1, text, count, prev)
      BY <2>2 DEF ReadsUpTo
    <2>4. DOMAIN h = SUBSET (DOMAIN text)
      OBVIOUS
    <2> HIDE DEF h
    <2> QED BY <2>3, <2>4
  <1> HIDE DEF Right
  <1>3. T \in SUBSET Nat
    OBVIOUS
  <1> HIDE DEF T
  <1>4. T = Nat
    BY <1>1, <1>2, <1>3, EveryNumber
  <1>5. Right(m)
    BY <1>4 DEF T
  <1> QED BY <1>5 DEF Right

LEMMA ReaderExists ==
    ASSUME NEW S, NEW text \in Seq(S), NEW count, NEW prev
    PROVE  \E g : Reads(g, text, count, prev)
  <1>1. Len(text) \in Nat /\ DOMAIN text = 1..Len(text)
    OBVIOUS
  <1>2. PICK g : DOMAIN g = SUBSET (DOMAIN text)
                 /\ ReadsUpTo(g, Len(text), text, count, prev)
    <2>1. DOMAIN text \subseteq Nat
      BY <1>1
    <2>2. Len(text) \in Nat
      BY <1>1
    <2> QED BY <2>1, <2>2, ReaderUpTo, Zenon
  <1> DEFINE h == [s \in SUBSET (DOMAIN text) |-> g[s]]
  <1>3. ASSUME NEW s \in SUBSET (DOMAIN text)
        PROVE  h[s] = IF s = {} THEN AtStart
                      ELSE Read(count, prev, h[s \ {Max(s)}], text[Max(s)])
    <2>1. s \subseteq 1..Len(text) /\ s \ {Max(s)} \in SUBSET (DOMAIN text)
      BY <1>1
    <2> QED BY <1>2, <2>1 DEF ReadsUpTo
  <1>4. h = [s \in SUBSET (DOMAIN text) |-> h[s]]
    OBVIOUS
  <1> HIDE DEF h
  <1>5. Reads(h, text, count, prev)
    BY <1>3, <1>4 DEF Reads
  <1> QED BY <1>5

(* What one more segment does. *)

LEMMA ParseNothing ==
    ASSUME NEW count, NEW prev
    PROVE  Parse(<<>>, count, prev) = AtStart
  <1> DEFINE g == CHOOSE f : Reads(f, <<>>, count, prev)
  <1>1. Reads(g, <<>>, count, prev)
    BY ReaderExists, <<>> \in Seq(Nat)
  <1>2. Parse(<<>>, count, prev) = g[DOMAIN <<>>]
    BY ParseReads
  <1>3. DOMAIN <<>> = {}
    OBVIOUS
  <1> HIDE DEF g
  <1> QED BY <1>1, <1>2, <1>3 DEF Reads

LEMMA ParseAppend ==
    ASSUME NEW S, NEW text \in Seq(S), NEW seg \in S, NEW count, NEW prev
    PROVE  Parse(Append(text, seg), count, prev)
              = Read(count, prev, Parse(text, count, prev), seg)
  <1> DEFINE longer == Append(text, seg)
             n == Len(text)
             g == CHOOSE f : Reads(f, text, count, prev)
             h == CHOOSE f : Reads(f, longer, count, prev)
             T == {k \in Nat : k <= n => g[1..k] = h[1..k]}
  <1>1. /\ n \in Nat /\ longer \in Seq(S)
        /\ DOMAIN text = 1..n /\ DOMAIN longer = 1..(n + 1)
        /\ longer[n + 1] = seg
        /\ \A i \in 1..n : longer[i] = text[i]
    OBVIOUS
  <1>2. Reads(g, text, count, prev) /\ Reads(h, longer, count, prev)
    BY <1>1, ReaderExists
  <1>3. /\ Parse(text, count, prev) = g[1..n]
        /\ Parse(longer, count, prev) = h[1..(n + 1)]
    BY <1>1, ParseReads
  <1> HIDE DEF g, h, n, longer
  <1>4. 0 \in T
    <2>1. 1..0 = {} /\ {} \in SUBSET (1..n) /\ {} \in SUBSET (1..(n + 1))
      OBVIOUS
    <2> QED BY <2>1, <1>1, <1>2 DEF Reads
  <1>5. ASSUME NEW k \in T PROVE k + 1 \in T
    <2> SUFFICES ASSUME k + 1 <= n PROVE g[1..(k + 1)] = h[1..(k + 1)]
      OBVIOUS
    <2>1. Max(1..(k + 1)) = k + 1
      BY MaxOfUpTo
    <2>2. (1..(k + 1)) \ {k + 1} = 1..k
      OBVIOUS
    <2>3. /\ 1..(k + 1) \in SUBSET (1..n) /\ 1..(k + 1) \in SUBSET (1..(n + 1))
          /\ k + 1 \in 1..(k + 1)
      BY <1>1
    <2>3a. 1..(k + 1) # {}
      BY <2>3
    <2>4. \A s \in SUBSET (1..n) : s # {} =>
             g[s] = Read(count, prev, g[s \ {Max(s)}], text[Max(s)])
      BY <1>1, <1>2 DEF Reads
    <2>5. \A s \in SUBSET (1..(n + 1)) : s # {} =>
             h[s] = Read(count, prev, h[s \ {Max(s)}], longer[Max(s)])
      BY <1>1, <1>2 DEF Reads
    <2>7. g[1..(k + 1)] = Read(count, prev, g[1..k], text[k + 1])
      BY <2>1, <2>2, <2>3, <2>3a, <2>4
    <2>8. h[1..(k + 1)] = Read(count, prev, h[1..k], longer[k + 1])
      BY <2>1, <2>2, <2>3, <2>3a, <2>5
    <2>6. longer[k + 1] = text[k + 1] /\ g[1..k] = h[1..k]
      BY <1>1
    <2> QED BY <2>7, <2>8, <2>6
  <1>6. T \in SUBSET Nat
    OBVIOUS
  <1>7. n \in T
    <2> HIDE DEF T
    <2> QED BY <1>1, <1>4, <1>5, <1>6, EveryNumber
  <1>8. h[1..(n + 1)] = Read(count, prev, h[1..n], longer[n + 1])
    <2>1. Max(1..(n + 1)) = n + 1
      BY <1>1, MaxOfUpTo
    <2>2. (1..(n + 1)) \ {n + 1} = 1..n /\ n + 1 \in 1..(n + 1)
      BY <1>1
    <2>3. 1..(n + 1) # {}
      BY <2>2
    <2> QED BY <2>1, <2>2, <2>3, <1>1, <1>2 DEF Reads
  <1>9. g[1..n] = h[1..n]
    BY <1>7, <1>1
  <1> QED BY <1>1, <1>3, <1>8, <1>9 DEF longer

LEMMA FromTyped ==
    ASSUME NEW S, NEW t \in Seq(S), NEW i \in 1..(Len(t) + 1)
    PROVE  /\ From(t, i) \in Seq(S)
           /\ Len(From(t, i)) = Len(t) + 1 - i
           /\ \A k \in 1..(Len(t) + 1 - i) : From(t, i)[k] = t[i + k - 1]
  BY DEF From

LEMMA FrontTyped ==
    ASSUME NEW S, NEW t \in Seq(S), t # <<>>
    PROVE  /\ Front(t) \in Seq(S) /\ Len(t) \in Nat \ {0}
           /\ Len(Front(t)) = Len(t) - 1
           /\ \A k \in 1..(Len(t) - 1) : Front(t)[k] = t[k]
           /\ t[Len(t)] \in S
           /\ t = Append(Front(t), t[Len(t)])
  <1>1. /\ Front(t) \in Seq(S) /\ Len(t) \in Nat \ {0}
        /\ Len(Front(t)) = Len(t) - 1
        /\ \A k \in 1..(Len(t) - 1) : Front(t)[k] = t[k]
        /\ t[Len(t)] \in S
    <2>1. Len(t) \in Nat /\ Len(t) # 0
      BY EmptySeq
    <2>2. \A k \in 1..(Len(t) - 1) : t[k] \in S
      BY <2>1
    <2> DEFINE m == Len(t) - 1
    <2>3. m \in Nat /\ m <= Len(t)
      BY <2>1
    <2>4. /\ SubSeq(t, 1, m) \in Seq(S)
          /\ Len(SubSeq(t, 1, m)) = m
          /\ \A k \in 1..m : SubSeq(t, 1, m)[k] = t[k]
      <3> HIDE DEF m
      <3> QED BY <2>3
    <2> QED BY <2>1, <2>4 DEF Front
  <1>2. t = Append(Front(t), t[Len(t)])
    <2>1. Append(Front(t), t[Len(t)]) \in Seq(S) /\ Len(Append(Front(t), t[Len(t)])) = Len(t)
      BY <1>1
    <2>2. \A k \in 1..Len(t) : Append(Front(t), t[Len(t)])[k] = t[k]
      BY <1>1
    <2> QED BY <2>1, <2>2, SeqEqual
  <1> QED BY <1>1, <1>2

LEMMA AppendTyped ==
    ASSUME NEW S, NEW t \in Seq(S), NEW e \in S
    PROVE  /\ Append(t, e) \in Seq(S) /\ Append(t, e) # <<>>
           /\ Len(Append(t, e)) = Len(t) + 1
           /\ \A k \in 1..Len(t) : Append(t, e)[k] = t[k]
           /\ Append(t, e)[Len(t) + 1] = e
  OBVIOUS

LEMMA FromAppend ==
    ASSUME NEW S, NEW t \in Seq(S), NEW e \in S, NEW i \in 1..(Len(t) + 1)
    PROVE  From(Append(t, e), i) = Append(From(t, i), e)
  <1> DEFINE f == From(t, i)
             a == Append(t, e)
             b == From(a, i)
             c == Append(f, e)
             n == Len(t)
  <1>1. n \in Nat /\ i \in Nat /\ i >= 1 /\ i <= n + 1
    OBVIOUS
  <1>2. f \in Seq(S) /\ Len(f) = n + 1 - i /\ \A k \in 1..(n + 1 - i) : f[k] = t[i + k - 1]
    BY FromTyped
  <1>3. a \in Seq(S) /\ Len(a) = n + 1 /\ (\A k \in 1..n : a[k] = t[k]) /\ a[n + 1] = e
    BY AppendTyped
  <1> HIDE DEF f, n, a
  <1>4. c \in Seq(S) /\ Len(c) = n + 2 - i
        /\ (\A k \in 1..(n + 1 - i) : c[k] = f[k]) /\ c[n + 2 - i] = e
    <2>1. /\ c \in Seq(S) /\ Len(c) = Len(f) + 1
          /\ (\A k \in 1..Len(f) : c[k] = f[k]) /\ c[Len(f) + 1] = e
      BY <1>2, AppendTyped
    <2> HIDE DEF c
    <2>2. Len(f) + 1 = n + 2 - i
      BY <1>1, <1>2
    <2> QED BY <2>1, <2>2, <1>2
  <1> HIDE DEF c
  <1>5. i \in 1..(Len(a) + 1)
    BY <1>1, <1>3
  <1>6. b \in Seq(S) /\ Len(b) = n + 2 - i /\ \A k \in 1..(n + 2 - i) : b[k] = a[i + k - 1]
    <2>1. /\ b \in Seq(S) /\ Len(b) = Len(a) + 1 - i
          /\ \A k \in 1..(Len(a) + 1 - i) : b[k] = a[i + k - 1]
      BY <1>3, <1>5, FromTyped
    <2>2. Len(a) + 1 - i = n + 2 - i
      BY <1>1, <1>3
    <2> QED BY <2>1, <2>2
  <1> HIDE DEF b
  <1>7. ASSUME NEW k \in 1..(n + 2 - i) PROVE b[k] = c[k]
    <2>1. CASE k = n + 2 - i
      <3>1. i + k - 1 = n + 1
        BY <1>1, <2>1
      <3> QED BY <3>1, <2>1, <1>3, <1>4, <1>6
    <2>2. CASE k # n + 2 - i
      <3>1. k \in 1..(n + 1 - i) /\ i + k - 1 \in 1..n
        BY <1>1, <2>2
      <3> QED BY <3>1, <1>2, <1>3, <1>4, <1>6
    <2> QED BY <2>1, <2>2
  <1>8. b = c
    BY <1>4, <1>6, <1>7, SeqEqual
  <1> QED BY <1>8 DEF b, c, a, f

LEMMA FromFront ==
    ASSUME NEW S, NEW t \in Seq(S), t # <<>>, NEW i \in 1..Len(t)
    PROVE  /\ From(t, i) # <<>>
           /\ From(Front(t), i) = Front(From(t, i))
  <1> DEFINE f == Front(t)  e == t[Len(t)]
  <1>1. f \in Seq(S) /\ e \in S /\ Len(f) = Len(t) - 1 /\ t = Append(f, e) /\ Len(t) \in Nat \ {0}
    BY FrontTyped
  <1> HIDE DEF f, e
  <1>2. i \in 1..(Len(f) + 1)
    BY <1>1
  <1>3. From(t, i) = Append(From(f, i), e)
    BY <1>1, <1>2, FromAppend
  <1>4. From(f, i) \in Seq(S)
    BY <1>1, <1>2, FromTyped
  <1>5. Front(Append(From(f, i), e)) = From(f, i)
    <2> DEFINE g == From(f, i)
    <2> HIDE DEF g
    <2>1. g \in Seq(S)
      BY <1>4 DEF g
    <2>2. /\ Append(g, e) \in Seq(S) /\ Append(g, e) # <<>> /\ Len(Append(g, e)) = Len(g) + 1
          /\ \A k \in 1..Len(g) : Append(g, e)[k] = g[k]
      BY <2>1, <1>1, AppendTyped
    <2>3. /\ Front(Append(g, e)) \in Seq(S) /\ Len(Front(Append(g, e))) = Len(g)
          /\ \A k \in 1..Len(g) : Front(Append(g, e))[k] = g[k]
      <3> DEFINE h == Append(g, e)
      <3> HIDE DEF h
      <3>1. h \in Seq(S) /\ h # <<>> /\ Len(h) = Len(g) + 1
        BY <2>2 DEF h
      <3>2. /\ Front(h) \in Seq(S) /\ Len(Front(h)) = Len(h) - 1
            /\ \A k \in 1..(Len(h) - 1) : Front(h)[k] = h[k]
        BY <3>1, FrontTyped
      <3>3. Len(g) \in Nat
        BY <2>1
      <3> QED BY <3>1, <3>2, <3>3, <2>2 DEF h
    <2>4. Front(Append(g, e)) = g
      BY <2>1, <2>3, SeqEqual
    <2> QED BY <2>4 DEF g
  <1>6. Append(From(f, i), e) # <<>>
    BY <1>1, <1>4, AppendTyped
  <1> QED BY <1>3, <1>5, <1>6 DEF f

LEMMA EveryText ==
    ASSUME NEW S, NEW T \in SUBSET Seq(S), <<>> \in T,
           \A t \in T, e \in S : Append(t, e) \in T
    PROVE  T = Seq(S)
  <1> DEFINE N == {n \in Nat : \A t \in Seq(S) : Len(t) = n => t \in T}
  <1>1. 0 \in N
    <2>1. \A t \in Seq(S) : Len(t) = 0 => t = <<>>
      BY EmptySeq
    <2> QED BY <2>1
  <1>2. ASSUME NEW n \in N PROVE n + 1 \in N
    <2> SUFFICES ASSUME NEW t \in Seq(S), Len(t) = n + 1 PROVE t \in T
      OBVIOUS
    <2>1. t # <<>>
      BY EmptySeq
    <2>2. /\ Front(t) \in Seq(S) /\ Len(Front(t)) = Len(t) - 1 /\ t[Len(t)] \in S
          /\ t = Append(Front(t), t[Len(t)])
      BY <2>1, FrontTyped
    <2>3. Len(Front(t)) = n
      BY <2>2
    <2>4. Front(t) \in T
      BY <2>2, <2>3
    <2> QED BY <2>2, <2>4
  <1>3. N \in SUBSET Nat
    OBVIOUS
  <1> HIDE DEF N
  <1>4. N = Nat
    BY <1>1, <1>2, <1>3, EveryNumber
  <1>5. \A t \in Seq(S) : Len(t) \in N
    BY <1>4
  <1> QED BY <1>5 DEF N

LEMMA ReadOK ==
    ASSUME NEW n \in Nat, NEW count \in Nat, NEW prev \in BOOLEAN, NEW seg \in Segs,
           NEW nav, NavOK(nav, n, count)
    PROVE  /\ NavOK(Read(count, prev, nav, seg), n + 1, count)
           /\ nav.picked # 0 => Read(count, prev, nav, seg) = nav
           /\ nav.picked = 0 /\ Read(count, prev, nav, seg).picked # 0 =>
                /\ ~nav.error /\ seg \in 1..PageSize
                /\ nav.page * PageSize + seg <= count
                /\ Read(count, prev, nav, seg).picked = nav.page * PageSize + seg
                /\ Read(count, prev, nav, seg).used = n + 1
  <1> DEFINE r == Read(count, prev, nav, seg)
  <1>1. nav.page * PageSize \in Nat /\ nav.page \in Nat /\ PageSize \in Nat /\ seg \in Nat
    BY PageAssumption DEF NavOK, Segs, Wrong
  <1> DEFINE Nav == [page: Nat, picked: 0..count, used: 0..(n + 1), error: BOOLEAN]
  <1>2. nav \in Nav /\ nav.used + 1 \in 0..(n + 1) /\ nav.used \in 0..n
    <2>1. nav \in [page: Nat, picked: 0..count, used: 0..n, error: BOOLEAN]
      BY DEF NavOK
    <2>2. \A k \in 0..n : k \in 0..(n + 1) /\ k + 1 \in 0..(n + 1)
      OBVIOUS
    <2> QED BY <2>1, <2>2
  <1>3. CASE nav.error \/ nav.picked # 0
    <2>1. r = nav /\ (nav.error => nav.used < n + 1)
      BY <1>2, <1>3 DEF Read, NavOK
    <2> QED BY <1>2, <1>3, <2>1 DEF NavOK
  <1>4. CASE ~nav.error /\ nav.picked = 0 /\ seg = More /\ HasNext(count, nav.page)
    <2>1. r = [nav EXCEPT !.page = nav.page + 1, !.used = nav.used + 1]
      BY <1>4 DEF Read
    <2>2. nav.used = n
      BY <1>4 DEF NavOK
    <2> HIDE DEF r
    <2>3. r.picked = 0 /\ r.used = n + 1 /\ r.error = FALSE
          /\ r \in Nav
      <3>1. r.picked = nav.picked /\ r.used = nav.used + 1 /\ r.error = nav.error
        BY <2>1, <1>2
      <3>2. nav.page + 1 \in Nat
        BY <1>1
      <3>3. r \in Nav
        BY <2>1, <3>2, <1>2
      <3> QED BY <3>1, <3>3, <2>2, <1>4
    <2>4. NavOK(r, n + 1, count) /\ r.picked = 0
      BY <2>3 DEF NavOK
    <2> QED BY <2>4, <1>4 DEF r
  <1>5. CASE ~nav.error /\ nav.picked = 0 /\ ~(seg = More /\ HasNext(count, nav.page))
             /\ seg = Previous /\ prev /\ nav.page > 0
    <2>1. r = [nav EXCEPT !.page = nav.page - 1, !.used = nav.used + 1]
      BY <1>5 DEF Read
    <2>2. nav.used = n /\ nav.page - 1 \in Nat
      BY <1>5, <1>1 DEF NavOK
    <2> HIDE DEF r
    <2>3. r.picked = 0 /\ r.used = n + 1 /\ r.error = FALSE
          /\ r \in Nav
      <3>1. r.picked = nav.picked /\ r.used = nav.used + 1 /\ r.error = nav.error
        BY <2>1, <1>2
      <3>3. r \in Nav
        BY <2>1, <2>2, <1>2
      <3> QED BY <3>1, <3>3, <2>2, <1>5
    <2>4. NavOK(r, n + 1, count) /\ r.picked = 0
      BY <2>3 DEF NavOK
    <2> QED BY <2>4, <1>5 DEF r
  <1>6. CASE ~nav.error /\ nav.picked = 0 /\ ~(seg = More /\ HasNext(count, nav.page))
             /\ ~(seg = Previous /\ prev /\ nav.page > 0)
             /\ seg \in 1..PageSize /\ nav.page * PageSize + seg <= count
    <2> DEFINE pick == nav.page * PageSize + seg
    <2>1. r = [nav EXCEPT !.picked = pick, !.used = nav.used + 1]
      BY <1>6 DEF Read
    <2>2. nav.used = n
      BY <1>6 DEF NavOK
    <2>3. pick \in 1..count /\ pick <= count /\ pick # 0
      <3>1. \A base \in Nat, k \in 1..PageSize : base + k <= count =>
               base + k \in 1..count /\ base + k # 0
        BY <1>1
      <3> QED BY <3>1, <1>1, <1>6
    <2> HIDE DEF r, pick
    <2>4. r.picked = pick /\ r.used = n + 1 /\ r.error = FALSE
          /\ r \in Nav
      <3>1. r.picked = pick /\ r.used = nav.used + 1 /\ r.error = nav.error
        BY <2>1, <1>2
      <3>2. pick \in 0..count
        BY <2>3
      <3>3. r \in Nav
        BY <2>1, <3>2, <1>2
      <3> QED BY <3>1, <3>3, <2>2, <1>6
    <2>5. NavOK(r, n + 1, count)
      BY <2>3, <2>4 DEF NavOK
    <2> QED BY <2>4, <2>5, <1>6 DEF r, pick
  <1>7. CASE ~nav.error /\ nav.picked = 0 /\ ~(seg = More /\ HasNext(count, nav.page))
             /\ ~(seg = Previous /\ prev /\ nav.page > 0)
             /\ ~(seg \in 1..PageSize /\ nav.page * PageSize + seg <= count)
    <2>1. r = [nav EXCEPT !.error = TRUE]
      BY <1>7 DEF Read
    <2> HIDE DEF r
    <2>2. r.picked = 0 /\ r.error = TRUE /\ r.used < n + 1
          /\ r \in Nav
      <3>1. r.picked = nav.picked /\ r.error = TRUE /\ r.used = nav.used
        BY <2>1, <1>2
      <3>2. nav.used = n
        BY <1>7 DEF NavOK
      <3>3. r \in Nav
        BY <2>1, <1>2
      <3> QED BY <3>1, <3>2, <3>3, <1>7
    <2>3. NavOK(r, n + 1, count) /\ r.picked = 0
      BY <2>2 DEF NavOK
    <2> QED BY <2>3, <1>7 DEF r
  <1> QED BY <1>3, <1>4, <1>5, <1>6, <1>7

LEMMA ParseOK ==
    ASSUME NEW t \in Seq(Segs), NEW count \in Nat, NEW prev \in BOOLEAN
    PROVE  NavOK(Parse(t, count, prev), Len(t), count)
  <1> DEFINE T == {x \in Seq(Segs) : NavOK(Parse(x, count, prev), Len(x), count)}
  <1>1. <<>> \in T
    <2>1. Parse(<<>>, count, prev) = AtStart /\ Len(<<>>) = 0 /\ <<>> \in Seq(Segs)
      BY ParseNothing
    <2>2. NavOK(AtStart, 0, count)
      BY DEF NavOK, AtStart
    <2> QED BY <2>1, <2>2
  <1>2. ASSUME NEW x \in T, NEW e \in Segs PROVE Append(x, e) \in T
    <2>1. x \in Seq(Segs) /\ NavOK(Parse(x, count, prev), Len(x), count) /\ Len(x) \in Nat
      OBVIOUS
    <2>2. Parse(Append(x, e), count, prev) = Read(count, prev, Parse(x, count, prev), e)
      BY <2>1, ParseAppend
    <2>3. NavOK(Parse(Append(x, e), count, prev), Len(x) + 1, count)
      BY <2>1, <2>2, ReadOK
    <2>4. Append(x, e) \in Seq(Segs) /\ Len(Append(x, e)) = Len(x) + 1
      BY <2>1, AppendTyped
    <2> QED BY <2>3, <2>4
  <1>3. T \in SUBSET Seq(Segs)
    OBVIOUS
  <1> HIDE DEF T
  <1>4. T = Seq(Segs)
    BY <1>1, <1>2, <1>3, EveryText
  <1> QED BY <1>4 DEF T

LEMMA QuestionsAre ==
    ASSUME NEW asks \in Questions
    PROVE  /\ Len(asks) \in 1..3 /\ DOMAIN asks = 1..Len(asks)
           /\ \A i \in 1..Len(asks) : asks[i] \in {"ident", "amount", "pin", "contact", "token"}
           /\ \A i, j \in 1..Len(asks) : asks[i] = asks[j] => i = j
           /\ ~(Asked("contact", asks) /\ Asked("token", asks))
           /\ Asked("pin", asks)
           /\ asks[Len(asks)] = "pin"
  <1>1. CASE asks = <<"ident", "amount", "pin">>
    BY <1>1 DEF Asked
  <1>2. CASE asks = <<"amount", "pin">>
    BY <1>2 DEF Asked
  <1>3. CASE asks = <<"pin">>
    BY <1>3 DEF Asked
  <1>4. CASE asks = <<"contact", "amount", "pin">>
    BY <1>4 DEF Asked
  <1>5. CASE asks = <<"token", "amount", "pin">>
    BY <1>5 DEF Asked
  <1> QED BY <1>1, <1>2, <1>3, <1>4, <1>5 DEF Questions

LEMMA AcceptedIs ==
    ASSUME NEW seg \in Segs
    PROVE  /\ Accepts("amount", seg) <=> seg \in Amounts
           /\ Accepts("ident", seg) <=> seg \in Idents
           /\ Accepts("contact", seg) <=> seg \in Idents
           /\ Accepts("token", seg) <=> seg = 1
           /\ Accepts("pin", seg)
  BY DEF Accepts

LEMMA FinishIs ==
    ASSUME NEW asks \in Questions, NEW tail \in Seq(Segs), NEW deal \in Deal, NEW after
    PROVE  \/ Finish(asks, tail, deal, after) = Say(End)
           \/ GoesOn(Finish(asks, tail, deal, after), asks, tail)
           \/ Sells(Finish(asks, tail, deal, after), asks, tail, deal, after)
  <1> DEFINE answered == DOMAIN asks \cap DOMAIN tail
             refused == {i \in answered : ~Accepts(asks[i], tail[i])}
             first == CHOOSE i \in refused : \A j \in refused : i <= j
             entry(what, old) == IF \E i \in answered : asks[i] = what
                                 THEN tail[CHOOSE i \in answered : asks[i] = what]
                                 ELSE old
             n == Len(asks)
             o == Finish(asks, tail, deal, after)
             d == [deal EXCEPT !.ident = entry("ident", @),
                               !.contact = entry("contact", entry("token", @)),
                               !.amount = entry("amount", @)]
  <1>1. /\ n \in 1..3 /\ DOMAIN asks = 1..n
        /\ \A i \in 1..n : asks[i] \in {"ident", "amount", "pin", "contact", "token"}
        /\ \A i, j \in 1..n : asks[i] = asks[j] => i = j
        /\ ~(Asked("contact", asks) /\ Asked("token", asks))
    BY QuestionsAre
  <1>2. /\ Len(tail) \in Nat /\ DOMAIN tail = 1..Len(tail)
        /\ \A i \in 1..Len(tail) : tail[i] \in Segs
    OBVIOUS
  <1>3. o = IF Len(tail) > n THEN Say(End)
            ELSE IF refused # {} THEN Say(IF asks[first] = "token" THEN Ask("token") ELSE End)
            ELSE IF Len(tail) < n THEN Say(Ask(asks[Len(tail) + 1]))
            ELSE Do(<<Buy(d)>> \o after, End)
    BY DEF Finish
  <1> HIDE DEF o
  <1> SUFFICES \/ o = Say(End) \/ GoesOn(o, asks, tail)
               \/ Sells(o, asks, tail, deal, after)
    BY DEF o
  <1>4. CASE Len(tail) > n
    BY <1>3, <1>4
  <1>5. CASE ~(Len(tail) > n) /\ refused # {}
    <2>1. first \in refused
      <3>1. refused \in SUBSET Nat
        BY <1>1
      <3>2. \E m \in refused : \A k \in refused : m <= k
        BY <3>1, <1>5, Least
      <3> HIDE DEF refused
      <3> QED BY <3>2
    <2> HIDE DEF first
    <2>2. CASE asks[first] = "token"
      <3>1. o = Say(Ask("token"))
        BY <1>3, <1>5, <2>2
      <3>2. o.say = Ask("token") /\ o.todo = <<>>
        BY <3>1 DEF Say
      <3>3. Asking(asks, tail, Ask("token"))
        BY <2>1, <2>2 DEF Asking
      <3>4. Asked("token", asks) /\ Ask("token").ask = "token"
        BY <2>1, <2>2 DEF Asked, Ask
      <3> QED BY <3>1, <3>2, <3>3, <3>4 DEF GoesOn
    <2>3. CASE asks[first] # "token"
      BY <1>3, <1>5, <2>3
    <2> QED BY <2>2, <2>3
  <1>6. CASE ~(Len(tail) > n) /\ refused = {} /\ Len(tail) < n
    <2>1. o = Say(Ask(asks[Len(tail) + 1]))
      BY <1>3, <1>6
    <2>2. o.say = Ask(asks[Len(tail) + 1]) /\ o.todo = <<>>
      BY <2>1 DEF Say
    <2>3. \A i \in answered : Accepts(asks[i], tail[i])
      BY <1>6
    <2>4. Len(tail) + 1 \in 1..n
      BY <1>1, <1>2, <1>6
    <2>5. asks[Len(tail) + 1] \in {"ident", "amount", "pin", "contact", "token"}
      BY <1>1, <2>4
    <2>6. Asked(asks[Len(tail) + 1], asks) /\ o.say.ask = asks[Len(tail) + 1]
      BY <1>1, <2>2, <2>4 DEF Asked, Ask
    <2>7. Asking(asks, tail, o.say)
      BY <2>2, <2>3, <1>6 DEF Asking
    <2> QED BY <2>1, <2>2, <2>5, <2>6, <2>7 DEF GoesOn
  <1>7. CASE ~(Len(tail) > n) /\ refused = {} /\ ~(Len(tail) < n)
    <2>1. Len(tail) = n
      <3> DEFINE m == Len(tail)
      <3>1. n \in Nat /\ m \in Nat
        BY <1>1, <1>2
      <3>2. ~(m > n) /\ ~(m < n)
        BY <1>7
      <3> HIDE DEF m, n
      <3>3. m = n
        BY <3>1, <3>2
      <3> QED BY <3>3 DEF m
    <2>1a. answered = 1..n
      BY <1>1, <1>2, <2>1
    <2>2. \A i \in 1..n : Accepts(asks[i], tail[i])
      BY <1>7, <2>1a
    <2>3. o = Do(<<Buy(d)>> \o after, End)
      BY <1>3, <1>7
    <2> HIDE DEF answered
    <2>4. ASSUME NEW i \in 1..n, NEW old PROVE entry(asks[i], old) = tail[i]
      BY <1>1, <2>1, <2>1a
    <2>5. ASSUME NEW what, ~Asked(what, asks), NEW old PROVE entry(what, old) = old
      BY <2>5, <1>1, <2>1a DEF Asked
    <2>6. ASSUME NEW what, Asked(what, asks) PROVE \E i \in 1..n : asks[i] = what
      BY <2>6, <1>1 DEF Asked
    <2>7. ASSUME NEW what, NEW old \in 0..Wrong PROVE entry(what, old) \in 0..Wrong
      <3>1. CASE Asked(what, asks)
        BY <3>1, <2>6, <2>4, <1>2, <2>1 DEF Segs
      <3>2. CASE ~Asked(what, asks)
        BY <3>2, <2>5
      <3> QED BY <3>1, <3>2
    <2>8. /\ d.item = deal.item /\ d.under = deal.under
          /\ d.ident = entry("ident", deal.ident)
          /\ d.contact = entry("contact", entry("token", deal.contact))
          /\ d.amount = entry("amount", deal.amount)
          /\ d \in Deal
      <3>2. /\ entry("ident", deal.ident) \in 0..Wrong
            /\ entry("contact", entry("token", deal.contact)) \in 0..Wrong
            /\ entry("amount", deal.amount) \in 0..Wrong
        <4> HIDE DEF entry
        <4> QED BY <2>7 DEF Deal
      <3> DEFINE x == entry("ident", deal.ident)
                 y == entry("contact", entry("token", deal.contact))
                 z == entry("amount", deal.amount)
      <3>3. d = [deal EXCEPT !.ident = x, !.contact = y, !.amount = z]
        OBVIOUS
      <3>4. x \in 0..Wrong /\ y \in 0..Wrong /\ z \in 0..Wrong
        BY <3>2
      <3> HIDE DEF entry, d, x, y, z
      <3>5. d.item = deal.item /\ d.under = deal.under /\ d.ident = x /\ d.contact = y
            /\ d.amount = z /\ d \in Deal
        BY <3>3, <3>4 DEF Deal
      <3> QED BY <3>5 DEF x, y, z
    <2> HIDE DEF entry, d
    <2>10. ASSUME NEW w \in Deal, Fits(deal, asks, tail, w) PROVE Agrees(d, w)
      <3>1. \A i \in 1..n : Says(w, asks[i], tail[i])
        BY <2>10, <2>1a, <2>2, <1>1 DEF Fits, answered
      <3>2. d.ident = w.ident
        <4>1. CASE Asked("ident", asks)
          <5>1. PICK i \in 1..n : asks[i] = "ident"
            BY <4>1, <2>6
          <5>2. entry(asks[i], deal.ident) = tail[i]
            BY <2>4
          <5> QED BY <5>1, <5>2, <3>1, <2>8 DEF Says
        <4>2. CASE ~Asked("ident", asks)
          BY <4>2, <2>5, <2>8, <2>10 DEF Fits
        <4> QED BY <4>1, <4>2
      <3>3. d.amount = w.amount
        <4>1. CASE Asked("amount", asks)
          <5>1. PICK i \in 1..n : asks[i] = "amount"
            BY <4>1, <2>6
          <5>2. entry(asks[i], deal.amount) = tail[i]
            BY <2>4
          <5> QED BY <5>1, <5>2, <3>1, <2>8 DEF Says
        <4>2. CASE ~Asked("amount", asks)
          BY <4>2, <2>5, <2>8, <2>10 DEF Fits
        <4> QED BY <4>1, <4>2
      <3>4. d.contact = w.contact
        <4>1. CASE Asked("contact", asks)
          BY <4>1, <3>1, <2>4, <2>5, <2>6, <2>8 DEF Says
        <4>2. CASE ~Asked("contact", asks) /\ Asked("token", asks)
          BY <4>2, <3>1, <2>4, <2>5, <2>6, <2>8 DEF Says
        <4>3. CASE ~Asked("contact", asks) /\ ~Asked("token", asks)
          BY <4>3, <2>5, <2>8, <2>10 DEF Fits
        <4> QED BY <4>1, <4>2, <4>3
      <3>5. d.item = w.item
              /\ (d.under = w.under \/ (kind = "data" /\ Buckets[d.item.list] = 1))
        BY <2>8, <2>10 DEF Fits
      <3>6. [d EXCEPT !.under = NoItem] = [w EXCEPT !.under = NoItem]
        BY <3>2, <3>3, <3>4, <3>5, <2>8 DEF Deal
      <3> QED BY <3>5, <3>6 DEF Agrees
    <2> QED BY <2>1, <2>2, <2>3, <2>8, <2>10, <1>1 DEF Sells
  <1> QED BY <1>4, <1>5, <1>6, <1>7

LEMMA WishedIs ==
    ASSUME NEW w \in Deal, NEW seg \in Segs,
           NEW what \in {"ident", "amount", "pin", "contact", "token"}
    PROVE  /\ Wished(w, Ask(what), seg) \in Deal
           /\ Wished(w, Ask(what), seg).item = w.item
           /\ Wished(w, Ask(what), seg).under = w.under
           /\ Wished(w, Ask(what), seg).ident = IF what = "ident" THEN seg ELSE w.ident
           /\ Wished(w, Ask(what), seg).contact
                 = IF what \in {"contact", "token"} THEN seg ELSE w.contact
           /\ Wished(w, Ask(what), seg).amount = IF what = "amount" THEN seg ELSE w.amount
  <1>1. /\ Ask(what).ask = what /\ Options(Ask(what)) = {}
    BY DEF Ask, Options
  <1>2. seg # Back /\ seg \in 0..Wrong
    BY DEF Back, Segs
  <1>3. Wished(w, Ask(what), seg) =
          IF what = "ident" THEN [w EXCEPT !.ident = seg]
          ELSE IF what \in {"contact", "token"} THEN [w EXCEPT !.contact = seg]
          ELSE IF what = "amount" THEN [w EXCEPT !.amount = seg]
          ELSE w
    BY <1>1, <1>2 DEF Wished
  <1> QED BY <1>2, <1>3 DEF Deal

LEMMA FitsAnswer ==
    ASSUME NEW asks \in Questions, NEW tail \in Seq(Segs), NEW deal, NEW w \in Deal,
           NEW seg \in Segs, NEW sc,
           Fits(deal, asks, tail, w), Asking(asks, tail, sc),
           sc.ask = "token" => seg = 1
    PROVE  Fits(deal, asks, Append(tail, seg), Wished(w, sc, seg))
  <1> DEFINE longer == Append(tail, seg)
             v == Wished(w, sc, seg)
             n == Len(asks)
             m == Len(tail)
  <1>1. /\ n \in 1..3 /\ DOMAIN asks = 1..n
        /\ \A i \in 1..n : asks[i] \in {"ident", "amount", "pin", "contact", "token"}
        /\ \A i, j \in 1..n : asks[i] = asks[j] => i = j
        /\ ~(Asked("contact", asks) /\ Asked("token", asks))
    BY QuestionsAre
  <1>2. /\ m \in Nat /\ DOMAIN tail = 1..m /\ DOMAIN longer = 1..(m + 1)
        /\ longer[m + 1] = seg /\ \A i \in 1..m : longer[i] = tail[i]
    OBVIOUS
  <1>3. PICK what \in {"ident", "amount", "pin", "contact", "token"} :
           /\ sc = Ask(what) /\ Asked(what, asks)
           /\ \A i \in 1..n :
                 i \in 1..(m + 1) /\ asks[i] = what /\ i # m + 1 => ~Accepts(asks[i], tail[i])
           /\ m + 1 \in 1..n => asks[m + 1] = what \/ what = "token"
    <2>1. CASE m < n /\ sc = Ask(asks[m + 1])
      <3>1. m + 1 \in 1..n
        BY <2>1, <1>1, <1>2
      <3>2. \A i \in 1..n : asks[i] = asks[m + 1] => i = m + 1
        BY <1>1, <3>1
      <3> QED BY <3>1, <3>2, <2>1, <1>1 DEF Asked
    <2>2. CASE /\ sc = Ask("token")
               /\ \E i \in DOMAIN asks \cap DOMAIN tail :
                     asks[i] = "token" /\ ~Accepts(asks[i], tail[i])
      <3>1. PICK i \in 1..n : asks[i] = "token" /\ ~Accepts(asks[i], tail[i]) /\ i \in 1..m
        BY <2>2, <1>1, <1>2
      <3>2. \A j \in 1..n : asks[j] = "token" => j = i
        BY <1>1, <3>1
      <3>3. Asked("token", asks)
        BY <1>1, <3>1 DEF Asked
      <3> QED BY <2>2, <3>1, <3>2, <3>3
    <2> QED BY <2>1, <2>2 DEF Asking
  <1>4. /\ v.item = w.item /\ v.under = w.under
        /\ v.ident = IF what = "ident" THEN seg ELSE w.ident
        /\ v.contact = IF what \in {"contact", "token"} THEN seg ELSE w.contact
        /\ v.amount = IF what = "amount" THEN seg ELSE w.amount
    BY <1>3, WishedIs
  <1>5. what = "token" => seg = 1
    BY <1>3 DEF Ask
  <1> HIDE DEF v, longer, m, n
  <1>6. ASSUME NEW i \in DOMAIN asks \cap DOMAIN longer, Accepts(asks[i], longer[i])
        PROVE  Says(v, asks[i], longer[i])
    <2>1. CASE i = m + 1
      <3>1. asks[i] = what \/ (what = "token" /\ Accepts(asks[i], 1))
        BY <1>1, <1>2, <1>3, <1>5, <1>6, <2>1
      <3>2. CASE asks[i] = what
        BY <3>2, <2>1, <1>2, <1>4 DEF Says
      <3>3. CASE asks[i] # what
        <4>1. 1 \notin Amounts /\ 1 \notin Idents /\ 1 \in Segs
          BY VendAssumption DEF Segs, Wrong
        <4>2. asks[i] # "amount" /\ asks[i] # "ident" /\ asks[i] # "contact"
          BY <3>1, <3>3, <4>1, AcceptedIs
        <4> QED BY <4>2, <3>1, <3>3 DEF Says
      <3> QED BY <3>2, <3>3
    <2>2. CASE i # m + 1
      <3>1. i \in 1..n /\ i \in 1..m /\ longer[i] = tail[i]
        BY <2>2, <1>1, <1>2
      <3>2. Accepts(asks[i], tail[i]) /\ asks[i] # what
        BY <3>1, <1>3, <1>6, <2>2, <1>2
      <3>3. Says(w, asks[i], tail[i])
        BY <3>1, <3>2, <1>1, <1>2 DEF Fits
      <3>4. ~(asks[i] \in {"contact", "token"} /\ what \in {"contact", "token"})
        <4>1. Asked(asks[i], asks)
          BY <3>1, <1>1 DEF Asked
        <4> QED BY <4>1, <3>2, <1>1, <1>3
      <3> QED BY <3>1, <3>2, <3>3, <3>4, <1>4 DEF Says
    <2> QED BY <2>1, <2>2
  <1>7. Fits(deal, asks, longer, v)
    <2>1. /\ ~Asked("ident", asks) => v.ident = deal.ident
          /\ ~Asked("contact", asks) /\ ~Asked("token", asks) => v.contact = deal.contact
          /\ ~Asked("amount", asks) => v.amount = deal.amount
      BY <1>3, <1>4 DEF Fits
    <2> QED BY <2>1, <1>4, <1>6 DEF Fits
  <1> QED BY <1>7 DEF longer, v

LEMMA FitsBack ==
    ASSUME NEW asks \in Questions, NEW tail \in Seq(Segs), NEW deal, NEW w,
           NEW seg \in Segs, Fits(deal, asks, Append(tail, seg), w)
    PROVE  Fits(deal, asks, tail, w)
  <1>1. \A i \in DOMAIN tail : i \in DOMAIN Append(tail, seg) /\ Append(tail, seg)[i] = tail[i]
    OBVIOUS
  <1> HIDE DEF Questions
  <1> QED BY <1>1 DEF Fits

LEMMA FitsPick ==
    ASSUME NEW asks, NEW deal, NEW w,
           w.item = deal.item,
           deal.under = w.under \/ (kind = "data" /\ Buckets[deal.item.list] = 1),
           ~Asked("ident", asks) => w.ident = deal.ident,
           ~Asked("contact", asks) /\ ~Asked("token", asks) => w.contact = deal.contact,
           ~Asked("amount", asks) => w.amount = deal.amount
    PROVE  Fits(deal, asks, <<>>, w)
  <1>1. DOMAIN <<>> = {}
    OBVIOUS
  <1> QED BY <1>1 DEF Fits

(* What is asked after the pick of a plan, a product or a route. *)
AsksAfter(n) == IF kind = "data" /\ n \notin Unpriced THEN <<"pin">>
                                                       ELSE <<"amount", "pin">>
With(deal, list, n) == [deal EXCEPT !.item = [list |-> list, n |-> n]]
Nav(rest, prev) == Parse(rest, Plans, prev)
Rest(rest, prev) == From(rest, Nav(rest, prev).used + 1)

(* The wish is the deal before the pick. *)
Ready(deal, list, w) ==
    /\ deal.under = w.under \/ (kind = "data" /\ Buckets[list] = 1)
    /\ deal.ident = w.ident /\ deal.contact = 0 /\ deal.amount = 0

(* The wish is the deal after the pick, if there is one. *)
PickFits(deal, list, rest, prev, w) ==
    Nav(rest, prev).picked # 0 =>
        Fits(With(deal, list, Nav(rest, prev).picked), AsksAfter(Nav(rest, prev).picked),
             Rest(rest, prev), w)

PickAsking(list, rest, prev, sc) ==
    IF Nav(rest, prev).picked = 0
    THEN sc = Page("item", list, Nav(rest, prev).page) /\ (prev => ~Nav(rest, prev).error)
    ELSE /\ Asking(AsksAfter(Nav(rest, prev).picked), Rest(rest, prev), sc)
         /\ \E what \in {"ident", "amount", "pin", "contact", "token"} : sc = Ask(what)
         /\ Asked(sc.ask, AsksAfter(Nav(rest, prev).picked))

Paged(sc) == kind \notin ReadAgain \cup {"deposit"} /\ ~(sc.ask = "group" /\ kind = "data")

LEMMA AsksAfterIs ==
    ASSUME NEW n
    PROVE  /\ AsksAfter(n) \in Questions /\ ~Asked("ident", AsksAfter(n))
           /\ ~Asked("contact", AsksAfter(n)) /\ ~Asked("token", AsksAfter(n))
  BY DEF AsksAfter, Questions, Asked

LEMMA NavIs ==
    ASSUME NEW rest \in Seq(Segs), NEW prev \in BOOLEAN
    PROVE  /\ Nav(rest, prev).page \in Nat /\ Nav(rest, prev).picked \in 0..Plans
           /\ Nav(rest, prev).used \in 0..Len(rest)
           /\ Nav(rest, prev).used + 1 \in 1..(Len(rest) + 1)
           /\ Nav(rest, prev).error \in BOOLEAN
           /\ Nav(rest, prev).picked # 0 =>
                 Nav(rest, prev).used # 0 /\ ~Nav(rest, prev).error
           /\ Nav(rest, prev).picked = 0 /\ ~Nav(rest, prev).error =>
                 Nav(rest, prev).used = Len(rest)
           /\ Nav(rest, prev).error => Nav(rest, prev).used < Len(rest)
           /\ Rest(rest, prev) \in Seq(Segs)
           /\ Len(Rest(rest, prev)) = Len(rest) - Nav(rest, prev).used
  <1>1. Plans \in Nat /\ Len(rest) \in Nat
    BY VendAssumption
  <1>2. NavOK(Nav(rest, prev), Len(rest), Plans)
    BY <1>1, ParseOK DEF Nav
  <1>3. /\ Nav(rest, prev).page \in Nat /\ Nav(rest, prev).picked \in 0..Plans
        /\ Nav(rest, prev).used \in 0..Len(rest) /\ Nav(rest, prev).error \in BOOLEAN
        /\ Nav(rest, prev).picked # 0 =>
              Nav(rest, prev).used # 0 /\ ~Nav(rest, prev).error
        /\ Nav(rest, prev).picked = 0 /\ ~Nav(rest, prev).error =>
              Nav(rest, prev).used = Len(rest)
        /\ Nav(rest, prev).error => Nav(rest, prev).used < Len(rest)
    BY <1>2 DEF NavOK
  <1>4. Nav(rest, prev).used + 1 \in 1..(Len(rest) + 1)
    BY <1>1, <1>3
  <1>5. Rest(rest, prev) \in Seq(Segs)
        /\ Len(Rest(rest, prev)) = Len(rest) + 1 - (Nav(rest, prev).used + 1)
    BY <1>4, FromTyped DEF Rest
  <1>6. Len(rest) + 1 - (Nav(rest, prev).used + 1) = Len(rest) - Nav(rest, prev).used
    BY <1>1, <1>3
  <1> QED BY <1>3, <1>4, <1>5, <1>6

LEMMA NavAppend ==
    ASSUME NEW rest \in Seq(Segs), NEW prev \in BOOLEAN, NEW seg \in Segs
    PROVE  /\ Append(rest, seg) \in Seq(Segs)
           /\ Nav(rest, prev).picked # 0 =>
                 /\ Nav(Append(rest, seg), prev) = Nav(rest, prev)
                 /\ Rest(Append(rest, seg), prev) = Append(Rest(rest, prev), seg)
           /\ Nav(rest, prev).picked = 0 /\ Nav(Append(rest, seg), prev).picked # 0 =>
                 /\ ~Nav(rest, prev).error /\ seg \in 1..PageSize
                 /\ Nav(rest, prev).page * PageSize + seg <= Plans
                 /\ Nav(Append(rest, seg), prev).picked
                       = Nav(rest, prev).page * PageSize + seg
                 /\ Rest(Append(rest, seg), prev) = <<>>
           /\ Nav(Append(rest, seg), prev)
                 = Read(Plans, prev, Nav(rest, prev), seg)
  <1> DEFINE longer == Append(rest, seg)
             nav == Nav(rest, prev)
             next == Nav(longer, prev)
  <1>1. longer \in Seq(Segs) /\ Len(longer) = Len(rest) + 1 /\ Len(rest) \in Nat
    BY AppendTyped
  <1>2. next = Read(Plans, prev, nav, seg)
    BY ParseAppend DEF Nav
  <1>3. NavOK(nav, Len(rest), Plans) /\ Plans \in Nat
    BY ParseOK, VendAssumption DEF Nav
  <1>4. /\ nav.picked # 0 => next = nav
        /\ nav.picked = 0 /\ next.picked # 0 =>
              /\ ~nav.error /\ seg \in 1..PageSize
              /\ nav.page * PageSize + seg <= Plans
              /\ next.picked = nav.page * PageSize + seg
              /\ next.used = Len(rest) + 1
    BY <1>1, <1>2, <1>3, ReadOK
  <1>5. nav.used + 1 \in 1..(Len(rest) + 1)
    BY NavIs
  <1>6. ASSUME nav.picked # 0 PROVE Rest(longer, prev) = Append(Rest(rest, prev), seg)
    <2>1. next.used = nav.used
      BY <1>4, <1>6
    <2>2. From(longer, nav.used + 1) = Append(From(rest, nav.used + 1), seg)
      BY <1>5, FromAppend
    <2> QED BY <2>1, <2>2 DEF Rest
  <1>7. ASSUME nav.picked = 0, next.picked # 0 PROVE Rest(longer, prev) = <<>>
    <2>1. next.used = Len(longer)
      BY <1>1, <1>4, <1>7
    <2>2. Rest(longer, prev) \in Seq(Segs) /\ Len(Rest(longer, prev)) = Len(longer) - next.used
      BY <1>1, NavIs
    <2>3. Len(longer) - Len(longer) = 0
      BY <1>1
    <2> QED BY <2>1, <2>2, <2>3, EmptySeq
  <1> QED BY <1>1, <1>2, <1>4, <1>6, <1>7

LEMMA WishedOnPage ==
    ASSUME NEW w \in Deal, NEW seg \in Segs, NEW list \in Lists, NEW page \in Nat,
           NEW what \in {"group", "item"}, NEW sc, sc = Page(what, list, page), Paged(sc),
           NEW v, v = Wished(w, sc, seg)
    PROVE  /\ seg \in Options(sc) <=> seg \in 1..PageSize /\ page * PageSize + seg <= Plans
           /\ seg \notin Options(sc) => v = w
           /\ v \in Deal /\ v.ident = w.ident
           /\ what = "item" => v.under = w.under
           /\ what = "group" => v.item = w.item /\ v.contact = w.contact
                                                /\ v.amount = w.amount
           /\ seg \in Options(sc) =>
                 IF what = "group" THEN v.under = [list |-> list, n |-> page * PageSize + seg]
                 ELSE /\ v.item = [list |-> list, n |-> page * PageSize + seg]
                      /\ v.contact = 0 /\ v.amount = 0
  <1>1. sc.ask = what /\ sc.list = list /\ sc.page = page
    BY DEF Page
  <1>2. Options(sc) = {i \in 1..PageSize : page * PageSize + i <= Plans}
    BY <1>1 DEF Options, OnePage, Paged
  <1> DEFINE x == [list |-> list, n |-> page * PageSize + seg]
  <1>3. ItemAt(sc, seg) = x
    BY <1>1 DEF ItemAt
  <1>4. seg \in Options(sc) /\ what = "group" => v = [w EXCEPT !.under = x]
    BY <1>1, <1>3 DEF Wished
  <1>5. seg \in Options(sc) /\ what = "item" =>
           v = [w EXCEPT !.item = x, !.contact = 0, !.amount = 0]
    BY <1>1, <1>3 DEF Wished
  <1>6. seg \notin Options(sc) => v = w
    BY <1>1 DEF Wished
  <1>7. seg \in Options(sc) => x \in Items \cup {NoItem}
    <2> SUFFICES ASSUME seg \in Options(sc) PROVE x \in Items
      OBVIOUS
    <2>1. PageSize \in Nat /\ Plans \in Nat /\ page * PageSize \in Nat
      BY PageAssumption, VendAssumption
    <2>2. page * PageSize + seg \in 1..Plans
      BY <1>2, <2>1
    <2> QED BY <2>2 DEF Items
  <1> HIDE DEF x
  <1>8. 0 \in 0..Wrong
    BY DEF Wrong
  <1>9. CASE seg \notin Options(sc)
    BY <1>2, <1>6, <1>9
  <1>10. CASE seg \in Options(sc) /\ what = "group"
    <2>1. v \in Deal /\ v.under = x /\ v.item = w.item /\ v.ident = w.ident
          /\ v.contact = w.contact /\ v.amount = w.amount
      BY <1>4, <1>7, <1>10 DEF Deal
    <2> QED BY <1>2, <1>10, <2>1 DEF x
  <1>11. CASE seg \in Options(sc) /\ what = "item"
    <2>1. v \in Deal /\ v.under = w.under /\ v.item = x /\ v.ident = w.ident
          /\ v.contact = 0 /\ v.amount = 0
      BY <1>5, <1>7, <1>8, <1>11 DEF Deal
    <2> QED BY <1>2, <1>11, <2>1 DEF x
  <1> QED BY <1>9, <1>10, <1>11

LEMMA OneItem ==
    ASSUME NEW list \in Lists, NEW n \in 1..Plans
    PROVE  [list |-> list, n |-> n] \in Items
  BY DEF Items

LEMMA WithIs ==
    ASSUME NEW deal \in Deal, NEW list \in Lists, NEW n \in 1..Plans
    PROVE  /\ With(deal, list, n) \in Deal
           /\ With(deal, list, n).item = [list |-> list, n |-> n]
           /\ With(deal, list, n).item.list = list
           /\ With(deal, list, n).under = deal.under
           /\ With(deal, list, n).ident = deal.ident
           /\ With(deal, list, n).contact = deal.contact
           /\ With(deal, list, n).amount = deal.amount
  <1>1. [list |-> list, n |-> n] \in Items
    BY OneItem
  <1>2. [list |-> list, n |-> n].list = list
    OBVIOUS
  <1> DEFINE x == [list |-> list, n |-> n]
  <1> HIDE DEF x
  <1>3. With(deal, list, n) = [deal EXCEPT !.item = x]
    BY DEF With, x
  <1>4. x \in Items \cup {NoItem} /\ x.list = list
    BY <1>1, <1>2 DEF x
  <1>5. /\ With(deal, list, n) \in Deal /\ With(deal, list, n).item = x
        /\ With(deal, list, n).under = deal.under
        /\ With(deal, list, n).ident = deal.ident
        /\ With(deal, list, n).contact = deal.contact
        /\ With(deal, list, n).amount = deal.amount
    BY <1>3, <1>4 DEF Deal
  <1> QED BY <1>4, <1>5 DEF x

(* The user answers a question after the pick. *)
LEMMA PickedAnswer ==
    \A rest, prev, seg, w, deal, list, sc, v :
       /\ rest \in Seq(Segs) /\ prev \in BOOLEAN /\ seg \in Segs /\ w \in Deal
       /\ deal \in Deal /\ list \in Lists
       /\ Nav(rest, prev).picked # 0 /\ Ready(deal, list, w)
       /\ PickFits(deal, list, rest, prev, w) /\ PickAsking(list, rest, prev, sc)
       /\ v = Wished(w, sc, seg)
       => /\ PickFits(deal, list, Append(rest, seg), prev, v)
          /\ Ready(deal, list, v)
  <1> TAKE rest, prev, seg, w, deal, list, sc, v
  <1> HAVE /\ rest \in Seq(Segs) /\ prev \in BOOLEAN /\ seg \in Segs /\ w \in Deal
           /\ deal \in Deal /\ list \in Lists
           /\ Nav(rest, prev).picked # 0 /\ Ready(deal, list, w)
           /\ PickFits(deal, list, rest, prev, w) /\ PickAsking(list, rest, prev, sc)
           /\ v = Wished(w, sc, seg)
  <1> DEFINE nav == Nav(rest, prev)
             longer == Append(rest, seg)
             asks == AsksAfter(nav.picked)
             d == With(deal, list, nav.picked)
  <1>1. Nav(longer, prev) = nav /\ Rest(longer, prev) = Append(Rest(rest, prev), seg)
    BY NavAppend
  <1>2. /\ Fits(d, asks, Rest(rest, prev), w) /\ Asking(asks, Rest(rest, prev), sc)
        /\ Asked(sc.ask, asks)
        /\ Rest(rest, prev) \in Seq(Segs)
    BY NavIs DEF PickFits, PickAsking
  <1>3. PICK what \in {"ident", "amount", "pin", "contact", "token"} : sc = Ask(what)
    BY DEF PickAsking
  <1>4. asks \in Questions /\ ~Asked("ident", asks) /\ ~Asked("contact", asks)
        /\ ~Asked("token", asks)
    BY AsksAfterIs
  <1> HIDE DEF asks, d
  <1>5. sc.ask # "token" /\ sc.ask # "ident" /\ sc.ask # "contact"
    BY <1>2, <1>4
  <1>6. Fits(d, asks, Append(Rest(rest, prev), seg), v)
    BY <1>2, <1>4, <1>5, FitsAnswer
  <1>7. PickFits(deal, list, longer, prev, v)
    BY <1>1, <1>6 DEF PickFits, asks, d
  <1>8. v.under = w.under /\ v.ident = w.ident
    <2>1. what # "ident"
      BY <1>3, <1>5 DEF Ask
    <2> QED BY <1>3, <2>1, WishedIs
  <1> QED BY <1>7, <1>8 DEF Ready

(* The user answers the page. *)
LEMMA PageFits ==
    \A rest, prev, seg, w, deal, list, sc, v :
       /\ rest \in Seq(Segs) /\ prev \in BOOLEAN /\ seg \in Segs /\ w \in Deal
       /\ deal \in Deal /\ list \in Lists
       /\ Nav(rest, prev).picked = 0 /\ kind \in {"data", "elect", "swap"}
       /\ Ready(deal, list, w) /\ PickAsking(list, rest, prev, sc)
       /\ v = Wished(w, sc, seg)
       => /\ PickFits(deal, list, Append(rest, seg), prev, v)
          /\ Ready(deal, list, v)
  <1> TAKE rest, prev, seg, w, deal, list, sc, v
  <1> HAVE /\ rest \in Seq(Segs) /\ prev \in BOOLEAN /\ seg \in Segs /\ w \in Deal
           /\ deal \in Deal /\ list \in Lists
           /\ Nav(rest, prev).picked = 0 /\ kind \in {"data", "elect", "swap"}
           /\ Ready(deal, list, w) /\ PickAsking(list, rest, prev, sc)
           /\ v = Wished(w, sc, seg)
  <1> DEFINE longer == Append(rest, seg)
             next == Nav(longer, prev)
             page == Nav(rest, prev).page
             x == [list |-> list, n |-> page * PageSize + seg]
             fits == seg \in 1..PageSize /\ page * PageSize + seg <= Plans
  <1>1. sc = Page("item", list, page) /\ page \in Nat
    BY NavIs DEF PickAsking
  <1>2. Paged(sc)
    BY <1>1 DEF Paged, ReadAgain, Page
  <1>3. /\ v.under = w.under /\ v.ident = w.ident
        /\ (fits => v.item = x /\ v.contact = 0 /\ v.amount = 0)
    <2> HIDE DEF page
    <2> QED BY <1>1, <1>2, WishedOnPage
  <1> HIDE DEF x
  <1>4. Ready(deal, list, v)
    BY <1>3 DEF Ready
  <1>5. next.picked # 0 =>
           Fits(With(deal, list, next.picked), AsksAfter(next.picked), Rest(longer, prev), v)
    <2> HAVE next.picked # 0
    <2>1. fits /\ next.picked = page * PageSize + seg /\ Rest(longer, prev) = <<>>
      BY NavAppend
    <2>2. next.picked \in 1..Plans
      <3>1. longer \in Seq(Segs)
        BY NavAppend
      <3>2. next.picked \in 0..Plans
        BY <3>1, NavIs
      <3>3. Plans \in Nat
        BY VendAssumption
      <3> QED BY <3>2, <3>3
    <2> DEFINE n == next.picked
    <2> HIDE DEF n, page
    <2>3. x = [list |-> list, n |-> n]
      BY <2>1 DEF x, n
    <2>4. /\ With(deal, list, n).item = x /\ With(deal, list, n).item.list = list
          /\ With(deal, list, n).under = deal.under
          /\ With(deal, list, n).ident = deal.ident
          /\ With(deal, list, n).contact = 0
          /\ With(deal, list, n).amount = 0
      BY <2>2, <2>3, WithIs DEF n, Ready
    <2>5. Fits(With(deal, list, n), AsksAfter(n), <<>>, v)
      BY <2>1, <2>4, <1>3, <1>4, AsksAfterIs, FitsPick DEF Ready
    <2> QED BY <2>1, <2>5 DEF n
  <1>6. PickFits(deal, list, longer, prev, v)
    BY <1>5 DEF PickFits
  <1> QED BY <1>4, <1>6

LEMMA PickAnswer ==
    \A rest, prev, seg, w, deal, list, sc, v :
       /\ rest \in Seq(Segs) /\ prev \in BOOLEAN /\ seg \in Segs /\ w \in Deal
       /\ deal \in Deal /\ list \in Lists
       /\ kind \in {"data", "elect", "swap"} /\ Ready(deal, list, w)
       /\ PickFits(deal, list, rest, prev, w) /\ PickAsking(list, rest, prev, sc)
       /\ v = Wished(w, sc, seg)
       => /\ PickFits(deal, list, Append(rest, seg), prev, v)
          /\ Ready(deal, list, v)
  <1> TAKE rest, prev, seg, w, deal, list, sc, v
  <1> HAVE /\ rest \in Seq(Segs) /\ prev \in BOOLEAN /\ seg \in Segs /\ w \in Deal
           /\ deal \in Deal /\ list \in Lists
           /\ kind \in {"data", "elect", "swap"} /\ Ready(deal, list, w)
           /\ PickFits(deal, list, rest, prev, w) /\ PickAsking(list, rest, prev, sc)
           /\ v = Wished(w, sc, seg)
  <1>1. Nav(rest, prev).picked = 0 \/ Nav(rest, prev).picked # 0
    OBVIOUS
  <1> QED BY <1>1, PickedAnswer, PageFits, ZenonT(30)

LEMMA PickBack ==
    ASSUME NEW rest \in Seq(Segs), rest # <<>>, NEW prev \in BOOLEAN, NEW w,
           NEW deal, NEW list, PickFits(deal, list, rest, prev, w)
    PROVE  PickFits(deal, list, Front(rest), prev, w)
  <1> DEFINE f == Front(rest)
             e == rest[Len(rest)]
  <1>1. f \in Seq(Segs) /\ e \in Segs /\ rest = Append(f, e)
    BY FrontTyped
  <1> HIDE DEF f, e
  <1> SUFFICES ASSUME Nav(f, prev).picked # 0 PROVE PickFits(deal, list, f, prev, w)
    BY DEF PickFits, f
  <1>2. Nav(rest, prev) = Nav(f, prev) /\ Rest(rest, prev) = Append(Rest(f, prev), e)
    BY <1>1, NavAppend
  <1>3. Fits(With(deal, list, Nav(f, prev).picked), AsksAfter(Nav(f, prev).picked),
             Append(Rest(f, prev), e), w)
    BY <1>2 DEF PickFits
  <1>4. Rest(f, prev) \in Seq(Segs) /\ AsksAfter(Nav(f, prev).picked) \in Questions
    BY <1>1, NavIs, AsksAfterIs
  <1>5. Fits(With(deal, list, Nav(f, prev).picked), AsksAfter(Nav(f, prev).picked),
             Rest(f, prev), w)
    BY <1>1, <1>3, <1>4, FitsBack
  <1> QED BY <1>5 DEF PickFits

-----------------------------------------------------------------------------
(* Answers and work. *)

GoodCopy(c) ==
    /\ c \in Catalog /\ (c = Absent \/ c.list \in Lists)
    /\ c.chosen = NoItem => c.ident = 0
    /\ c.ident = 0 => ~c.agreed
Redis == {r \in [Keys -> Catalog] : \A k \in Keys : GoodCopy(r[k])}
Texts == {t \in Seq(Segs) : Len(t) <= MaxText}

(* What the menus ask for. *)
AsksOf(k) ==
    CASE k = "airtime" -> {"ident", "amount", "pin"}
      [] k = "data" -> {"ident", "group", "item", "amount", "pin"}
      [] k = "elect" -> {"group", "ident", "item", "amount", "pin"}
      [] k = "bet" -> {"item", "ident", "amount", "pin"}
      [] k = "cable" -> {"item", "ident", "contact", "amount", "pin"}
      [] k = "bank" -> {"item", "ident", "choice", "pin"}
      [] k \in {"swap", "deposit", "withdraw"} -> {"item", "amount", "pin"}
      [] k = "favorite" -> {"item", "token", "amount", "pin"}

GoodScreen(sc) ==
    /\ sc \in Screen /\ sc.ask \in AsksOf(kind) \cup {"end"}
    /\ sc.ask \in {"group", "item"} => sc.list \in Lists /\ (sc.page = 0 \/ ~OnePage(sc))
    /\ sc.ask = "end" => sc = End

Stores(op) == op.op \in {"set", "touch", "del"} /\ GoodCopy(op.value)
Writing(todo) == \A i \in DOMAIN todo : Stores(todo[i])
Sale(todo, d) ==
    \/ kind \notin {"elect", "cable", "bank"} /\ todo = <<Buy(d)>>
    \/ kind = "data" /\ Len(todo) = 2 /\ Stores(todo[1]) /\ todo[1].op = "set"
       /\ todo[2] = Buy(d)
    \/ kind \in {"elect", "cable"} /\ todo = <<Buy(d), Del(CatKey)>>
    \/ kind = "bank" /\ todo = <<Buy(d), Del(CatKey), Op("mirror")>>
TodoOK(todo, say) ==
    /\ todo \in Seq(Ops)
    /\ \/ Writing(todo)
       \/ say = End /\ \E d \in Deal : Sale(todo, d)

(* An answer that is no panic, to the text t. *)
Proper(o, t) ==
    /\ GoodScreen(o.say) /\ TodoOK(o.todo, o.say)
    /\ t = <<>> => Writing(o.todo)
    /\ o # Panic

NoSale(o) == o = Panic \/ Writing(o.todo)

LEMMA Constants ==
    /\ CatKey \in Keys /\ PickKey \in Keys /\ CatKey # PickKey
    /\ CatKey \notin Idents /\ PickKey \notin Idents /\ Idents \subseteq Keys
    /\ Wrong = 41 /\ Idents \subseteq Segs /\ Amounts \subseteq Segs
    /\ 1 \in Lists /\ Lists \subseteq Nat \ {0} /\ 0 \notin Lists
    /\ Plans \in Nat /\ Plans \in 1..4 /\ PageSize \in 1..4 /\ PageSize \in Nat
    /\ MaxText \in Nat /\ Budget \in Nat
    /\ \A v \in Lists : Buckets[v] \in 1..4
    /\ Unpriced \subseteq 1..Plans
    /\ Back = 0 /\ Wrong \notin Idents \cup Amounts
  BY VendAssumption, PageAssumption
     DEF Keys, CatKey, PickKey, Wrong, Segs, Back

LEMMA AbsentIs == GoodCopy(Absent) /\ NoDeal \in Deal /\ Absent.list = 0 /\ Absent.chosen = NoItem
                  /\ Absent.len = 0 /\ Absent.ident = 0 /\ Absent.agreed = FALSE
  <1>1. 0 \in 0..MaxText /\ 0 \in 0..Wrong
    BY Constants
  <1> QED BY <1>1 DEF GoodCopy, Catalog, Absent, NoDeal, Deal

LEMMA FetchedIs ==
    ASSUME NEW v \in Lists
    PROVE  /\ GoodCopy(Fetched(v)) /\ Fetched(v) # Absent /\ Fetched(v).list = v
           /\ Fetched(v).chosen = NoItem /\ Fetched(v).len = 0 /\ Fetched(v).ident = 0
           /\ Fetched(v).agreed = FALSE
  <1>1. v # 0 /\ v \in Lists \cup {0} /\ Absent \in Catalog
    BY Constants, AbsentIs DEF GoodCopy
  <1>2. /\ Fetched(v) \in Catalog /\ Fetched(v).list = v
        /\ Fetched(v).chosen = Absent.chosen /\ Fetched(v).len = Absent.len
        /\ Fetched(v).ident = Absent.ident /\ Fetched(v).agreed = Absent.agreed
    BY <1>1 DEF Fetched, Catalog
  <1> QED BY <1>1, <1>2, AbsentIs DEF GoodCopy

LEMMA OpsAre ==
    /\ \A d \in Deal : Buy(d) \in Ops /\ Buy(d).op = "buy" /\ Buy(d).deal = d
    /\ \A k \in Keys : Del(k) \in Ops /\ Del(k).op = "del" /\ Del(k).key = k
                       /\ Stores(Del(k))
    /\ \A k \in Keys, c \in Catalog : GoodCopy(c) =>
          /\ Set(k, c) \in Ops /\ Set(k, c).op = "set" /\ Set(k, c).key = k
          /\ Set(k, c).value = c /\ Stores(Set(k, c))
          /\ Touch(k, c) \in Ops /\ Touch(k, c).op = "touch" /\ Touch(k, c).key = k
          /\ Touch(k, c).value = c /\ Stores(Touch(k, c))
    /\ Op("mirror") \in Ops /\ Op("mirror").op = "mirror"
  <1>1. ASSUME NEW what \in {"set", "touch", "del", "buy", "mirror"}
        PROVE  /\ Op(what) \in Ops /\ Op(what).op = what /\ Op(what).key = CatKey
               /\ Op(what).value = Absent /\ Op(what).deal = NoDeal
    BY Constants, AbsentIs DEF Op, Ops, GoodCopy
  <1>2. ASSUME NEW d \in Deal PROVE Buy(d) \in Ops /\ Buy(d).op = "buy" /\ Buy(d).deal = d
    BY <1>1 DEF Buy, Ops
  <1>3. ASSUME NEW k \in Keys
        PROVE  Del(k) \in Ops /\ Del(k).op = "del" /\ Del(k).key = k /\ Stores(Del(k))
    <2>1. Del(k) \in Ops /\ Del(k).op = "del" /\ Del(k).key = k /\ Del(k).value = Absent
      BY <1>1 DEF Del, Ops
    <2> QED BY <2>1, AbsentIs DEF Stores
  <1>4. ASSUME NEW k \in Keys, NEW c \in Catalog, GoodCopy(c)
        PROVE  /\ Set(k, c) \in Ops /\ Set(k, c).op = "set" /\ Set(k, c).key = k
               /\ Set(k, c).value = c /\ Stores(Set(k, c))
               /\ Touch(k, c) \in Ops /\ Touch(k, c).op = "touch" /\ Touch(k, c).key = k
               /\ Touch(k, c).value = c /\ Stores(Touch(k, c))
    <2>1. Set(k, c) \in Ops /\ Set(k, c).op = "set" /\ Set(k, c).key = k /\ Set(k, c).value = c
      BY <1>1 DEF Set, Ops
    <2>2. Touch(k, c) \in Ops /\ Touch(k, c).op = "touch" /\ Touch(k, c).key = k
          /\ Touch(k, c).value = c
      BY <2>1 DEF Touch, Ops
    <2> QED BY <2>1, <2>2, <1>4 DEF Stores
  <1> QED BY <1>1, <1>2, <1>3, <1>4

LEMMA ScreensAre ==
    /\ End \in Screen /\ End.ask = "end"
    /\ \A what \in Asks : Ask(what) \in Screen /\ Ask(what).ask = what
    /\ \A what \in Asks, list \in Lists, page \in Nat :
          /\ Page(what, list, page) \in Screen /\ Page(what, list, page).ask = what
          /\ Page(what, list, page).list = list /\ Page(what, list, page).page = page
  BY DEF End, Ask, Page, Screen, Asks

(* Answers without work, and with one, two or three writes. *)
LEMMA SayProper ==
    ASSUME NEW sc, GoodScreen(sc), NEW t
    PROVE  Proper(Say(sc), t) /\ NoSale(Say(sc)) /\ Say(sc).todo = <<>> /\ Say(sc).say = sc
  <1>1. Say(sc).todo = <<>> /\ Say(sc).say = sc
    BY DEF Say
  <1>2. Writing(<<>>) /\ <<>> \in Seq(Ops)
    BY DEF Writing
  <1>3. Say(sc) # Panic
    <2>1. Panic.say.ask = "panic"
      BY DEF Panic, Say, Ask
    <2>2. sc.ask \in Asks
      BY DEF GoodScreen, Screen
    <2> QED BY <1>1, <2>1, <2>2 DEF Asks
  <1> QED BY <1>1, <1>2, <1>3 DEF Proper, TodoOK, NoSale

LEMMA DoIs ==
    ASSUME NEW todo, todo # <<>>, NEW sc
    PROVE  Do(todo, sc).todo = todo /\ Do(todo, sc).say = sc /\ Do(todo, sc) # Panic
  <1>1. Panic.todo = <<>>
    BY DEF Panic, Say
  <1> QED BY <1>1 DEF Do

LEMMA DoProper ==
    ASSUME NEW todo \in Seq(Ops), todo # <<>>, Writing(todo), NEW sc, GoodScreen(sc), NEW t
    PROVE  Proper(Do(todo, sc), t) /\ NoSale(Do(todo, sc))
  BY DoIs DEF Proper, TodoOK, NoSale


LEMMA GoodScreens ==
    /\ GoodScreen(End)
    /\ \A what \in AsksOf(kind) \ {"group", "item"} :
          what \in {"ident", "contact", "token", "amount", "choice", "pin"} =>
             GoodScreen(Ask(what)) /\ Ask(what) # End
    /\ \A what \in AsksOf(kind) \cap {"group", "item"}, list \in Lists, page \in Nat :
          page = 0 \/ kind \in {"elect", "bet", "cable", "bank", "swap"}
             \/ (kind = "data" /\ what = "item") =>
                GoodScreen(Page(what, list, page)) /\ Page(what, list, page) # End
  <1>1. GoodScreen(End)
    BY ScreensAre DEF GoodScreen
  <1>2. ASSUME NEW what \in AsksOf(kind) \ {"group", "item"},
               what \in {"ident", "contact", "token", "amount", "choice", "pin"}
        PROVE  GoodScreen(Ask(what)) /\ Ask(what) # End
    <2>1. what \in Asks /\ what # "end"
      BY <1>2 DEF Asks
    <2> QED BY <1>2, <2>1, ScreensAre DEF GoodScreen
  <1>3. ASSUME NEW what \in AsksOf(kind) \cap {"group", "item"}, NEW list \in Lists,
               NEW page \in Nat,
               page = 0 \/ kind \in {"elect", "bet", "cable", "bank", "swap"}
                  \/ (kind = "data" /\ what = "item")
        PROVE  GoodScreen(Page(what, list, page)) /\ Page(what, list, page) # End
    <2>1. what \in Asks /\ what # "end"
      BY DEF Asks
    <2>2. /\ Page(what, list, page) \in Screen /\ Page(what, list, page).ask = what
          /\ Page(what, list, page).list = list /\ Page(what, list, page).page = page
      BY <2>1, ScreensAre
    <2>3. page = 0 \/ ~OnePage(Page(what, list, page))
      BY <1>3, <2>2 DEF OnePage, ReadAgain
    <2> QED BY <2>1, <2>2, <2>3, ScreensAre DEF GoodScreen
  <1> QED BY <1>1, <1>2, <1>3

(* The screen asks for the next answer. *)
AsksNext(asks, tail, sc) ==
    /\ Asking(asks, tail, sc) /\ Asked(sc.ask, asks)
    /\ sc \in {Ask(what) : what \in {"ident", "amount", "pin", "contact", "token"}}

(* What the questions after the pick lead to. *)
FinishLeads(o, asks, tail, deal, after) ==
    \/ /\ o.todo = <<>>
       /\ o.say = End \/ AsksNext(asks, tail, o.say)
    \/ /\ o.say = End
       /\ \E d \in Deal : /\ o.todo = <<Buy(d)>> \o after
                          /\ \A w \in Deal : Fits(deal, asks, tail, w) => Agrees(d, w)

LEMMA FinishDoes ==
    ASSUME NEW asks \in Questions, NEW tail \in Seq(Segs), NEW deal \in Deal,
           NEW after \in Seq(Ops), NEW t, tail # <<>> => t # <<>>,
           \A i \in DOMAIN asks : asks[i] \in AsksOf(kind),
           \A d \in Deal : Sale(<<Buy(d)>> \o after, d),
           NEW o, o = Finish(asks, tail, deal, after)
    PROVE  /\ Proper(o, t)
           /\ \A sc : Asking(asks, tail, sc) => NoSale(o)
           /\ FinishLeads(o, asks, tail, deal, after)
  <1>1. CASE o = Say(End)
    BY <1>1, SayProper, GoodScreens DEF FinishLeads
  <1>2. CASE GoesOn(o, asks, tail)
    <2>1. PICK what \in {"ident", "amount", "pin", "contact", "token"} : o.say = Ask(what)
      BY <1>2 DEF GoesOn
    <2>2. what \in Asks /\ o.say.ask = what
      BY <2>1, ScreensAre DEF Asks
    <2>3. what \in AsksOf(kind)
      BY <1>2, <2>2 DEF GoesOn, Asked
    <2>4. GoodScreen(o.say)
      BY <2>1, <2>3, GoodScreens
    <2> QED BY <1>2, <2>4, SayProper DEF GoesOn, FinishLeads, AsksNext
  <1>3. CASE Sells(o, asks, tail, deal, after)
    <2>1. PICK d \in Deal :
            /\ o = Do(<<Buy(d)>> \o after, End)
            /\ \A w \in Deal : Fits(deal, asks, tail, w) => Agrees(d, w)
      BY <1>3 DEF Sells
    <2>2. Buy(d) \in Ops
      BY OpsAre
    <2> DEFINE todo == <<Buy(d)>> \o after
    <2>3. todo \in Seq(Ops) /\ todo # <<>>
      BY <2>2
    <2>3a. o = Do(todo, End) /\ Sale(todo, d)
      BY <2>1
    <2> HIDE DEF todo
    <2>4. o.todo = todo /\ o.say = End /\ o # Panic /\ Sale(todo, d) /\ todo \in Seq(Ops)
      BY <2>3, <2>3a, DoIs
    <2>5. Len(tail) = Len(asks) /\ Len(asks) \in 1..3 /\ DOMAIN asks = 1..Len(asks)
      BY <1>3, QuestionsAre DEF Sells
    <2>6. tail # <<>>
      BY <2>5
    <2>7. Proper(o, t)
      BY <2>4, <2>6, GoodScreens DEF Proper, TodoOK
    <2>8. ASSUME NEW sc, Asking(asks, tail, sc) PROVE FALSE
      BY <1>3, <2>5, <2>8 DEF Asking, Sells
    <2>9. FinishLeads(o, asks, tail, deal, after)
      BY <2>1, <2>4 DEF FinishLeads, todo
    <2> QED BY <2>7, <2>8, <2>9
  <1> QED BY <1>1, <1>2, <1>3, FinishIs

-----------------------------------------------------------------------------
(* What a menu counts on: the wish agrees with what the text and Redis     *)
(* come to, as far as they have come.                                      *)

Under(c, ident) == [NoDeal EXCEPT !.under = c.chosen, !.ident = ident]
Chosen(c) == [NoDeal EXCEPT !.item = c.chosen, !.ident = c.ident]
AfterAccount == IF kind = "bet" THEN <<"amount", "pin">>
                                ELSE <<"contact", "amount", "pin">>
AfterPlace == IF kind = "favorite" THEN <<"token", "amount", "pin">>
                                   ELSE <<"amount", "pin">>
ListNow(v) == IF kind = "deposit" THEN 1 ELSE v

(* Where a mistake is answered with the same page, what the page reader    *)
(* stopped at is one.                                                      *)
Mistyped(t) == Nav(t, FALSE).error =>
    Nav(t, FALSE).used < Len(t) /\ t[Nav(t, FALSE).used + 1] = Wrong

DataCounts(c, t, w) ==
    /\ w.ident = t[1]
    /\ Len(t) >= 2 /\ c # Absent =>
          IF c.chosen = NoItem
          THEN /\ Len(t) = 2
               /\ t[2] \in 1..Buckets[c.list] =>
                     w.under = [list |-> c.list, n |-> t[2]]
          ELSE /\ Ready(Under(c, t[1]), c.list, w)
               /\ PickFits(Under(c, t[1]), c.list, From(t, 3), TRUE, w)
PickCounts(p, t, w) ==
    IF p.chosen = NoItem
    THEN Nav(t, TRUE).picked # 0 =>
            /\ w.under = [list |-> p.list, n |-> Nav(t, TRUE).picked]
            /\ Nav(t, TRUE).used = Len(t)
    ELSE /\ w.under = p.chosen /\ Len(t) <= p.len + 1
         /\ Len(t) = p.len + 1 /\ t[p.len + 1] \in Idents => w.ident = t[p.len + 1]
ProductCounts(a, t, w) ==
    a # Absent /\ Len(t) >= a.len =>
        /\ Ready(Under(a, a.ident), a.list, w)
        /\ PickFits(Under(a, a.ident), a.list, From(t, a.len + 1), TRUE, w)
ItemCounts(c, t, prev, w) ==
    Nav(t, prev).picked # 0 =>
        /\ w.item = [list |-> c.list, n |-> Nav(t, prev).picked]
        /\ Nav(t, prev).used = Len(t)
AccountCounts(c, t, w) ==
    IF c.chosen = NoItem THEN ItemCounts(c, t, TRUE, w)
    ELSE IF c.ident = 0
         THEN /\ w.item = c.chosen /\ Len(t) <= c.len + 1
              /\ Len(t) = c.len + 1 => w.ident = t[c.len + 1]
    ELSE Len(t) >= c.len + 1 => Fits(Chosen(c), AfterAccount, From(t, c.len + 2), w)
BankCounts(c, t, w) ==
    IF c.chosen = NoItem THEN ItemCounts(c, t, FALSE, w) /\ Mistyped(t)
    ELSE /\ w.item = c.chosen
         /\ IF c.ident = 0
            THEN Len(t) >= c.len + 1 /\ t[c.len + 1] \in Idents =>
                    Len(t) = c.len + 1 /\ w.ident = t[c.len + 1]
            ELSE /\ w.ident = c.ident
                 /\ ~c.agreed /\ Len(t) >= c.len + 2 =>
                       Len(t) = c.len + 2 /\ t[c.len + 2] \in {1, 2}
ListedCounts(list, t, w) == t # <<>> =>
    IF t[1] \in 1..Plans THEN Fits(With(NoDeal, list, t[1]), AfterPlace, From(t, 2), w)
                         ELSE t[1] = Wrong

Counts(r, v, t, w) ==
    /\ kind = "airtime" => Fits(NoDeal, <<"ident", "amount", "pin">>, t, w)
    /\ kind = "data" /\ t # <<>> /\ t[1] \in Idents => DataCounts(r[t[1]], t, w)
    /\ kind = "elect" /\ t # <<>> =>
          IF r[PickKey] # Absent THEN PickCounts(r[PickKey], t, w)
                                 ELSE ProductCounts(r[CatKey], t, w)
    /\ kind \in {"bet", "cable"} /\ t # <<>> /\ r[CatKey] # Absent =>
          AccountCounts(r[CatKey], t, w)
    /\ kind = "bank" /\ t # <<>> /\ r[CatKey] # Absent => BankCounts(r[CatKey], t, w)
    /\ kind = "swap" => PickFits(NoDeal, 1, t, FALSE, w) /\ Mistyped(t)
    /\ kind \in {"deposit", "withdraw", "favorite"} => ListedCounts(ListNow(v), t, w)

(* What the screen shows is where the text and Redis have come to. *)
DataShows(r, t, sc) ==
    IF t = <<>> THEN sc = Ask("ident")
    ELSE LET c == r[t[1]] IN
         /\ t[1] \in Idents /\ c # Absent
         /\ IF Len(t) = 1
            THEN IF c.chosen = NoItem THEN sc = Page("group", c.list, 0)
                 ELSE Buckets[c.list] = 1 /\ sc = Page("item", c.list, 0)
            ELSE c.chosen # NoItem /\ PickAsking(c.list, From(t, 3), TRUE, sc)
PickShows(p, t, sc) ==
    IF p.chosen = NoItem
    THEN /\ Nav(t, TRUE).picked = 0 /\ ~Nav(t, TRUE).error
         /\ sc = Page("group", p.list, Nav(t, TRUE).page)
    ELSE t # <<>> /\ sc = Ask("ident") /\ Len(t) = p.len
ProductShows(a, t, sc) ==
    /\ a # Absent /\ t # <<>> /\ Len(t) >= a.len
    /\ PickAsking(a.list, From(t, a.len + 1), TRUE, sc)
AccountShows(c, t, sc) ==
    /\ c # Absent
    /\ IF c.chosen = NoItem
       THEN /\ Nav(t, TRUE).picked = 0 /\ ~Nav(t, TRUE).error
            /\ sc = Page("item", c.list, Nav(t, TRUE).page)
       ELSE /\ t # <<>>
            /\ IF c.ident = 0 THEN sc = Ask("ident") /\ Len(t) = c.len
               ELSE Len(t) >= c.len + 1 /\ Asking(AfterAccount, From(t, c.len + 2), sc)
BankShows(c, t, sc) ==
    /\ c # Absent
    /\ IF c.chosen = NoItem
       THEN Nav(t, FALSE).picked = 0 /\ sc = Page("item", c.list, Nav(t, FALSE).page)
       ELSE /\ t # <<>>
            /\ IF c.ident = 0
               THEN sc = Ask("ident") /\ ~(Len(t) >= c.len + 1 /\ t[c.len + 1] \in Idents)
               ELSE IF ~c.agreed THEN sc = Ask("choice") /\ Len(t) <= c.len + 1
               ELSE sc = Ask("pin") /\ Len(t) < c.len + 3
ListedShows(list, t, sc) ==
    IF t # <<>> /\ t[1] \in 1..Plans
    THEN Asking(AfterPlace, From(t, 2), sc)
    ELSE sc = Page("item", list, 0) /\ (kind = "favorite" => t = <<>>)

Shows(r, v, t, sc) ==
    /\ kind = "airtime" => Asking(<<"ident", "amount", "pin">>, t, sc)
    /\ kind = "data" => DataShows(r, t, sc)
    /\ kind = "elect" => IF r[PickKey] # Absent THEN PickShows(r[PickKey], t, sc)
                                                ELSE ProductShows(r[CatKey], t, sc)
    /\ kind \in {"bet", "cable"} => AccountShows(r[CatKey], t, sc)
    /\ kind = "bank" => BankShows(r[CatKey], t, sc)
    /\ kind = "swap" => PickAsking(1, t, FALSE, sc)
    /\ kind \in {"deposit", "withdraw", "favorite"} => ListedShows(ListNow(v), t, sc)

(* The bank menu starts again on an empty key. *)
Ground(r, t) == kind = "bank" /\ t # <<>> => r[CatKey] # Absent

(* The fields that no question of the menu fills. *)
Plain(w) ==
    /\ "group" \notin AsksOf(kind) => w.under = NoItem
    /\ "item" \notin AsksOf(kind) => w.item = NoItem
    /\ "ident" \notin AsksOf(kind) => w.ident = 0
    /\ AsksOf(kind) \cap {"contact", "token"} = {} => w.contact = 0
    /\ "amount" \notin AsksOf(kind) => w.amount = 0

(* The work that is left, done on r. *)
Apply(r, op) ==
    CASE op.op \in {"set", "touch"} -> [r EXCEPT ![op.key] = op.value]
      [] op.op = "del" -> [r EXCEPT ![op.key] = Absent]
      [] op.op \in {"buy", "mirror"} -> r
Sound(r, v, t, w, say) == Counts(r, v, t, w) /\ (say = End \/ Ground(r, t))
Lands(r, v, t, w, say) == Sound(r, v, t, w, say) /\ (say = End \/ Shows(r, v, t, say))
Step1(r, op, v, t, w, say) ==
    /\ Lands(Apply(r, op), v, t, w, say)
    /\ op.op = "touch" => Apply(r, op) = r
Step2(r, op, next, v, t, w, say) ==
    /\ Sound(Apply(r, op), v, t, w, say)
    /\ op.op = "touch" => Apply(r, op) = r
    /\ Step1(Apply(r, op), next, v, t, w, say)
Step3(r, op, next, last, v, t, w, say) ==
    /\ Sound(Apply(r, op), v, t, w, say)
    /\ op.op = "touch" => Apply(r, op) = r
    /\ Step2(Apply(r, op), next, last, v, t, w, say)
Promise(r, todo, v, t, w, say) ==
    /\ Len(todo) \in 1..3
    /\ Len(todo) = 1 => Step1(r, todo[1], v, t, w, say)
    /\ Len(todo) = 2 => Step2(r, todo[1], todo[2], v, t, w, say)
    /\ Len(todo) = 3 => Step3(r, todo[1], todo[2], todo[3], v, t, w, say)
SalesAgree(todo, w) == \A i \in DOMAIN todo : todo[i].op = "buy" => Agrees(todo[i].deal, w)

Keeps(o, r, v, t, w) ==
    /\ o.todo = <<>> => o.say = End \/ Shows(r, v, t, o.say)
    /\ o.todo # <<>> => Promise(r, o.todo, v, t, w, o.say) /\ SalesAgree(o.todo, w)
Replies(o, r, v, t) ==
    /\ o = Panic \/ Proper(o, t)
    /\ \A sc : Shows(r, v, t, sc) => NoSale(o)
    /\ \A w \in Deal : Plain(w) /\ Counts(r, v, t, w) /\ Ground(r, t) /\ o # Panic =>
          Keeps(o, r, v, t, w)

LEMMA RedisIs ==
    ASSUME NEW r \in Redis, NEW k \in Keys
    PROVE  /\ GoodCopy(r[k]) /\ r[k] \in Catalog
           /\ r[k] # Absent => r[k].list \in Lists
           /\ r[k].list \in Lists \cup {0} /\ r[k].chosen \in Items \cup {NoItem}
           /\ r[k].len \in 0..MaxText /\ r[k].len \in Nat /\ r[k].ident \in 0..Wrong
           /\ r[k].agreed \in BOOLEAN
  <1>1. GoodCopy(r[k])
    BY DEF Redis
  <1>2. r[k] \in Catalog
    BY <1>1 DEF GoodCopy
  <1> QED BY <1>1, <1>2, Constants DEF GoodCopy, Catalog

LEMMA ApplyIs ==
    ASSUME NEW r \in Redis, NEW k \in Keys, NEW c, GoodCopy(c)
    PROVE  /\ Apply(r, Set(k, c)) = [r EXCEPT ![k] = c]
           /\ Apply(r, Touch(k, c)) = [r EXCEPT ![k] = c]
           /\ Apply(r, Del(k)) = [r EXCEPT ![k] = Absent]
           /\ \A d \in Deal : Apply(r, Buy(d)) = r
           /\ Apply(r, Op("mirror")) = r
           /\ [r EXCEPT ![k] = c] \in Redis /\ [r EXCEPT ![k] = Absent] \in Redis
           /\ [r EXCEPT ![k] = c][k] = c
           /\ \A j \in Keys \ {k} : [r EXCEPT ![k] = c][j] = r[j]
  <1>1. c \in Catalog /\ GoodCopy(Absent) /\ Absent \in Catalog
    BY AbsentIs DEF GoodCopy
  <1>2. /\ Set(k, c).op = "set" /\ Set(k, c).key = k /\ Set(k, c).value = c
        /\ Touch(k, c).op = "touch" /\ Touch(k, c).key = k /\ Touch(k, c).value = c
        /\ Del(k).op = "del" /\ Del(k).key = k
    BY <1>1, OpsAre
  <1>3. Apply(r, Set(k, c)) = [r EXCEPT ![k] = c]
    BY <1>2 DEF Apply
  <1>4. Apply(r, Touch(k, c)) = [r EXCEPT ![k] = c]
    BY <1>2 DEF Apply
  <1>5. Apply(r, Del(k)) = [r EXCEPT ![k] = Absent]
    BY <1>2 DEF Apply
  <1>6. ASSUME NEW d \in Deal PROVE Apply(r, Buy(d)) = r
    <2>1. Buy(d).op = "buy"
      BY OpsAre
    <2> QED BY <2>1 DEF Apply
  <1>7. Apply(r, Op("mirror")) = r
    <2>1. Op("mirror").op = "mirror"
      BY OpsAre
    <2> QED BY <2>1 DEF Apply
  <1>8. [r EXCEPT ![k] = c] \in Redis /\ [r EXCEPT ![k] = Absent] \in Redis
    BY <1>1 DEF Redis
  <1>9. [r EXCEPT ![k] = c][k] = c /\ \A j \in Keys \ {k} : [r EXCEPT ![k] = c][j] = r[j]
    BY DEF Redis
  <1> QED BY <1>3, <1>4, <1>5, <1>6, <1>7, <1>8, <1>9

(* The catalogue is deleted at the end. *)
LEMMA CountsWithoutCat ==
    ASSUME NEW r \in Redis, NEW v, NEW t, NEW w, Counts(r, v, t, w)
    PROVE  Counts([r EXCEPT ![CatKey] = Absent], v, t, w)
  <1> SUFFICES ASSUME NEW e, e = [r EXCEPT ![CatKey] = Absent] PROVE Counts(e, v, t, w)
    OBVIOUS
  <1>1. e[CatKey] = Absent /\ \A j \in Keys \ {CatKey} : e[j] = r[j]
    BY Constants DEF Redis
  <1>2. e[PickKey] = r[PickKey] /\ \A j \in Idents : e[j] = r[j]
    BY <1>1, Constants
  <1>3. ProductCounts(Absent, t, w)
    BY DEF ProductCounts
  <1> QED BY <1>1, <1>2, <1>3 DEF Counts

LEMMA OneWrite ==
    \A r, op, v, t, w, say, next :
        /\ op.op \in {"set", "del"} /\ next = Apply(r, op) /\ Counts(next, v, t, w)
        /\ say = End \/ (Ground(next, t) /\ Shows(next, v, t, say))
        => Keeps(Do(<<op>>, say), r, v, t, w)
  <1> SUFFICES ASSUME NEW r, NEW op, NEW v, NEW t, NEW w, NEW say,
                      op.op \in {"set", "del"}, NEW next, next = Apply(r, op),
                      Counts(next, v, t, w),
                      say = End \/ (Ground(next, t) /\ Shows(next, v, t, say))
               PROVE  Keeps(Do(<<op>>, say), r, v, t, w)
    OBVIOUS
  <1>1. Do(<<op>>, say).todo = <<op>> /\ Do(<<op>>, say).say = say
    BY DEF Do
  <1>2. Promise(r, <<op>>, v, t, w, say)
    BY DEF Promise, Step1, Lands, Sound
  <1>3. SalesAgree(<<op>>, w)
    BY DEF SalesAgree
  <1> QED BY <1>1, <1>2, <1>3 DEF Keeps

LEMMA Joined ==
    ASSUME NEW a, NEW b, NEW c
    PROVE  <<a>> \o <<b>> = <<a, b>> /\ <<a>> \o <<b, c>> = <<a, b, c>>
  <1> DEFINE S == {a, b, c}
             y == <<b>>
             z == <<b, c>>
             x == <<a>>
  <1>1. x \in Seq(S) /\ y \in Seq(S) /\ z \in Seq(S) /\ Len(x) = 1 /\ Len(y) = 1
        /\ Len(z) = 2 /\ x[1] = a /\ y[1] = b /\ z[1] = b /\ z[2] = c
    OBVIOUS
  <1>2. <<a, b>> \in Seq(S) /\ <<a, b, c>> \in Seq(S)
    OBVIOUS
  <1> HIDE DEF x, y, z, S
  <1>3. /\ x \o y \in Seq(S) /\ Len(x \o y) = Len(x) + Len(y)
        /\ \A i \in 1..(Len(x) + Len(y)) :
              (x \o y)[i] = IF i <= Len(x) THEN x[i] ELSE y[i - Len(x)]
    BY <1>1, ConcatProperties
  <1>4. /\ x \o z \in Seq(S) /\ Len(x \o z) = 3
        /\ \A i \in 1..3 : (x \o z)[i] = IF i <= 1 THEN x[i] ELSE z[i - 1]
    BY <1>1, ConcatProperties
  <1>5. (x \o y)[1] = a /\ (x \o y)[2] = b
    BY <1>1, <1>3
  <1>6. (x \o z)[1] = a /\ (x \o z)[2] = b /\ (x \o z)[3] = c
    BY <1>1, <1>4
  <1>7. x \o y = <<a, b>>
    <2> DEFINE u == <<a, b>>
    <2>1. u \in Seq(S) /\ Len(u) = 2 /\ u[1] = a /\ u[2] = b
      BY <1>2
    <2> HIDE DEF u
    <2>2. ASSUME NEW i \in 1..2 PROVE (x \o y)[i] = u[i]
      <3>1. i = 1 \/ i = 2
        OBVIOUS
      <3> QED BY <1>5, <2>1, <3>1, Zenon
    <2>3. Len(x \o y) = 2
      BY <1>1, <1>3
    <2>4. x \o y = u
      BY <1>3, <2>1, <2>2, <2>3, SeqEqual
    <2> QED BY <2>4 DEF u
  <1>8. x \o z = <<a, b, c>>
    <2> DEFINE u == <<a, b, c>>
    <2>1. u \in Seq(S) /\ Len(u) = 3 /\ u[1] = a /\ u[2] = b /\ u[3] = c
      BY <1>2
    <2> HIDE DEF u
    <2>2. ASSUME NEW i \in 1..3 PROVE (x \o z)[i] = u[i]
      <3>1. i = 1 \/ i = 2 \/ i = 3
        OBVIOUS
      <3> QED BY <1>6, <2>1, <3>1, Zenon
    <2>3. x \o z = u
      BY <1>4, <2>1, <2>2, SeqEqual
    <2> QED BY <2>3 DEF u
  <1> QED BY <1>7, <1>8 DEF x, y, z

LEMMA SaleKeeps ==
    ASSUME NEW r \in Redis, NEW v, NEW t, NEW w, NEW d \in Deal,
           Counts(r, v, t, w), Agrees(d, w),
           NEW after \in {<<>>, <<Del(CatKey)>>, <<Del(CatKey), Op("mirror")>>},
           NEW o, o.say = End, o.todo = <<Buy(d)>> \o after
    PROVE  Keeps(o, r, v, t, w)
  <1> DEFINE e == [r EXCEPT ![CatKey] = Absent]
             a == Buy(d)
             b == Del(CatKey)
             c == Op("mirror")
  <1>a. CatKey \in Keys /\ GoodCopy(Absent)
    BY AbsentIs, Constants
  <1>b. a.op = "buy" /\ a.deal = d /\ b.op = "del" /\ c.op = "mirror"
    BY <1>a, OpsAre
  <1>c. Apply(r, a) = r /\ Apply(r, b) = e /\ e \in Redis
    BY <1>a, ApplyIs
  <1>1. /\ Apply(r, a) = r /\ Apply(r, b) = e /\ e \in Redis
        /\ a.op = "buy" /\ a.deal = d /\ b.op = "del" /\ c.op = "mirror"
    BY <1>b, <1>c
  <1>2. Apply(e, c) = e
    BY <1>b DEF Apply
  <1>3. Counts(e, v, t, w)
    BY CountsWithoutCat
  <1> HIDE DEF e, a, b, c
  <1>4. CASE after = <<>>
    <2>1. o.todo = <<a>>
      BY <1>4 DEF a
    <2>2. Promise(r, <<a>>, v, t, w, End)
      BY <1>1 DEF Promise, Step1, Lands, Sound
    <2>3. SalesAgree(<<a>>, w)
      BY <1>1 DEF SalesAgree
    <2> QED BY <2>1, <2>2, <2>3 DEF Keeps
  <1>5. CASE after = <<Del(CatKey)>>
    <2>1. o.todo = <<a, b>>
      BY <1>5, Joined DEF a, b
    <2>2. Promise(r, <<a, b>>, v, t, w, End)
      BY <1>1, <1>3 DEF Promise, Step1, Step2, Lands, Sound
    <2>3. SalesAgree(<<a, b>>, w)
      BY <1>1 DEF SalesAgree
    <2> QED BY <2>1, <2>2, <2>3 DEF Keeps
  <1>6. CASE after = <<Del(CatKey), Op("mirror")>>
    <2>1. o.todo = <<a, b, c>>
      BY <1>6, Joined DEF a, b, c
    <2>2. Promise(r, <<a, b, c>>, v, t, w, End)
      BY <1>1, <1>2, <1>3 DEF Promise, Step1, Step2, Step3, Lands, Sound
    <2>3. SalesAgree(<<a, b, c>>, w)
      BY <1>1 DEF SalesAgree
    <2> QED BY <2>1, <2>2, <2>3 DEF Keeps
  <1> QED BY <1>4, <1>5, <1>6

LEMMA FinishKeeps ==
    ASSUME NEW r \in Redis, NEW v, NEW t, NEW w \in Deal, NEW asks, NEW tail, NEW deal,
           NEW after \in {<<>>, <<Del(CatKey)>>}, NEW o,
           FinishLeads(o, asks, tail, deal, after), Counts(r, v, t, w),
           Fits(deal, asks, tail, w),
           AsksNext(asks, tail, o.say) => Shows(r, v, t, o.say)
    PROVE  Keeps(o, r, v, t, w)
  <1>1. CASE o.todo = <<>>
    <2>1. \A d : <<Buy(d)>> \o after # <<>>
      BY OpsAre
    <2> QED BY <1>1, <2>1 DEF FinishLeads, Keeps
  <1>2. CASE o.todo # <<>>
    <2>1. PICK d \in Deal : /\ o.say = End /\ o.todo = <<Buy(d)>> \o after
                            /\ Agrees(d, w)
      BY <1>2 DEF FinishLeads
    <2> QED BY <2>1, SaleKeeps
  <1> QED BY <1>1, <1>2


LEMMA SaleIs ==
    ASSUME NEW d \in Deal
    PROVE  /\ <<Buy(d)>> \o <<>> = <<Buy(d)>>
           /\ kind \notin {"elect", "cable", "bank"} => Sale(<<Buy(d)>> \o <<>>, d)
           /\ kind \in {"elect", "cable"} => Sale(<<Buy(d)>> \o <<Del(CatKey)>>, d)
  <1>1. <<Buy(d)>> \in Seq({Buy(d)})
    OBVIOUS
  <1>2. <<Buy(d)>> \o <<>> = <<Buy(d)>>
    BY <1>1, ConcatEmptySeq
  <1> QED BY <1>2, Joined DEF Sale

LEMMA NoneAfter == <<>> \in {<<>>, <<Del(CatKey)>>}
  OBVIOUS

(* An answer without work keeps what the menu counts on. *)
LEMMA SayReplies ==
    ASSUME NEW r, NEW v, NEW t, NEW sc, GoodScreen(sc), sc = End \/ Shows(r, v, t, sc)
    PROVE  Replies(Say(sc), r, v, t)
  <1>1. /\ Proper(Say(sc), t) /\ NoSale(Say(sc))
        /\ Say(sc).todo = <<>> /\ Say(sc).say = sc
    BY SayProper
  <1> QED BY <1>1 DEF Replies, Keeps

LEMMA AirtimeReplies ==
    ASSUME kind = "airtime", NEW r \in Redis, NEW v \in Lists, NEW t \in Texts
    PROVE  Replies(Airtime(t), r, v, t)
  <1> DEFINE asks == <<"ident", "amount", "pin">>
             o == Airtime(t)
  <1>1. /\ asks \in Questions /\ t \in Seq(Segs) /\ NoDeal \in Deal /\ <<>> \in Seq(Ops)
        /\ \A i \in DOMAIN asks : asks[i] \in AsksOf(kind)
    BY AbsentIs DEF Questions, Texts, AsksOf
  <1>2. o = Finish(asks, t, NoDeal, <<>>)
    BY DEF Airtime
  <1>3. \A d \in Deal : Sale(<<Buy(d)>> \o <<>>, d)
    BY SaleIs
  <1> HIDE DEF o
  <1>4. /\ Proper(o, t) /\ \A sc : Asking(asks, t, sc) => NoSale(o)
        /\ FinishLeads(o, asks, t, NoDeal, <<>>)
    BY <1>1, <1>2, <1>3, FinishDoes
  <1>5. \A sc : Shows(r, v, t, sc) <=> Asking(asks, t, sc)
    BY DEF Shows
  <1>6. ASSUME NEW w \in Deal, Counts(r, v, t, w) PROVE Keeps(o, r, v, t, w)
    <2>1. Fits(NoDeal, asks, t, w)
      BY <1>6 DEF Counts
    <2>2. AsksNext(asks, t, o.say) => Shows(r, v, t, o.say)
      BY <1>5 DEF AsksNext
    <2> HIDE DEF asks
    <2> QED BY <1>4, <1>6, <2>1, <2>2, FinishKeeps, NoneAfter
  <1> QED BY <1>4, <1>5, <1>6 DEF Replies, o

LEMMA AfterPlaceIs ==
    ASSUME kind \in {"deposit", "withdraw", "favorite"}
    PROVE  /\ AfterPlace \in Questions
           /\ \A i \in DOMAIN AfterPlace : AfterPlace[i] \in AsksOf(kind)
           /\ ~Asked("ident", AfterPlace) /\ ~Asked("contact", AfterPlace)
           /\ Asked("amount", AfterPlace)
           /\ AfterPlace[1] = "token" => kind = "favorite"
           /\ "item" \in AsksOf(kind)
           /\ Asked("token", AfterPlace) => kind = "favorite"
  BY DEF AfterPlace, Questions, AsksOf, Asked

LEMMA FirstIs ==
    ASSUME NEW t \in Seq(Segs), t # <<>>
    PROVE  Len(t) \in Nat \ {0} /\ 1 \in 1..Len(t) /\ t[1] \in Segs /\ 2 \in 1..(Len(t) + 1)
           /\ From(t, 2) \in Seq(Segs) /\ Len(From(t, 2)) = Len(t) - 1
  <1>1. Len(t) \in Nat \ {0} /\ 1 \in 1..Len(t) /\ t[1] \in Segs /\ 2 \in 1..(Len(t) + 1)
    OBVIOUS
  <1> QED BY <1>1, FromTyped

LEMMA ListedReplies ==
    ASSUME kind \in {"deposit", "withdraw", "favorite"}, NEW r \in Redis, NEW v \in Lists,
           NEW list \in Lists, list = ListNow(v), NEW t \in Texts
    PROVE  Replies(Listed(t, list), r, v, t)
  <1> DEFINE o == Listed(t, list)
  <1>1. t \in Seq(Segs) /\ "item" \in AsksOf(kind)
    BY AfterPlaceIs DEF Texts
  <1>2. GoodScreen(Page("item", list, 0)) /\ GoodScreen(End)
    BY <1>1, GoodScreens
  <1>3. \A sc : Shows(r, v, t, sc) <=> ListedShows(list, t, sc)
    BY DEF Shows
  <1>4. CASE t = <<>> \/ t[1] \notin 1..Plans
    <2>1. (kind = "favorite" => t = <<>>) => ListedShows(list, t, Page("item", list, 0))
      BY <1>4 DEF ListedShows
    <2>2. \/ o = Say(Page("item", list, 0)) /\ (kind = "favorite" => t = <<>>)
          \/ o = Say(End)
      BY <1>4 DEF Listed
    <2> QED BY <1>2, <1>3, <2>1, <2>2, SayReplies
  <1>5. CASE t # <<>> /\ t[1] \in 1..Plans
    <2> DEFINE deal == With(NoDeal, list, t[1])
               tail == From(t, 2)
    <2>1. o = Finish(AfterPlace, tail, deal, <<>>)
      BY <1>5 DEF Listed, AfterPlace, With
    <2>2a. deal \in Deal
      BY <1>5, AbsentIs, WithIs
    <2>2b. tail \in Seq(Segs)
      BY <1>1, <1>5, FirstIs
    <2>2. deal \in Deal /\ tail \in Seq(Segs) /\ <<>> \in Seq(Ops)
      BY <2>2a, <2>2b
    <2>3. \A d \in Deal : Sale(<<Buy(d)>> \o <<>>, d)
      BY SaleIs
    <2> HIDE DEF o, deal, tail
    <2>4. /\ Proper(o, t) /\ \A sc : Asking(AfterPlace, tail, sc) => NoSale(o)
          /\ FinishLeads(o, AfterPlace, tail, deal, <<>>)
      BY <1>5, <2>1, <2>2, <2>3, FinishDoes, AfterPlaceIs
    <2>5. \A sc : Shows(r, v, t, sc) <=> Asking(AfterPlace, tail, sc)
      BY <1>3, <1>5 DEF ListedShows, tail
    <2>6. ASSUME NEW w \in Deal, Counts(r, v, t, w) PROVE Keeps(o, r, v, t, w)
      <3>1. Fits(deal, AfterPlace, tail, w)
        BY <1>5, <2>6 DEF Counts, ListedCounts, deal, tail
      <3>2. AsksNext(AfterPlace, tail, o.say) => Shows(r, v, t, o.say)
        BY <2>5 DEF AsksNext
      <3> QED BY <2>4, <2>6, <3>1, <3>2, FinishKeeps, NoneAfter
    <2> QED BY <2>4, <2>5, <2>6 DEF Replies, o
  <1> QED BY <1>4, <1>5

(* The questions after a page. *)
LEMMA PickDoes ==
    ASSUME kind \in {"data", "elect", "swap"}, NEW rest \in Seq(Segs), NEW prev \in BOOLEAN,
           NEW deal \in Deal, NEW list \in Lists, NEW t, rest # <<>> => t # <<>>,
           Nav(rest, prev).picked # 0,
           NEW after \in Seq(Ops), \A d \in Deal : Sale(<<Buy(d)>> \o after, d),
           NEW o, o = Finish(AsksAfter(Nav(rest, prev).picked), Rest(rest, prev),
                             With(deal, list, Nav(rest, prev).picked), after)
    PROVE  /\ Proper(o, t)
           /\ \A sc : PickAsking(list, rest, prev, sc) => NoSale(o)
           /\ FinishLeads(o, AsksAfter(Nav(rest, prev).picked), Rest(rest, prev),
                          With(deal, list, Nav(rest, prev).picked), after)
           /\ AsksNext(AsksAfter(Nav(rest, prev).picked), Rest(rest, prev), o.say)
                 => PickAsking(list, rest, prev, o.say)
  <1> DEFINE nav == Nav(rest, prev)
             asks == AsksAfter(nav.picked)
             tail == Rest(rest, prev)
             d == With(deal, list, nav.picked)
  <1>a. /\ nav.picked \in 0..Plans /\ nav.used \in 0..Len(rest)
        /\ tail \in Seq(Segs) /\ Len(tail) = Len(rest) - nav.used
    BY NavIs
  <1>b. nav.picked # 0
    OBVIOUS
  <1> HIDE DEF tail, nav
  <1>1. nav.picked \in 1..Plans /\ tail \in Seq(Segs)
    BY <1>a, <1>b, Constants
  <1>2. tail # <<>> => t # <<>>
    BY <1>a
  <1> USE DEF nav
  <1>3. d \in Deal
    BY <1>1, WithIs
  <1>4. asks \in Questions
    BY AsksAfterIs
  <1>5. \A i \in DOMAIN asks : asks[i] \in AsksOf(kind)
    BY DEF AsksAfter, AsksOf
  <1>6. \A sc : PickAsking(list, rest, prev, sc) => Asking(asks, tail, sc)
    BY <1>b DEF PickAsking, tail
  <1>7. ASSUME AsksNext(asks, tail, o.say) PROVE PickAsking(list, rest, prev, o.say)
    <2>1. PICK what \in {"ident", "amount", "pin", "contact", "token"} : o.say = Ask(what)
      BY <1>7 DEF AsksNext
    <2> QED BY <1>7, <1>b, <2>1 DEF PickAsking, tail, AsksNext
  <1>8. o = Finish(asks, tail, d, after)
    BY DEF tail
  <1> HIDE DEF asks, tail, d
  <1>9. /\ Proper(o, t) /\ \A sc : Asking(asks, tail, sc) => NoSale(o)
        /\ FinishLeads(o, asks, tail, d, after)
    BY <1>1, <1>2, <1>3, <1>4, <1>5, <1>8, FinishDoes
  <1> QED BY <1>6, <1>7, <1>9 DEF asks, tail, d

LEMMA SwapReplies ==
    ASSUME kind = "swap", NEW r \in Redis, NEW v \in Lists, NEW t \in Texts
    PROVE  Replies(Swap(t), r, v, t)
  <1> DEFINE o == Swap(t)
             nav == Nav(t, FALSE)
  <1>1. t \in Seq(Segs) /\ "item" \in AsksOf(kind) /\ 1 \in Lists /\ NoDeal \in Deal
        /\ nav.page \in Nat
    BY Constants, AbsentIs, NavIs DEF Texts, AsksOf
  <1>3. \A sc : Shows(r, v, t, sc) <=> PickAsking(1, t, FALSE, sc)
    BY DEF Shows
  <1>4. CASE nav.picked = 0
    <2>1. o = Say(Page("item", 1, nav.page))
      BY <1>4 DEF Swap, Nav
    <2>2. PickAsking(1, t, FALSE, Page("item", 1, nav.page))
      BY <1>4 DEF PickAsking
    <2>3. GoodScreen(Page("item", 1, nav.page))
      BY <1>1, GoodScreens
    <2> QED BY <1>3, <2>1, <2>2, <2>3, SayReplies
  <1>5. CASE nav.picked # 0
    <2> DEFINE deal == With(NoDeal, 1, nav.picked)
               asks == AsksAfter(nav.picked)
               tail == Rest(t, FALSE)
    <2>1. o = Finish(asks, tail, deal, <<>>)
      BY <1>5 DEF Swap, Nav, With, AsksAfter, Rest
    <2>2. <<>> \in Seq(Ops) /\ \A d \in Deal : Sale(<<Buy(d)>> \o <<>>, d)
      BY SaleIs
    <2> HIDE DEF o
    <2>4. /\ Proper(o, t) /\ \A sc : PickAsking(1, t, FALSE, sc) => NoSale(o)
          /\ FinishLeads(o, asks, tail, deal, <<>>)
          /\ AsksNext(asks, tail, o.say) => PickAsking(1, t, FALSE, o.say)
      BY <1>1, <1>5, <2>1, <2>2, PickDoes
    <2>6. ASSUME NEW w \in Deal, Counts(r, v, t, w) PROVE Keeps(o, r, v, t, w)
      <3>1. Fits(deal, asks, tail, w)
        BY <1>5, <2>6 DEF Counts, PickFits
      <3> HIDE DEF deal, asks, tail
      <3> QED BY <1>3, <2>4, <2>6, <3>1, FinishKeeps, NoneAfter
    <2> QED BY <1>3, <2>4, <2>6 DEF Replies, o
  <1> QED BY <1>4, <1>5


LEMMA UnderIs ==
    ASSUME NEW c, c.chosen \in Items \cup {NoItem}, NEW ident \in 0..Wrong
    PROVE  /\ Under(c, ident) \in Deal
           /\ Under(c, ident).item = NoItem /\ Under(c, ident).under = c.chosen
           /\ Under(c, ident).ident = ident
           /\ Under(c, ident).contact = 0 /\ Under(c, ident).amount = 0
  <1> DEFINE y == c.chosen
  <1>a. y \in Items \cup {NoItem}
    OBVIOUS
  <1> HIDE DEF y
  <1>b. Under(c, ident) = [NoDeal EXCEPT !.under = y, !.ident = ident]
    BY DEF Under, y
  <1>c. NoDeal \in Deal /\ NoDeal.item = NoItem /\ NoDeal.contact = 0 /\ NoDeal.amount = 0
    BY AbsentIs DEF NoDeal
  <1>1. /\ Under(c, ident) \in Deal
        /\ Under(c, ident).item = NoItem /\ Under(c, ident).under = y
        /\ Under(c, ident).ident = ident
        /\ Under(c, ident).contact = 0 /\ Under(c, ident).amount = 0
    BY <1>a, <1>b, <1>c DEF Deal
  <1> QED BY <1>1 DEF y

(* What is sold under a plan type, or a DISCO. *)
Sold(c, ident, list, n) ==
    [NoDeal EXCEPT !.item = [list |-> list, n |-> n], !.under = c.chosen, !.ident = ident]

LEMMA SoldIs ==
    ASSUME NEW c, c.chosen \in Items \cup {NoItem}, NEW ident \in 0..Wrong,
           NEW list \in Lists, NEW n \in 1..Plans
    PROVE  Sold(c, ident, list, n) = With(Under(c, ident), list, n)
  <1> DEFINE y == c.chosen
             x == [list |-> list, n |-> n]
  <1>1. y \in Items \cup {NoItem} /\ x \in Items /\ NoDeal \in Deal
    BY OneItem, AbsentIs
  <1>2. Sold(c, ident, list, n) = [NoDeal EXCEPT !.item = x, !.under = y, !.ident = ident]
    BY DEF Sold
  <1>3. With(Under(c, ident), list, n)
          = [[NoDeal EXCEPT !.under = y, !.ident = ident] EXCEPT !.item = x]
    BY DEF With, Under
  <1> HIDE DEF x, y
  <1>4. [NoDeal EXCEPT !.item = x, !.under = y, !.ident = ident]
          = [[NoDeal EXCEPT !.under = y, !.ident = ident] EXCEPT !.item = x]
    BY <1>1 DEF NoDeal
  <1> QED BY <1>2, <1>3, <1>4

LEMMA BrowseIs ==
    ASSUME NEW nav, NEW what \in {"group", "item"} \cap AsksOf(kind), NEW list \in Lists,
           nav.page \in Nat, nav.error \in BOOLEAN,
           kind \in {"elect", "bet", "cable"} \/ (kind = "data" /\ what = "item")
    PROVE  /\ \/ BrowseOrEnd(nav, what, list) = Say(End)
              \/ BrowseOrEnd(nav, what, list) = Say(Page(what, list, nav.page)) /\ ~nav.error
           /\ GoodScreen(Page(what, list, nav.page)) /\ GoodScreen(End)
  BY GoodScreens DEF BrowseOrEnd

LEMMA ItemAsked ==
    /\ kind \in {"data", "elect", "bet", "cable", "bank", "swap"} => "item" \in AsksOf(kind)
    /\ kind \in {"data", "elect"} => "group" \in AsksOf(kind)
    /\ kind \in {"airtime", "data", "elect", "bet", "cable", "bank"} =>
          "ident" \in AsksOf(kind)
  BY DEF AsksOf

(* The plans of the type that was picked. *)
LEMMA DataPlansDo ==
    ASSUME kind = "data"
    PROVE  \A c, o : \A t, rest \in Seq(Segs) :
        /\ c.list \in Lists /\ c.chosen \in Items \cup {NoItem} /\ t # <<>>
        /\ o = DataPlans(t, c, rest)
        => /\ Proper(o, t) /\ \A sc : PickAsking(c.list, rest, TRUE, sc) => NoSale(o)
           /\ \/ o.todo = <<>> /\ (o.say = End \/ PickAsking(c.list, rest, TRUE, o.say))
              \/ /\ o.say = End
                 /\ \E d \in Deal : /\ o.todo = <<Buy(d)>>
                                    /\ \A w \in Deal :
                                          PickFits(Under(c, t[1]), c.list, rest, TRUE, w)
                                             => Agrees(d, w)
           /\ Nav(rest, TRUE).picked = 0 => o.todo = <<>>
  <1> TAKE c, o
  <1> TAKE t, rest \in Seq(Segs)
  <1> HAVE /\ c.list \in Lists /\ c.chosen \in Items \cup {NoItem} /\ t # <<>>
           /\ o = DataPlans(t, c, rest)
  <1> DEFINE nav == Nav(rest, TRUE)
  <1>1. nav.page \in Nat /\ nav.error \in BOOLEAN /\ nav.picked \in 0..Plans
    BY NavIs
  <1>2. t[1] \in Segs /\ t[1] \in 0..Wrong
    BY FirstIs DEF Segs
  <1> HIDE DEF nav
  <1>3. nav.picked # 0 => nav.picked \in 1..Plans
    BY <1>1, Constants
  <1>3a. nav.picked # 0 =>
           Sold(c, t[1], c.list, nav.picked) = With(Under(c, t[1]), c.list, nav.picked)
    BY <1>2, <1>3, SoldIs
  <1> USE DEF nav
  <1>4. CASE nav.picked = 0
    <2>1. o = BrowseOrEnd(nav, "item", c.list)
      BY <1>4 DEF DataPlans, Nav
    <2>2. ~nav.error => PickAsking(c.list, rest, TRUE, Page("item", c.list, nav.page))
      BY <1>4 DEF PickAsking
    <2> HIDE DEF nav
    <2>3. /\ o = Say(End) \/ (o = Say(Page("item", c.list, nav.page)) /\ ~nav.error)
          /\ GoodScreen(Page("item", c.list, nav.page)) /\ GoodScreen(End)
      BY <1>1, <2>1, ItemAsked, BrowseIs
    <2> QED BY <2>2, <2>3, SayProper
  <1>5. CASE nav.picked # 0
    <2> DEFINE deal == With(Under(c, t[1]), c.list, nav.picked)
               asks == AsksAfter(nav.picked)
               tail == Rest(rest, TRUE)
    <2>2. Sold(c, t[1], c.list, nav.picked) = deal
      BY <1>5, <1>3a
    <2>3. o = Finish(asks, tail, deal, <<>>)
      <3>1. o = Finish(asks, tail, Sold(c, t[1], c.list, nav.picked), <<>>)
        BY <1>5 DEF DataPlans, Nav, AsksAfter, Rest, Sold
      <3> QED BY <2>2, <3>1
    <2>4. <<>> \in Seq(Ops) /\ \A d \in Deal : Sale(<<Buy(d)>> \o <<>>, d)
      BY SaleIs
    <2>5. Under(c, t[1]) \in Deal
      BY <1>2, UnderIs
    <2>6. /\ Proper(o, t) /\ \A sc : PickAsking(c.list, rest, TRUE, sc) => NoSale(o)
          /\ FinishLeads(o, asks, tail, deal, <<>>)
          /\ AsksNext(asks, tail, o.say) => PickAsking(c.list, rest, TRUE, o.say)
      BY <1>5, <2>3, <2>4, <2>5, PickDoes
    <2>7. \A w : PickFits(Under(c, t[1]), c.list, rest, TRUE, w) => Fits(deal, asks, tail, w)
      BY <1>5 DEF PickFits
    <2>8. \A d \in Deal : <<Buy(d)>> \o <<>> = <<Buy(d)>>
      BY SaleIs
    <2> HIDE DEF deal, asks, tail
    <2> QED BY <1>5, <2>6, <2>7, <2>8 DEF FinishLeads
  <1> QED BY <1>4, <1>5


(* The copy with the item picked that has place n in its list. *)
Choosing(c, n) == [c EXCEPT !.chosen = [list |-> c.list, n |-> n]]

LEMMA ChosenIs ==
    ASSUME NEW c, GoodCopy(c), c # Absent, NEW n \in 1..Plans \cup 1..4
    PROVE  /\ GoodCopy(Choosing(c, n)) /\ Choosing(c, n) # Absent
           /\ Choosing(c, n).list = c.list /\ Choosing(c, n).list \in Lists
           /\ Choosing(c, n).chosen = [list |-> c.list, n |-> n]
           /\ Choosing(c, n).chosen \in Items /\ Choosing(c, n).chosen # NoItem
           /\ Choosing(c, n).len = c.len /\ Choosing(c, n).ident = c.ident
           /\ Choosing(c, n).agreed = c.agreed
  <1> DEFINE e == Choosing(c, n)
  <1> DEFINE x == [list |-> c.list, n |-> n]
  <1>1. c \in Catalog /\ c.list \in Lists /\ Absent.list = 0 /\ 0 \notin Lists
    BY AbsentIs, Constants DEF GoodCopy
  <1>2. x \in Items /\ x.list = c.list
    BY <1>1 DEF Items
  <1>3. x # NoItem
    BY <1>1, <1>2 DEF NoItem
  <1>4. e = [c EXCEPT !.chosen = x]
    BY DEF Choosing
  <1> HIDE DEF x, e
  <1>5. e \in Catalog /\ e.list = c.list /\ e.chosen = x /\ e.len = c.len
        /\ e.ident = c.ident /\ e.agreed = c.agreed
    BY <1>1, <1>2, <1>4 DEF Catalog
  <1> QED BY <1>1, <1>2, <1>3, <1>5 DEF GoodCopy, x, e

LEMMA NavNothing ==
    ASSUME NEW prev
    PROVE  Nav(<<>>, prev).picked = 0 /\ Nav(<<>>, prev).page = 0
           /\ Nav(<<>>, prev).used = 0 /\ ~Nav(<<>>, prev).error
  BY ParseNothing DEF Nav, AtStart

LEMMA FromEnd ==
    ASSUME NEW t \in Seq(Segs), NEW i \in 1..(Len(t) + 1)
    PROVE  /\ From(t, i) \in Seq(Segs)
           /\ From(t, i) # <<>> <=> i <= Len(t)
           /\ i = Len(t) + 1 => From(t, i) = <<>>
  <1>1. From(t, i) \in Seq(Segs) /\ Len(From(t, i)) = Len(t) + 1 - i
    BY FromTyped
  <1> HIDE DEF From
  <1>2. Len(t) \in Nat /\ (From(t, i) = <<>> <=> Len(From(t, i)) = 0)
    BY <1>1, EmptySeq
  <1> QED BY <1>1, <1>2

LEMMA OneWriteProper ==
    ASSUME NEW k \in Keys, NEW c, GoodCopy(c), NEW sc, GoodScreen(sc), NEW t
    PROVE  Proper(Do(<<Set(k, c)>>, sc), t) /\ NoSale(Do(<<Set(k, c)>>, sc))
  <1> DEFINE a == Set(k, c)
  <1>1. a \in Ops /\ Stores(a)
    BY OpsAre DEF GoodCopy
  <1> HIDE DEF a
  <1>2. <<a>> \in Seq(Ops) /\ <<a>> # <<>> /\ Writing(<<a>>)
    BY <1>1 DEF Writing
  <1>3. Proper(Do(<<a>>, sc), t) /\ NoSale(Do(<<a>>, sc))
    BY <1>2, DoProper
  <1> QED BY <1>3 DEF a

LEMMA OneSetReplies ==
    ASSUME NEW r \in Redis, NEW k \in Keys, NEW c, GoodCopy(c), NEW sc, GoodScreen(sc),
           NEW v, NEW t, NEW next, next = [r EXCEPT ![k] = c],
           \A w \in Deal : Plain(w) /\ Counts(r, v, t, w) =>
              Counts(next, v, t, w) /\ Ground(next, t) /\ Shows(next, v, t, sc)
    PROVE  Replies(Do(<<Set(k, c)>>, sc), r, v, t)
  <1> DEFINE a == Set(k, c)
  <1>a. c \in Catalog
    BY DEF GoodCopy
  <1>1. a.op = "set" /\ a.key = k /\ a.value = c
    BY <1>a, OpsAre
  <1>3. Proper(Do(<<a>>, sc), t) /\ NoSale(Do(<<a>>, sc))
    BY OneWriteProper
  <1> HIDE DEF a
  <1>2. next = Apply(r, a)
    BY <1>1 DEF Apply
  <1>4. ASSUME NEW w \in Deal, Plain(w), Counts(r, v, t, w)
        PROVE  Keeps(Do(<<a>>, sc), r, v, t, w)
    <2>1. Counts(next, v, t, w)
      BY <1>4
    <2>2. a.op \in {"set", "del"}
      BY <1>1
    <2>3. sc = End \/ (Ground(next, t) /\ Shows(next, v, t, sc))
      BY <1>4
    <2> QED BY <1>2, <2>1, <2>2, <2>3, OneWrite, Zenon
  <1> QED BY <1>3, <1>4 DEF Replies, a

(* The list is fetched for the phone that was typed. *)
LEMMA DataFetched ==
    ASSUME kind = "data", NEW r \in Redis, NEW v \in Lists, NEW t \in Texts,
           Len(t) = 1, t[1] \in Idents, NEW c, GoodCopy(c), c # Absent,
           NEW sc, GoodScreen(sc),
           IF c.chosen = NoItem THEN sc = Page("group", c.list, 0)
                                ELSE Buckets[c.list] = 1 /\ sc = Page("item", c.list, 0)
    PROVE  Replies(Do(<<Set(t[1], c)>>, sc), r, v, t)
  <1> SUFFICES ASSUME NEW next, next = [r EXCEPT ![t[1]] = c]
               PROVE  Replies(Do(<<Set(t[1], c)>>, sc), r, v, t)
    OBVIOUS
  <1>1. t[1] \in Keys /\ next[t[1]] = c /\ t # <<>>
    BY Constants DEF Redis
  <1>2. Shows(next, v, t, sc)
    BY <1>1 DEF Shows, DataShows
  <1>3. Ground(next, t)
    BY DEF Ground
  <1>4. \A w \in Deal : Counts(r, v, t, w) => Counts(next, v, t, w)
    BY <1>1 DEF Counts, DataCounts
  <1> QED BY <1>1, <1>2, <1>3, <1>4, OneSetReplies


LEMMA AtLeastTwo == \A n \in Nat : n # 0 /\ n # 1 => n >= 2
  OBVIOUS

LEMMA DataReplies ==
    ASSUME kind = "data", NEW r \in Redis, NEW v \in Lists, NEW t \in Texts,
           NEW c, t # <<>> /\ t[1] \in Idents => c = r[t[1]]
    PROVE  Replies(Data(t, c, v), r, v, t)
  <1> DEFINE o == Data(t, c, v)
  <1>1. t \in Seq(Segs)
    BY DEF Texts
  <1>2. /\ GoodScreen(End) /\ GoodScreen(Ask("ident"))
        /\ GoodScreen(Page("group", v, 0)) /\ GoodScreen(Page("item", v, 0))
    BY ItemAsked, GoodScreens
  <1>3. CASE t = <<>>
    <2>1. o = Say(Ask("ident"))
      BY <1>3 DEF Data
    <2>2. Shows(r, v, t, Ask("ident"))
      BY <1>3 DEF Shows, DataShows
    <2> QED BY <1>2, <2>1, <2>2, SayReplies
  <1>4. CASE t # <<>> /\ t[1] \notin Idents
    <2>1. o = Say(End)
      BY <1>4 DEF Data
    <2> QED BY <1>2, <2>1, SayReplies
  <1>5. CASE t # <<>> /\ t[1] \in Idents /\ Len(t) = 1 /\ Buckets[v] = 1
    <2> DEFINE e == [Fetched(v) EXCEPT !.chosen = [list |-> v, n |-> 1]]
               f == Fetched(v)
    <2>1. o = Do(<<Set(t[1], e)>>, Page("item", v, 0))
      BY <1>5 DEF Data
    <2>2. e = Choosing(f, 1)
      BY FetchedIs DEF Choosing
    <2>2a. GoodCopy(f) /\ f # Absent /\ f.list = v
      BY FetchedIs
    <2>2b. 1 \in 1..Plans \cup 1..4
      OBVIOUS
    <2> HIDE DEF e, f
    <2>2c. GoodCopy(e) /\ e # Absent /\ e.list = f.list /\ e.chosen # NoItem
      BY <2>2, <2>2a, <2>2b, ChosenIs
    <2>3. GoodCopy(e) /\ e # Absent /\ e.list = v /\ e.chosen # NoItem
      BY <2>2a, <2>2c
    <2>4. IF e.chosen = NoItem THEN Page("item", v, 0) = Page("group", e.list, 0)
          ELSE Buckets[e.list] = 1 /\ Page("item", v, 0) = Page("item", e.list, 0)
      BY <1>5, <2>3
    <2> QED BY <1>2, <1>5, <2>1, <2>3, <2>4, DataFetched
  <1>6. CASE t # <<>> /\ t[1] \in Idents /\ Len(t) = 1 /\ Buckets[v] # 1
    <2>1. o = Do(<<Set(t[1], Fetched(v))>>, Page("group", v, 0))
      BY <1>6 DEF Data
    <2>2. GoodCopy(Fetched(v)) /\ Fetched(v) # Absent /\ Fetched(v).list = v
          /\ Fetched(v).chosen = NoItem
      BY FetchedIs
    <2> QED BY <1>2, <1>6, <2>1, <2>2, DataFetched
  <1>7. ASSUME t # <<>>, t[1] \in Idents, Len(t) # 1
        PROVE  /\ Len(t) >= 2 /\ 3 \in 1..(Len(t) + 1) /\ From(t, 3) \in Seq(Segs)
               /\ Len(t) = 2 => From(t, 3) = <<>>
               /\ t[1] \in Keys /\ t[1] \in 0..Wrong /\ c = r[t[1]] /\ GoodCopy(c)
               /\ c \in Catalog
               /\ t[2] \in Segs
    <2>1. Len(t) >= 2 /\ 3 \in 1..(Len(t) + 1) /\ t[2] \in Segs /\ Len(t) \in Nat
      <3>1. Len(t) \in Nat /\ Len(t) # 0 /\ Len(t) # 1
        BY <1>1, <1>7, FirstIs
      <3>2. Len(t) >= 2
        BY <3>1, AtLeastTwo, Zenon
      <3> QED BY <1>1, <3>1, <3>2
    <2>2. From(t, 3) \in Seq(Segs)
      BY <1>1, <2>1, FromEnd
    <2>3. Len(t) = 2 => From(t, 3) = <<>>
      <3>1. Len(t) = 2 => ~(3 <= Len(t))
        BY <2>1
      <3> QED BY <1>1, <2>1, <3>1, FromEnd
    <2>4. t[1] \in Keys /\ t[1] \in Segs
      BY <1>7, Constants
    <2>5. GoodCopy(r[t[1]])
      BY <2>4, RedisIs
    <2> QED BY <1>7, <2>1, <2>2, <2>3, <2>4, <2>5 DEF GoodCopy, Segs
  <1>8. CASE t # <<>> /\ t[1] \in Idents /\ Len(t) # 1 /\ c = Absent
    <2>1. o = Say(End)
      BY <1>8 DEF Data
    <2> QED BY <1>2, <2>1, SayReplies
  <1>9. CASE t # <<>> /\ t[1] \in Idents /\ Len(t) # 1 /\ c # Absent /\ c.chosen # NoItem
    <2> DEFINE rest == From(t, 3)
    <2>1. o = DataPlans(t, c, rest)
      BY <1>9 DEF Data
    <2>2. c.list \in Lists /\ c.chosen \in Items \cup {NoItem}
      BY <1>7, <1>9 DEF GoodCopy, Catalog
    <2>3. \A sc : Shows(r, v, t, sc) <=> PickAsking(c.list, rest, TRUE, sc)
      BY <1>7, <1>9 DEF Shows, DataShows
    <2>4. \A w : Counts(r, v, t, w) => PickFits(Under(c, t[1]), c.list, rest, TRUE, w)
      BY <1>7, <1>9 DEF Counts, DataCounts
    <2>4a. rest \in Seq(Segs)
      BY <1>7, <1>9
    <2> HIDE DEF o, rest
    <2>5. /\ Proper(o, t) /\ \A sc : PickAsking(c.list, rest, TRUE, sc) => NoSale(o)
          /\ \/ o.todo = <<>> /\ (o.say = End \/ PickAsking(c.list, rest, TRUE, o.say))
             \/ /\ o.say = End
                /\ \E d \in Deal : /\ o.todo = <<Buy(d)>>
                                   /\ \A w \in Deal :
                                         PickFits(Under(c, t[1]), c.list, rest, TRUE, w)
                                            => Agrees(d, w)
      BY <1>1, <1>9, <2>1, <2>2, <2>4a, DataPlansDo
    <2>6. ASSUME NEW w \in Deal, Counts(r, v, t, w) PROVE Keeps(o, r, v, t, w)
      <3>1. CASE o.todo = <<>>
        <4>1. \A d : <<Buy(d)>> # <<>>
          OBVIOUS
        <4> QED BY <2>3, <2>5, <3>1, <4>1 DEF Keeps
      <3>2. CASE o.todo # <<>>
        <4>1. PICK d \in Deal : o.say = End /\ o.todo = <<Buy(d)>> /\ Agrees(d, w)
          BY <2>4, <2>5, <2>6, <3>2
        <4>2. o.todo = <<Buy(d)>> \o <<>>
          BY <4>1, SaleIs
        <4> QED BY <2>6, <4>1, <4>2, SaleKeeps, NoneAfter
      <3> QED BY <3>1, <3>2
    <2> QED BY <2>3, <2>5, <2>6 DEF Replies, o
  <1>10. CASE t # <<>> /\ t[1] \in Idents /\ Len(t) # 1 /\ c # Absent /\ c.chosen = NoItem
              /\ t[2] \notin 1..Buckets[c.list]
    <2>1. o = Say(End)
      BY <1>10 DEF Data
    <2> QED BY <1>2, <2>1, SayReplies
  <1>11. CASE t # <<>> /\ t[1] \in Idents /\ Len(t) # 1 /\ c # Absent /\ c.chosen = NoItem
              /\ t[2] \in 1..Buckets[c.list]
    <2> DEFINE rest == From(t, 3)
               e == [c EXCEPT !.chosen = [list |-> c.list, n |-> t[2]]]
               p == DataPlans(t, e, rest)
               a == Set(t[1], e)
               next == [r EXCEPT ![t[1]] = e]
    <2>1. o = Do(<<a>> \o p.todo, p.say)
      BY <1>11 DEF Data
    <2>2. t[2] \in 1..Plans \cup 1..4 /\ c.list \in Lists
      <3>1. c.list \in Lists
        BY <1>7, <1>11 DEF GoodCopy
      <3>2. Buckets[c.list] \in 1..4
        BY <3>1, Constants
      <3> QED BY <1>11, <3>1, <3>2
    <2>3. /\ GoodCopy(e) /\ e # Absent /\ e.list = c.list /\ e.list \in Lists
          /\ e.chosen = [list |-> c.list, n |-> t[2]] /\ e.chosen \in Items /\ e.chosen # NoItem
      BY <1>7, <1>11, <2>2, ChosenIs DEF Choosing
    <2>3a. rest \in Seq(Segs) /\ e.chosen \in Items \cup {NoItem}
      BY <1>7, <1>11, <2>3
    <2> HIDE DEF e, rest
    <2>3b. /\ Proper(p, t)
           /\ \/ p.todo = <<>> /\ (p.say = End \/ PickAsking(e.list, rest, TRUE, p.say))
              \/ /\ p.say = End
                 /\ \E d \in Deal : /\ p.todo = <<Buy(d)>>
                                    /\ \A w \in Deal :
                                          PickFits(Under(e, t[1]), e.list, rest, TRUE, w)
                                             => Agrees(d, w)
           /\ Nav(rest, TRUE).picked = 0 => p.todo = <<>>
      BY <1>1, <1>11, <2>3, <2>3a, DataPlansDo, Zenon
    <2>4. /\ Proper(p, t)
          /\ \/ p.todo = <<>> /\ (p.say = End \/ PickAsking(e.list, rest, TRUE, p.say))
             \/ /\ p.say = End
                /\ \E d \in Deal : p.todo = <<Buy(d)>>
          /\ Nav(rest, TRUE).picked = 0 => p.todo = <<>>
      BY <2>3b
    <2>5. a \in Ops /\ a.op = "set" /\ Stores(a) /\ a.key = t[1] /\ a.value = e
      BY <1>7, <1>11, <2>3, OpsAre DEF GoodCopy
    <2>5a. GoodScreen(p.say)
      BY <2>4 DEF Proper
    <2> HIDE DEF o, p, a, next
    <2>6. <<a>> \o <<>> = <<a>>
      <3>1. <<a>> \in Seq({a})
        OBVIOUS
      <3> QED BY <3>1, ConcatEmptySeq
    <2>7. Proper(o, t)
      <3>1. CASE p.todo = <<>>
        <4>1. <<a>> \in Seq(Ops) /\ <<a>> # <<>> /\ Writing(<<a>>)
          BY <2>5 DEF Writing
        <4> QED BY <2>1, <2>5a, <2>6, <3>1, <4>1, DoProper
      <3>2. CASE p.todo # <<>>
        <4>1. PICK d \in Deal : p.say = End /\ p.todo = <<Buy(d)>>
          BY <2>4, <3>2
        <4> DEFINE todo == <<a, Buy(d)>>
        <4>2. <<a>> \o p.todo = todo
          BY <4>1, Joined
        <4>3. todo \in Seq(Ops) /\ Len(todo) = 2 /\ todo[1] = a /\ todo[2] = Buy(d)
              /\ todo # <<>>
          BY <2>5, OpsAre
        <4> HIDE DEF todo
        <4>4a. o = Do(todo, End)
          BY <2>1, <4>1, <4>2
        <4>4. o.todo = todo /\ o.say = End /\ o # Panic
          BY <4>3, <4>4a, DoIs
        <4>5. Sale(todo, d)
          BY <2>5, <4>3 DEF Sale
        <4>6. TodoOK(o.todo, o.say)
          BY <4>3, <4>4, <4>5 DEF TodoOK
        <4> QED BY <1>2, <1>11, <4>4, <4>6 DEF Proper
      <3> QED BY <3>1, <3>2
    <2>8. \A sc : ~Shows(r, v, t, sc)
      BY <1>7, <1>11 DEF Shows, DataShows
    <2>9. ASSUME NEW w \in Deal, Counts(r, v, t, w) PROVE Keeps(o, r, v, t, w)
      <3>1. /\ w.ident = t[1] /\ Len(t) = 2 /\ w.under = [list |-> c.list, n |-> t[2]]
        BY <1>7, <1>11, <2>9 DEF Counts, DataCounts
      <3>2. rest = <<>> /\ Nav(rest, TRUE).picked = 0
        BY <1>7, <1>11, <3>1, NavNothing DEF rest
      <3>3. o = Do(<<a>>, p.say) /\ (p.say = End \/ PickAsking(e.list, rest, TRUE, p.say))
        <4>1. \A d : <<Buy(d)>> # <<>>
          OBVIOUS
        <4> QED BY <2>1, <2>4, <2>6, <3>2, <4>1
      <3>4. next[t[1]] = e
        BY <1>7, <1>11 DEF Redis, next
      <3>5. t[1] \in 0..Wrong /\ e.chosen \in Items \cup {NoItem}
        BY <1>7, <1>11, <2>3
      <3>5a. /\ Under(e, t[1]).under = w.under /\ Under(e, t[1]).ident = w.ident
             /\ Under(e, t[1]).contact = 0 /\ Under(e, t[1]).amount = 0
        BY <2>3, <3>1, <3>5, UnderIs
      <3>6. Ready(Under(e, t[1]), e.list, w)
        BY <3>5a DEF Ready
      <3>7. PickFits(Under(e, t[1]), e.list, rest, TRUE, w)
        BY <3>2 DEF PickFits
      <3>8. Counts(next, v, t, w)
        BY <1>7, <1>11, <2>3, <3>1, <3>4, <3>6, <3>7 DEF Counts, DataCounts, rest
      <3>9. p.say = End \/ (Ground(next, t) /\ Shows(next, v, t, p.say))
        BY <1>7, <1>11, <2>3, <3>1, <3>3, <3>4 DEF Shows, DataShows, Ground, rest
      <3>10. next = Apply(r, a) /\ a.op \in {"set", "del"}
        BY <2>5 DEF Apply, next
      <3> QED BY <3>3, <3>8, <3>9, <3>10, OneWrite, Zenon
    <2> QED BY <2>7, <2>8, <2>9 DEF Replies, o
  <1> QED BY <1>3, <1>4, <1>5, <1>6, <1>8, <1>9, <1>10, <1>11


LEMMA TwoWrites ==
    \A r, a, b, v, t, w, say, one, two :
        /\ a.op \in {"set", "del"} /\ one = Apply(r, a)
        /\ b.op \in {"set", "del"} /\ two = Apply(one, b)
        /\ Counts(one, v, t, w) /\ Counts(two, v, t, w)
        /\ Ground(one, t) /\ Ground(two, t) /\ Shows(two, v, t, say)
        => Keeps(Do(<<a, b>>, say), r, v, t, w)
  <1> TAKE r, a, b, v, t, w, say, one, two
  <1> HAVE /\ a.op \in {"set", "del"} /\ one = Apply(r, a)
           /\ b.op \in {"set", "del"} /\ two = Apply(one, b)
           /\ Counts(one, v, t, w) /\ Counts(two, v, t, w)
           /\ Ground(one, t) /\ Ground(two, t) /\ Shows(two, v, t, say)
  <1>1. Do(<<a, b>>, say).todo = <<a, b>> /\ Do(<<a, b>>, say).say = say
    BY DEF Do
  <1>2. Promise(r, <<a, b>>, v, t, w, say)
    BY DEF Promise, Step1, Step2, Lands, Sound
  <1>3. SalesAgree(<<a, b>>, w)
    BY DEF SalesAgree
  <1>4. <<a, b>> # <<>>
    OBVIOUS
  <1> QED BY <1>1, <1>2, <1>3, <1>4, Zenon DEF Keeps

LEMMA ThreeWrites ==
    \A r, a, b, c, v, t, w, say, one, two, three :
        /\ a.op \in {"set", "del"} /\ one = Apply(r, a)
        /\ b.op \in {"set", "del"} /\ two = Apply(one, b)
        /\ c.op \in {"set", "del"} /\ three = Apply(two, c)
        /\ Counts(one, v, t, w) /\ Counts(two, v, t, w) /\ Counts(three, v, t, w)
        /\ Ground(one, t) /\ Ground(two, t) /\ Ground(three, t) /\ Shows(three, v, t, say)
        => Keeps(Do(<<a, b, c>>, say), r, v, t, w)
  <1> TAKE r, a, b, c, v, t, w, say, one, two, three
  <1> HAVE /\ a.op \in {"set", "del"} /\ one = Apply(r, a)
           /\ b.op \in {"set", "del"} /\ two = Apply(one, b)
           /\ c.op \in {"set", "del"} /\ three = Apply(two, c)
           /\ Counts(one, v, t, w) /\ Counts(two, v, t, w) /\ Counts(three, v, t, w)
           /\ Ground(one, t) /\ Ground(two, t) /\ Ground(three, t)
           /\ Shows(three, v, t, say)
  <1>1. Do(<<a, b, c>>, say).todo = <<a, b, c>> /\ Do(<<a, b, c>>, say).say = say
    BY DEF Do
  <1>2. Promise(r, <<a, b, c>>, v, t, w, say)
    BY DEF Promise, Step1, Step2, Step3, Lands, Sound
  <1>3. SalesAgree(<<a, b, c>>, w)
    BY DEF SalesAgree
  <1>4. <<a, b, c>> # <<>>
    OBVIOUS
  <1> QED BY <1>1, <1>2, <1>3, <1>4, Zenon DEF Keeps

LEMMA WritesProper ==
    ASSUME NEW a \in Ops, Stores(a), NEW b \in Ops, Stores(b), NEW c \in Ops, Stores(c),
           NEW sc, GoodScreen(sc), NEW t
    PROVE  /\ Proper(Do(<<a, b>>, sc), t) /\ NoSale(Do(<<a, b>>, sc))
           /\ Proper(Do(<<a, b, c>>, sc), t) /\ NoSale(Do(<<a, b, c>>, sc))
  <1>1. <<a, b>> \in Seq(Ops) /\ <<a, b>> # <<>> /\ Writing(<<a, b>>)
    BY DEF Writing
  <1>2. <<a, b, c>> \in Seq(Ops) /\ <<a, b, c>> # <<>> /\ Writing(<<a, b, c>>)
    BY DEF Writing
  <1> QED BY <1>1, <1>2, DoProper

(* The copy with the item picked, the pick being used segments long. *)
PickedAt(c, used, n) == [c EXCEPT !.len = used, !.chosen = [list |-> c.list, n |-> n]]

LEMMA PickedAtIs ==
    ASSUME NEW c, GoodCopy(c), c # Absent, NEW n \in 1..Plans, NEW used \in 0..MaxText
    PROVE  /\ GoodCopy(PickedAt(c, used, n)) /\ PickedAt(c, used, n) # Absent
           /\ PickedAt(c, used, n).list = c.list
           /\ PickedAt(c, used, n).chosen = [list |-> c.list, n |-> n]
           /\ PickedAt(c, used, n).chosen # NoItem
           /\ PickedAt(c, used, n).len = used /\ PickedAt(c, used, n).ident = c.ident
           /\ PickedAt(c, used, n).agreed = c.agreed
  <1> DEFINE e == PickedAt(c, used, n)
             x == [list |-> c.list, n |-> n]
  <1>1. c \in Catalog /\ c.list \in Lists /\ Absent.list = 0 /\ 0 \notin Lists
    BY AbsentIs, Constants DEF GoodCopy
  <1>2. x \in Items /\ x.list = c.list
    BY <1>1 DEF Items
  <1>3. x # NoItem
    BY <1>1, <1>2 DEF NoItem
  <1>4. e = [c EXCEPT !.len = used, !.chosen = x]
    BY DEF PickedAt
  <1> HIDE DEF x, e
  <1>5. e \in Catalog /\ e.list = c.list /\ e.chosen = x /\ e.len = used
        /\ e.ident = c.ident /\ e.agreed = c.agreed
    BY <1>1, <1>2, <1>4 DEF Catalog
  <1> QED BY <1>1, <1>2, <1>3, <1>5 DEF GoodCopy, x, e

(* The products of the DISCO p, for the meter that was typed. *)
MeterAt(v, p, meter) == [Fetched(v) EXCEPT !.chosen = p.chosen, !.ident = meter,
                                           !.len = p.len + 1]

LEMMA MeterAtIs ==
    ASSUME NEW v \in Lists, NEW p \in Catalog, p.len + 1 \in 0..MaxText,
           p.chosen # NoItem, NEW meter \in 0..Wrong
    PROVE  /\ GoodCopy(MeterAt(v, p, meter)) /\ MeterAt(v, p, meter) # Absent
           /\ MeterAt(v, p, meter).list = v /\ MeterAt(v, p, meter).chosen = p.chosen
           /\ MeterAt(v, p, meter).len = p.len + 1 /\ MeterAt(v, p, meter).ident = meter
  <1> DEFINE e == MeterAt(v, p, meter)
             f == Fetched(v)
             x == p.chosen
             l == p.len + 1
  <1>1. /\ f \in Catalog /\ f.list = v /\ ~f.agreed
        /\ x \in Items \cup {NoItem} /\ x # NoItem /\ l \in 0..MaxText
        /\ Absent.list = 0 /\ 0 \notin Lists
    BY FetchedIs, AbsentIs, Constants DEF GoodCopy, Catalog
  <1>2. e = [f EXCEPT !.chosen = x, !.ident = meter, !.len = l]
    BY DEF MeterAt
  <1> HIDE DEF e, f, x, l
  <1>3. e \in Catalog /\ e.list = v /\ e.chosen = x /\ e.len = l /\ e.ident = meter
        /\ ~e.agreed
    BY <1>1, <1>2 DEF Catalog
  <1> QED BY <1>1, <1>3 DEF GoodCopy, e, x, l


LEMMA TextIs ==
    ASSUME NEW t \in Texts
    PROVE  /\ t \in Seq(Segs) /\ Len(t) \in Nat /\ Len(t) <= MaxText
           /\ t # <<>> <=> Len(t) # 0
           /\ \A i \in 1..Len(t) : t[i] \in Segs /\ t[i] \in 0..Wrong /\ t[i] # 0
  <1>1. t \in Seq(Segs) /\ Len(t) <= MaxText /\ Len(t) \in Nat
    BY DEF Texts
  <1>2. \A i \in 1..Len(t) : t[i] \in Segs
    BY <1>1
  <1>3. \A seg \in Segs : seg \in 0..Wrong /\ seg # 0
    BY DEF Segs
  <1>4. t = <<>> <=> Len(t) = 0
    BY <1>1, EmptySeq
  <1> QED BY <1>1, <1>2, <1>3, <1>4

(* The DISCO is picked. *)
LEMMA ElectPickReplies ==
    ASSUME kind = "elect", NEW r \in Redis, NEW v \in Lists, NEW t \in Texts, t # <<>>,
           NEW p, p = r[PickKey], p # Absent
    PROVE  Replies(ElectPick(t, p, v), r, v, t)
  <1> DEFINE o == ElectPick(t, p, v)
             nav == Nav(t, TRUE)
  <1>1. /\ t \in Seq(Segs) /\ PickKey \in Keys /\ CatKey \in Keys /\ CatKey # PickKey
        /\ Len(t) \in Nat /\ Len(t) <= MaxText
    BY Constants, TextIs
  <1>2. GoodCopy(p) /\ p \in Catalog /\ p.list \in Lists /\ p.len \in Nat
    BY <1>1, RedisIs
  <1>3. nav.page \in Nat /\ nav.error \in BOOLEAN /\ nav.picked \in 0..Plans
        /\ nav.used \in 0..Len(t)
    BY <1>1, NavIs
  <1>4. \A sc : Shows(r, v, t, sc) <=> PickShows(p, t, sc)
    BY DEF Shows
  <1>5. \A w : Counts(r, v, t, w) => PickCounts(p, t, w)
    BY DEF Counts
  <1>6. GoodScreen(End) /\ GoodScreen(Ask("ident")) /\ GoodScreen(Page("item", v, 0))
    BY ItemAsked, GoodScreens
  <1>7. CASE p.chosen = NoItem /\ nav.picked = 0
    <2>1. o = BrowseOrEnd(nav, "group", p.list)
      BY <1>7 DEF ElectPick, Nav
    <2>2. ~nav.error => Shows(r, v, t, Page("group", p.list, nav.page))
      BY <1>4, <1>7 DEF PickShows
    <2> HIDE DEF nav, o
    <2>3. /\ o = Say(End) \/ (o = Say(Page("group", p.list, nav.page)) /\ ~nav.error)
          /\ GoodScreen(Page("group", p.list, nav.page))
      BY <1>2, <1>3, <2>1, ItemAsked, BrowseIs
    <2> QED BY <1>6, <2>2, <2>3, SayReplies DEF o
  <1>8. CASE p.chosen = NoItem /\ nav.picked # 0
    <2> DEFINE e == PickedAt(p, nav.used, nav.picked)
               next == [r EXCEPT ![PickKey] = e]
    <2>1. o = Do(<<Set(PickKey, e)>>, Ask("ident"))
      BY <1>8 DEF ElectPick, Nav, PickedAt
    <2>2a. nav.picked \in 1..Plans /\ nav.used \in 0..MaxText /\ nav.used \in Nat
      <3> HIDE DEF nav
      <3> QED BY <1>1, <1>3, <1>8, Constants
    <2> HIDE DEF nav
    <2>2. /\ GoodCopy(e) /\ e # Absent /\ e.chosen = [list |-> p.list, n |-> nav.picked]
          /\ e.chosen # NoItem /\ e.len = nav.used
      BY <1>2, <2>2a, PickedAtIs
    <2>3. next[PickKey] = e
      BY <1>1 DEF Redis
    <2> HIDE DEF e, next
    <2>4. ASSUME NEW w \in Deal, Counts(r, v, t, w)
          PROVE  Counts(next, v, t, w) /\ Ground(next, t) /\ Shows(next, v, t, Ask("ident"))
      <3>1. w.under = e.chosen /\ e.len = Len(t)
        BY <1>5, <1>8, <2>2, <2>4 DEF PickCounts, nav
      <3>1a. Len(t) <= e.len + 1 /\ Len(t) # e.len + 1
        BY <1>1, <3>1
      <3>2. PickCounts(e, t, w)
        BY <2>2, <3>1, <3>1a DEF PickCounts
      <3>3. Counts(next, v, t, w)
        BY <2>2, <2>3, <3>2 DEF Counts
      <3>4. Shows(next, v, t, Ask("ident"))
        BY <2>2, <2>3, <3>1 DEF Shows, PickShows
      <3> QED BY <3>3, <3>4 DEF Ground
    <2> QED BY <1>1, <1>6, <2>1, <2>2, <2>4, OneSetReplies DEF next
  <1>9. CASE p.chosen # NoItem /\ (Len(t) <= p.len \/ t[p.len + 1] \notin Idents)
    <2>1. o = Say(End)
      BY <1>9 DEF ElectPick
    <2> QED BY <1>6, <2>1, SayReplies
  <1>10. CASE p.chosen # NoItem /\ ~(Len(t) <= p.len) /\ t[p.len + 1] \in Idents
    <2> DEFINE meter == t[p.len + 1]
               e == MeterAt(v, p, meter)
               a == Set(CatKey, e)
               b == Del(PickKey)
               one == [r EXCEPT ![CatKey] = e]
               two == [one EXCEPT ![PickKey] = Absent]
    <2>1. o = Do(<<a, b>>, Page("item", v, 0))
      BY <1>10 DEF ElectPick, MeterAt
    <2>2. p.len + 1 \in 1..Len(t) /\ p.len + 1 \in 0..MaxText
      BY <1>1, <1>2, <1>10, Constants
    <2>3. meter \in 0..Wrong
      BY <2>2, TextIs
    <2>4. /\ GoodCopy(e) /\ e # Absent /\ e.list = v /\ e.chosen = p.chosen
          /\ e.len = p.len + 1 /\ e.ident = meter
      BY <1>2, <1>10, <2>2, <2>3, MeterAtIs
    <2>4a. e \in Catalog
      BY <2>4 DEF GoodCopy
    <2> HIDE DEF e, meter
    <2>5. /\ a \in Ops /\ Stores(a) /\ a.op = "set" /\ a.key = CatKey /\ a.value = e
          /\ b \in Ops /\ Stores(b) /\ b.op = "del" /\ b.key = PickKey
      BY <1>1, <2>4, <2>4a, OpsAre
    <2> HIDE DEF a, b
    <2>6. one = Apply(r, a)
      BY <2>5 DEF Apply
    <2>7. two = Apply(one, b)
      BY <2>5 DEF Apply
    <2>8. one[PickKey] = p /\ two[PickKey] = Absent /\ two[CatKey] = e
      BY <1>1 DEF Redis
    <2> HIDE DEF o, one, two
    <2>9. Proper(o, t) /\ NoSale(o)
      BY <1>6, <2>1, <2>5, WritesProper
    <2>10. ASSUME NEW w \in Deal, Counts(r, v, t, w) PROVE Keeps(o, r, v, t, w)
      <3>1. w.under = p.chosen /\ Len(t) = p.len + 1 /\ w.ident = meter
        <4>1. PickCounts(p, t, w)
          BY <1>5, <2>10
        <4>2. w.under = p.chosen /\ Len(t) <= p.len + 1
          BY <1>10, <4>1 DEF PickCounts
        <4>3. Len(t) = p.len + 1
          BY <1>1, <1>2, <1>10, <4>2
        <4> QED BY <1>10, <4>1, <4>2, <4>3 DEF PickCounts, meter
      <3>2. From(t, e.len + 1) = <<>>
        BY <1>1, <2>4, <3>1, FromEnd
      <3>3. /\ Nav(From(t, e.len + 1), TRUE).picked = 0
            /\ Nav(From(t, e.len + 1), TRUE).page = 0
            /\ ~Nav(From(t, e.len + 1), TRUE).error
        BY <3>2, NavNothing
      <3>4. /\ Under(e, e.ident).under = w.under /\ Under(e, e.ident).ident = w.ident
            /\ Under(e, e.ident).contact = 0 /\ Under(e, e.ident).amount = 0
        <4>1. e.chosen \in Items \cup {NoItem} /\ e.ident \in 0..Wrong
          BY <2>3, <2>4, <2>4a DEF Catalog
        <4> QED BY <2>4, <3>1, <4>1, UnderIs
      <3>5. ProductCounts(e, t, w)
        BY <3>3, <3>4 DEF ProductCounts, Ready, PickFits
      <3>5a. Len(t) >= e.len
        BY <1>1, <2>4, <3>1
      <3>6. ProductShows(e, t, Page("item", v, 0))
        BY <2>4, <3>3, <3>5a DEF ProductShows, PickAsking
      <3>7. Counts(one, v, t, w)
        BY <1>5, <2>8, <2>10 DEF Counts
      <3>8. Counts(two, v, t, w) /\ Shows(two, v, t, Page("item", v, 0))
        BY <2>8, <3>5, <3>6 DEF Counts, Shows
      <3>9. Ground(one, t) /\ Ground(two, t)
        BY DEF Ground
      <3>10. a.op \in {"set", "del"} /\ b.op \in {"set", "del"}
        BY <2>5
      <3> QED BY <2>1, <2>6, <2>7, <3>7, <3>8, <3>9, <3>10, TwoWrites, Zenon
    <2> QED BY <2>9, <2>10 DEF Replies, o
  <1> QED BY <1>7, <1>8, <1>9, <1>10

(* The product and what follows it. *)
LEMMA ElectProductReplies ==
    ASSUME kind = "elect", NEW r \in Redis, NEW v \in Lists, NEW t \in Texts, t # <<>>,
           r[PickKey] = Absent, NEW a, a = r[CatKey]
    PROVE  Replies(ElectProduct(t, a), r, v, t)
  <1> DEFINE o == ElectProduct(t, a)
             rest == From(t, a.len + 1)
             nav == Nav(rest, TRUE)
             u == Under(a, a.ident)
             after == <<Del(CatKey)>>
  <1>1. t \in Seq(Segs) /\ CatKey \in Keys /\ Len(t) \in Nat
    BY Constants, TextIs
  <1>2. GoodCopy(a) /\ a \in Catalog /\ a.len \in Nat /\ a.ident \in 0..Wrong
        /\ a.chosen \in Items \cup {NoItem}
    BY <1>1, RedisIs
  <1>3. GoodScreen(End)
    BY GoodScreens
  <1>4. CASE a = Absent \/ Len(t) < a.len
    <2>1. o = Say(End)
      BY <1>4 DEF ElectProduct
    <2> QED BY <1>3, <2>1, SayReplies
  <1>5. ASSUME a # Absent, Len(t) >= a.len
        PROVE  /\ rest \in Seq(Segs) /\ a.list \in Lists
               /\ nav.page \in Nat /\ nav.error \in BOOLEAN
               /\ \A sc : Shows(r, v, t, sc) <=> PickAsking(a.list, rest, TRUE, sc)
               /\ \A w : Counts(r, v, t, w) => PickFits(u, a.list, rest, TRUE, w)
    <2>1. a.len + 1 \in 1..(Len(t) + 1)
      BY <1>1, <1>2, <1>5
    <2>2. rest \in Seq(Segs)
      BY <1>1, <2>1, FromEnd
    <2>3. a.list \in Lists
      BY <1>2, <1>5 DEF GoodCopy
    <2>4. \A sc : Shows(r, v, t, sc) <=> PickAsking(a.list, rest, TRUE, sc)
      BY <1>5 DEF Shows, ProductShows
    <2>5. \A w : Counts(r, v, t, w) => PickFits(u, a.list, rest, TRUE, w)
      BY <1>5 DEF Counts, ProductCounts
    <2> HIDE DEF rest
    <2> QED BY <2>2, <2>3, <2>4, <2>5, NavIs
  <1>6. CASE a # Absent /\ Len(t) >= a.len /\ nav.picked = 0
    <2>0. ~(Len(t) < a.len)
      BY <1>1, <1>2, <1>6
    <2>1. o = BrowseOrEnd(nav, "item", a.list)
      BY <1>6, <2>0 DEF ElectProduct, Nav
    <2>2. ~nav.error => Shows(r, v, t, Page("item", a.list, nav.page))
      BY <1>5, <1>6 DEF PickAsking
    <2>2a. nav.page \in Nat /\ nav.error \in BOOLEAN /\ a.list \in Lists
      BY <1>5, <1>6
    <2> HIDE DEF nav, o
    <2>3. /\ o = Say(End) \/ (o = Say(Page("item", a.list, nav.page)) /\ ~nav.error)
          /\ GoodScreen(Page("item", a.list, nav.page))
      BY <2>1, <2>2a, ItemAsked, BrowseIs
    <2> QED BY <1>3, <2>2, <2>3, SayReplies DEF o
  <1>7. CASE a # Absent /\ Len(t) >= a.len /\ nav.picked # 0
    <2> DEFINE asks == AsksAfter(nav.picked)
               tail == Rest(rest, TRUE)
               deal == With(u, a.list, nav.picked)
    <2>0. ~(Len(t) < a.len)
      BY <1>1, <1>2, <1>7
    <2>1. rest \in Seq(Segs) /\ a.list \in Lists
      BY <1>5, <1>7
    <2>1a. u \in Deal
      BY <1>2, UnderIs
    <2>1b. nav.picked \in 1..Plans
      <3>1. nav.picked \in 0..Plans
        BY <2>1, NavIs
      <3> HIDE DEF nav
      <3> QED BY <1>7, <3>1, Constants
    <2>2. Sold(a, a.ident, a.list, nav.picked) = deal
      <3> HIDE DEF nav
      <3> QED BY <1>2, <2>1, <2>1b, SoldIs
    <2>3. o = Finish(asks, tail, deal, after)
      <3>1. o = Finish(asks, tail, Sold(a, a.ident, a.list, nav.picked), after)
        BY <1>7, <2>0 DEF ElectProduct, Nav, AsksAfter, Rest, Sold
      <3> QED BY <2>2, <3>1
    <2>4. after \in Seq(Ops) /\ \A d \in Deal : Sale(<<Buy(d)>> \o after, d)
      BY <1>1, SaleIs, OpsAre
    <2>5. \A sc : Shows(r, v, t, sc) <=> PickAsking(a.list, rest, TRUE, sc)
      BY <1>5, <1>7
    <2>6. \A w : Counts(r, v, t, w) => Fits(deal, asks, tail, w)
      BY <1>5, <1>7 DEF PickFits
    <2> HIDE DEF o, rest, u, after
    <2>7. /\ Proper(o, t) /\ \A sc : PickAsking(a.list, rest, TRUE, sc) => NoSale(o)
          /\ FinishLeads(o, asks, tail, deal, after)
          /\ AsksNext(asks, tail, o.say) => PickAsking(a.list, rest, TRUE, o.say)
      BY <1>7, <2>1, <2>1a, <2>3, <2>4, PickDoes
    <2> HIDE DEF asks, tail, deal
    <2>8. ASSUME NEW w \in Deal, Counts(r, v, t, w) PROVE Keeps(o, r, v, t, w)
      <3>1. Fits(deal, asks, tail, w) /\ after \in {<<>>, <<Del(CatKey)>>}
        BY <2>6, <2>8 DEF after
      <3>2. AsksNext(asks, tail, o.say) => Shows(r, v, t, o.say)
        BY <2>5, <2>7
      <3> QED BY <2>7, <2>8, <3>1, <3>2, FinishKeeps
    <2> QED BY <2>5, <2>7, <2>8 DEF Replies, o
  <1>8. Len(t) < a.len \/ Len(t) >= a.len
    BY <1>1, <1>2
  <1> QED BY <1>4, <1>6, <1>7, <1>8

LEMMA ElectReplies ==
    ASSUME kind = "elect", NEW r \in Redis, NEW v \in Lists, NEW t \in Texts,
           NEW p, p = r[PickKey], NEW a, t # <<>> /\ p = Absent => a = r[CatKey]
    PROVE  Replies(Elect(t, p, a, v), r, v, t)
  <1> DEFINE o == Elect(t, p, a, v)
  <1>1. CASE t = <<>>
    <2> DEFINE x == Del(PickKey)
               y == Del(CatKey)
               f == Fetched(v)
               z == Set(PickKey, f)
               sc == Page("group", v, 0)
    <2>1. o = Do(<<x, y, z>>, sc)
      BY <1>1 DEF Elect
    <2>2. PickKey \in Keys /\ CatKey \in Keys /\ CatKey # PickKey
      BY Constants
    <2>3. f \in Catalog /\ GoodCopy(f) /\ f # Absent /\ f.list = v /\ f.chosen = NoItem
      BY FetchedIs DEF GoodCopy
    <2>4. GoodScreen(sc)
      BY ItemAsked, GoodScreens
    <2> HIDE DEF f
    <2>5. /\ x \in Ops /\ Stores(x) /\ x.op = "del" /\ x.key = PickKey
          /\ y \in Ops /\ Stores(y) /\ y.op = "del" /\ y.key = CatKey
      BY <2>2, OpsAre
    <2>6. z \in Ops /\ Stores(z) /\ z.op = "set" /\ z.key = PickKey /\ z.value = f
      BY <2>2, <2>3, OpsAre
    <2> HIDE DEF x, y, z
    <2> DEFINE one == Apply(r, x)
               two == Apply(one, y)
               three == Apply(two, z)
    <2>7. three[PickKey] = f
      <3>1. three = [[[r EXCEPT ![PickKey] = Absent] EXCEPT ![CatKey] = Absent]
                       EXCEPT ![PickKey] = f]
        BY <2>5, <2>6 DEF Apply
      <3> HIDE DEF three
      <3> QED BY <2>2, <3>1 DEF Redis
    <2> HIDE DEF one, two, three, o
    <2>8. Proper(o, t) /\ NoSale(o)
      BY <2>1, <2>4, <2>5, <2>6, WritesProper
    <2>9. \A m, w : Counts(m, v, t, w) /\ Ground(m, t)
      BY <1>1 DEF Counts, Ground
    <2>10. Shows(three, v, t, sc)
      BY <1>1, <2>3, <2>7, NavNothing DEF Shows, PickShows
    <2>10a. x.op \in {"set", "del"} /\ y.op \in {"set", "del"} /\ z.op \in {"set", "del"}
      BY <2>5, <2>6
    <2>10b. one = Apply(r, x) /\ two = Apply(one, y) /\ three = Apply(two, z)
      BY DEF one, two, three
    <2>11. \A w \in Deal : Keeps(o, r, v, t, w)
      BY <2>1, <2>9, <2>10, <2>10a, <2>10b, ThreeWrites, Zenon
    <2> QED BY <2>8, <2>11 DEF Replies, o
  <1>2. CASE t # <<>> /\ p # Absent
    BY <1>2, ElectPickReplies DEF Elect
  <1>3. CASE t # <<>> /\ p = Absent
    BY <1>3, ElectProductReplies DEF Elect
  <1> QED BY <1>1, <1>2, <1>3


(* The copy with the account, or the customer, that was typed. *)
Knows(c, ident) == [c EXCEPT !.ident = ident]

LEMMA KnowsIs ==
    ASSUME NEW c, GoodCopy(c), c # Absent, c.chosen # NoItem, NEW ident \in Segs
    PROVE  /\ GoodCopy(Knows(c, ident)) /\ Knows(c, ident) # Absent
           /\ Knows(c, ident).list = c.list /\ Knows(c, ident).chosen = c.chosen
           /\ Knows(c, ident).len = c.len /\ Knows(c, ident).ident = ident
           /\ Knows(c, ident).ident # 0 /\ Knows(c, ident).agreed = c.agreed
  <1> DEFINE e == Knows(c, ident)
  <1>1. c \in Catalog /\ c.list \in Lists /\ Absent.list = 0 /\ 0 \notin Lists
    BY AbsentIs, Constants DEF GoodCopy
  <1>2. ident \in 0..Wrong /\ ident # 0
    BY DEF Segs
  <1>3. e = [c EXCEPT !.ident = ident]
    BY DEF Knows
  <1> HIDE DEF e
  <1>4. /\ e \in Catalog /\ e.list = c.list /\ e.chosen = c.chosen /\ e.len = c.len
        /\ e.ident = ident /\ e.agreed = c.agreed
    BY <1>1, <1>2, <1>3 DEF Catalog
  <1> QED BY <1>1, <1>2, <1>4 DEF GoodCopy, e

LEMMA ChosenDeal ==
    ASSUME NEW c, c.chosen \in Items \cup {NoItem}, c.ident \in 0..Wrong
    PROVE  /\ Chosen(c) \in Deal
           /\ Chosen(c).item = c.chosen /\ Chosen(c).under = NoItem
           /\ Chosen(c).ident = c.ident
           /\ Chosen(c).contact = 0 /\ Chosen(c).amount = 0
  <1> DEFINE x == c.chosen
             n == c.ident
             d == Chosen(c)
  <1>1. d = [NoDeal EXCEPT !.item = x, !.ident = n] /\ x \in Items \cup {NoItem}
        /\ n \in 0..Wrong
    BY DEF Chosen
  <1> HIDE DEF x, n, d
  <1>2. /\ d \in Deal /\ d.item = x /\ d.under = NoItem /\ d.ident = n
        /\ d.contact = 0 /\ d.amount = 0
    BY <1>1, AbsentIs DEF Deal, NoDeal
  <1> QED BY <1>2 DEF x, n, d

LEMMA AfterAccountIs ==
    ASSUME kind \in {"bet", "cable"}
    PROVE  /\ AfterAccount \in Questions /\ AfterAccount # <<>>
           /\ \A i \in DOMAIN AfterAccount : AfterAccount[i] \in AsksOf(kind)
           /\ ~Asked("ident", AfterAccount) /\ ~Asked("token", AfterAccount)
           /\ Asked("amount", AfterAccount)
           /\ kind = "cable" => Asked("contact", AfterAccount)
           /\ AfterAccount[1] \in {"amount", "contact"}
           /\ AfterAccount[1] \in AsksOf(kind)
           /\ Asking(AfterAccount, <<>>, Ask(AfterAccount[1]))
  <1>1. CASE kind = "bet"
    <2>1. AfterAccount = <<"amount", "pin">>
      BY <1>1 DEF AfterAccount
    <2>2. AsksOf(kind) = {"item", "ident", "amount", "pin"}
      BY <1>1 DEF AsksOf
    <2> HIDE DEF AfterAccount
    <2>3. Asking(AfterAccount, <<>>, Ask(AfterAccount[1]))
      BY <2>1 DEF Asking
    <2> QED BY <1>1, <2>1, <2>2, <2>3 DEF Questions, Asked
  <1>2. CASE kind = "cable"
    <2>1. AfterAccount = <<"contact", "amount", "pin">>
      BY <1>2 DEF AfterAccount
    <2>2. AsksOf(kind) = {"item", "ident", "contact", "amount", "pin"}
      BY <1>2 DEF AsksOf
    <2>3. Asking(AfterAccount, <<>>, Ask(AfterAccount[1]))
      BY <2>1 DEF Asking
    <2> QED BY <1>2, <2>1, <2>2, <2>3 DEF Questions, Asked
  <1> QED BY <1>1, <1>2

(* What betting and cable TV fill by the account is right. *)
LEMMA AccountFits ==
    ASSUME kind \in {"bet", "cable"}, NEW c, c.chosen \in Items \cup {NoItem},
           c.ident \in 0..Wrong, NEW w, Plain(w), w.item = c.chosen, w.ident = c.ident
    PROVE  Fits(Chosen(c), AfterAccount, <<>>, w)
  <1> DEFINE d == Chosen(c)
  <1>1. /\ d.item = c.chosen /\ d.under = NoItem /\ d.ident = c.ident
        /\ d.contact = 0 /\ d.amount = 0
    BY ChosenDeal
  <1>2. "group" \notin AsksOf(kind)
        /\ (kind = "bet" => AsksOf(kind) \cap {"contact", "token"} = {})
    BY DEF AsksOf
  <1>3. w.under = NoItem /\ (kind = "bet" => w.contact = 0)
    BY <1>2 DEF Plain
  <1> HIDE DEF d
  <1>4. Fits(d, AfterAccount, <<>>, w)
    BY <1>1, <1>3, AfterAccountIs, FitsPick
  <1> QED BY <1>4 DEF d

LEMMA BetOrCableReplies ==
    ASSUME kind \in {"bet", "cable"}, NEW r \in Redis, NEW v \in Lists, NEW t \in Texts,
           NEW c, c = r[CatKey]
    PROVE  Replies(BetOrCable(t, c, v), r, v, t)
  <1> DEFINE o == BetOrCable(t, c, v)
             nav == Nav(t, TRUE)
             after == IF kind = "cable" THEN <<Del(CatKey)>> ELSE <<>>
             tail == From(t, c.len + 2)
  <1>1. /\ t \in Seq(Segs) /\ CatKey \in Keys /\ Len(t) \in Nat /\ Len(t) <= MaxText
    BY Constants, TextIs
  <1>2. GoodCopy(c) /\ c \in Catalog /\ c.len \in Nat /\ c.ident \in 0..Wrong
        /\ c.chosen \in Items \cup {NoItem} /\ (c # Absent => c.list \in Lists)
    BY <1>1, RedisIs
  <1>3. nav.page \in Nat /\ nav.error \in BOOLEAN /\ nav.picked \in 0..Plans
        /\ nav.used \in 0..Len(t)
    BY <1>1, NavIs
  <1>4. GoodScreen(End) /\ GoodScreen(Ask("ident")) /\ GoodScreen(Page("item", v, 0))
        /\ GoodScreen(Ask(AfterAccount[1]))
    BY ItemAsked, GoodScreens, AfterAccountIs
  <1>5. \A sc : Shows(r, v, t, sc) <=> AccountShows(c, t, sc)
    BY DEF Shows
  <1>6. \A w : Counts(r, v, t, w) => (t # <<>> /\ c # Absent => AccountCounts(c, t, w))
    BY DEF Counts
  <1>7. CASE t = <<>>
    <2> DEFINE x == Del(CatKey)
               f == Fetched(v)
               y == Set(CatKey, f)
               sc == Page("item", v, 0)
               one == Apply(r, x)
               two == Apply(one, y)
               next == [r EXCEPT ![CatKey] = f]
    <2>1. f \in Catalog /\ GoodCopy(f) /\ f # Absent /\ f.list = v /\ f.chosen = NoItem
      BY FetchedIs DEF GoodCopy
    <2>2. o = IF kind = "cable" THEN Do(<<x, y>>, sc) ELSE Do(<<y>>, sc)
      BY <1>7 DEF BetOrCable
    <2> HIDE DEF f
    <2>3. x \in Ops /\ Stores(x) /\ x.op = "del" /\ x.key = CatKey
      BY <1>1, OpsAre
    <2>4. y \in Ops /\ Stores(y) /\ y.op = "set" /\ y.key = CatKey /\ y.value = f
      BY <1>1, <2>1, OpsAre
    <2> HIDE DEF x
    <2>5. two[CatKey] = f
      <3>1. two = [[r EXCEPT ![CatKey] = Absent] EXCEPT ![CatKey] = f]
        BY <2>3, <2>4 DEF Apply
      <3> HIDE DEF two
      <3> QED BY <1>1, <3>1 DEF Redis
    <2>6. next[CatKey] = f
      BY <1>1 DEF Redis
    <2>7. \A m, w : Counts(m, v, t, w) /\ Ground(m, t)
      BY <1>7 DEF Counts, Ground
    <2>8. \A m : m[CatKey] = f => Shows(m, v, t, sc)
      BY <1>7, <2>1, NavNothing DEF Shows, AccountShows
    <2> HIDE DEF sc
    <2>9. CASE kind = "bet"
      <3>1. Replies(Do(<<y>>, sc), r, v, t)
        <4> HIDE DEF next
        <4>1. \A w \in Deal : Plain(w) /\ Counts(r, v, t, w) =>
                 Counts(next, v, t, w) /\ Ground(next, t) /\ Shows(next, v, t, sc)
          BY <2>6, <2>7, <2>8
        <4>2. GoodScreen(sc)
          BY <1>4 DEF sc
        <4> QED BY <1>1, <2>1, <4>1, <4>2, OneSetReplies DEF next
      <3> QED BY <2>2, <2>9, <3>1
    <2>10. CASE kind = "cable"
      <3> HIDE DEF y, one, two, o
      <3>1. o = Do(<<x, y>>, sc)
        BY <2>2, <2>10
      <3>2. Proper(o, t) /\ NoSale(o)
        <4>1. GoodScreen(sc)
          BY <1>4 DEF sc
        <4> QED BY <2>3, <2>4, <3>1, <4>1, WritesProper
      <3>3. x.op \in {"set", "del"} /\ y.op \in {"set", "del"}
        BY <2>3, <2>4
      <3>4. one = Apply(r, x) /\ two = Apply(one, y)
        BY DEF one, two
      <3>5. \A w \in Deal : Keeps(o, r, v, t, w)
        BY <2>5, <2>7, <2>8, <3>1, <3>3, <3>4, TwoWrites, Zenon
      <3> QED BY <3>2, <3>5 DEF Replies, o
    <2> QED BY <2>9, <2>10
  <1>8. CASE t # <<>> /\ c = Absent
    <2>1. o = Say(End)
      BY <1>8 DEF BetOrCable
    <2> QED BY <1>4, <2>1, SayReplies
  <1>9. CASE t # <<>> /\ c # Absent /\ c.chosen = NoItem /\ nav.picked = 0
    <2>1. o = BrowseOrEnd(nav, "item", c.list)
      BY <1>9 DEF BetOrCable, Nav
    <2>2. ~nav.error => Shows(r, v, t, Page("item", c.list, nav.page))
      BY <1>5, <1>9 DEF AccountShows
    <2> HIDE DEF nav, o
    <2>3. /\ o = Say(End) \/ (o = Say(Page("item", c.list, nav.page)) /\ ~nav.error)
          /\ GoodScreen(Page("item", c.list, nav.page))
      BY <1>2, <1>3, <1>9, <2>1, ItemAsked, BrowseIs
    <2> QED BY <1>4, <2>2, <2>3, SayReplies DEF o
  <1>10. CASE t # <<>> /\ c # Absent /\ c.chosen = NoItem /\ nav.picked # 0
    <2> DEFINE e == PickedAt(c, nav.used, nav.picked)
               next == [r EXCEPT ![CatKey] = e]
    <2>1. o = Do(<<Set(CatKey, e)>>, Ask("ident"))
      BY <1>10 DEF BetOrCable, Nav, PickedAt
    <2>2a. nav.picked \in 1..Plans /\ nav.used \in 0..MaxText /\ nav.used \in Nat
      <3> HIDE DEF nav
      <3> QED BY <1>1, <1>3, <1>10, Constants
    <2> HIDE DEF nav
    <2>2. /\ GoodCopy(e) /\ e # Absent /\ e.chosen = [list |-> c.list, n |-> nav.picked]
          /\ e.chosen # NoItem /\ e.len = nav.used /\ e.ident = 0
      BY <1>2, <1>10, <2>2a, PickedAtIs DEF GoodCopy
    <2>3. next[CatKey] = e
      BY <1>1 DEF Redis
    <2> HIDE DEF e, next
    <2>4. ASSUME NEW w \in Deal, Counts(r, v, t, w)
          PROVE  Counts(next, v, t, w) /\ Ground(next, t) /\ Shows(next, v, t, Ask("ident"))
      <3>1. w.item = e.chosen /\ e.len = Len(t)
        BY <1>6, <1>10, <2>2, <2>4 DEF AccountCounts, ItemCounts, nav
      <3>1a. Len(t) <= e.len + 1 /\ Len(t) # e.len + 1
        BY <1>1, <3>1
      <3>2. AccountCounts(e, t, w)
        BY <2>2, <3>1, <3>1a DEF AccountCounts
      <3>3. Counts(next, v, t, w)
        BY <2>2, <2>3, <3>2 DEF Counts
      <3>4. Shows(next, v, t, Ask("ident"))
        BY <1>10, <2>2, <2>3, <3>1 DEF Shows, AccountShows
      <3> QED BY <3>3, <3>4 DEF Ground
    <2> QED BY <1>1, <1>4, <2>1, <2>2, <2>4, OneSetReplies DEF next
  <1>11. CASE t # <<>> /\ c # Absent /\ c.chosen # NoItem /\ c.ident = 0 /\ Len(t) <= c.len
    <2>1. o = Say(End)
      BY <1>11 DEF BetOrCable
    <2> QED BY <1>4, <2>1, SayReplies
  <1>12. CASE t # <<>> /\ c # Absent /\ c.chosen # NoItem /\ c.ident = 0 /\ ~(Len(t) <= c.len)
    <2> DEFINE e == Knows(c, t[c.len + 1])
               next == [r EXCEPT ![CatKey] = e]
    <2>1. o = Do(<<Set(CatKey, e)>>, Ask(AfterAccount[1]))
      BY <1>12 DEF BetOrCable, Knows, AfterAccount
    <2>2a. c.len + 1 \in 1..Len(t)
      BY <1>1, <1>2, <1>12
    <2>2b. t[c.len + 1] \in Segs
      BY <1>1, <2>2a
    <2>2. /\ GoodCopy(e) /\ e # Absent /\ e.chosen = c.chosen /\ e.len = c.len
          /\ e.ident = t[c.len + 1] /\ e.ident # 0
      BY <1>2, <1>12, <2>2b, KnowsIs
    <2>2c. e.chosen \in Items \cup {NoItem} /\ e.ident \in 0..Wrong
      BY <2>2 DEF GoodCopy, Catalog
    <2>3. next[CatKey] = e
      BY <1>1 DEF Redis
    <2> HIDE DEF e, next
    <2>4. ASSUME NEW w \in Deal, Plain(w), Counts(r, v, t, w)
          PROVE  /\ Counts(next, v, t, w) /\ Ground(next, t)
                 /\ Shows(next, v, t, Ask(AfterAccount[1]))
      <3>1. w.item = e.chosen /\ Len(t) = e.len + 1 /\ w.ident = e.ident
        <4>1. AccountCounts(c, t, w)
          BY <1>6, <1>12, <2>4
        <4>2. w.item = c.chosen /\ Len(t) <= c.len + 1
          BY <1>12, <4>1 DEF AccountCounts
        <4>3. Len(t) = c.len + 1
          BY <1>1, <1>2, <1>12, <4>2
        <4> QED BY <1>12, <2>2, <4>1, <4>2, <4>3 DEF AccountCounts
      <3>2. From(t, e.len + 2) = <<>>
        <4>1. e.len + 2 = Len(t) + 1 /\ e.len + 2 \in 1..(Len(t) + 1)
          BY <1>1, <1>2, <2>2, <3>1
        <4> QED BY <1>1, <4>1, FromEnd
      <3>3. Fits(Chosen(e), AfterAccount, <<>>, w)
        BY <2>2c, <2>4, <3>1, AccountFits
      <3>4. Len(t) >= e.len + 1
        BY <1>1, <3>1
      <3>5. AccountCounts(e, t, w) /\ AccountShows(e, t, Ask(AfterAccount[1]))
        BY <1>12, <2>2, <3>2, <3>3, <3>4, AfterAccountIs DEF AccountCounts, AccountShows
      <3>6. Counts(next, v, t, w)
        BY <2>2, <2>3, <3>5 DEF Counts
      <3>7. Shows(next, v, t, Ask(AfterAccount[1]))
        BY <2>3, <3>5 DEF Shows
      <3> QED BY <3>6, <3>7 DEF Ground
    <2> QED BY <1>1, <1>4, <2>1, <2>2, <2>4, OneSetReplies DEF next
  <1>13. CASE t # <<>> /\ c # Absent /\ c.chosen # NoItem /\ c.ident # 0 /\ Len(t) < c.len + 1
    <2>1. o = Panic
      BY <1>13 DEF BetOrCable
    <2> QED BY <2>1 DEF Replies, NoSale
  <1>14. CASE t # <<>> /\ c # Absent /\ c.chosen # NoItem /\ c.ident # 0 /\ ~(Len(t) < c.len + 1)
    <2>1. o = Finish(AfterAccount, tail, Chosen(c), after)
      BY <1>14 DEF BetOrCable, AfterAccount, Chosen
    <2>2. c.len + 2 \in 1..(Len(t) + 1) /\ Len(t) >= c.len + 1
      BY <1>1, <1>2, <1>14
    <2>3. tail \in Seq(Segs)
      BY <1>1, <2>2, FromEnd
    <2>4. /\ after \in Seq(Ops) /\ \A d \in Deal : Sale(<<Buy(d)>> \o after, d)
          /\ after \in {<<>>, <<Del(CatKey)>>}
      <3>1. CASE kind = "cable"
        <4>1. after = <<Del(CatKey)>>
          BY <3>1
        <4> HIDE DEF after
        <4> QED BY <1>1, <3>1, <4>1, SaleIs, OpsAre
      <3>2. CASE kind = "bet"
        <4>1. after = <<>>
          BY <3>2
        <4> HIDE DEF after
        <4> QED BY <3>2, <4>1, SaleIs
      <3> QED BY <3>1, <3>2
    <2>5. Chosen(c) \in Deal
      BY <1>2, ChosenDeal
    <2> HIDE DEF tail, o, after
    <2>6. /\ Proper(o, t) /\ \A sc : Asking(AfterAccount, tail, sc) => NoSale(o)
          /\ FinishLeads(o, AfterAccount, tail, Chosen(c), after)
      BY <1>14, <2>1, <2>3, <2>4, <2>5, AfterAccountIs, FinishDoes
    <2>7. \A sc : Shows(r, v, t, sc) <=> Asking(AfterAccount, tail, sc)
      BY <1>5, <1>14, <2>2 DEF AccountShows, tail
    <2>8. ASSUME NEW w \in Deal, Counts(r, v, t, w) PROVE Keeps(o, r, v, t, w)
      <3>1. Fits(Chosen(c), AfterAccount, tail, w)
        BY <1>6, <1>14, <2>2, <2>8 DEF AccountCounts, tail
      <3>2. AsksNext(AfterAccount, tail, o.say) => Shows(r, v, t, o.say)
        BY <2>7 DEF AsksNext
      <3> QED BY <2>4, <2>6, <2>8, <3>1, <3>2, FinishKeeps
    <2> QED BY <2>6, <2>7, <2>8 DEF Replies, o
  <1> QED BY <1>7, <1>8, <1>9, <1>10, <1>11, <1>12, <1>13, <1>14


(* The copy with the choice to save the account. *)
Agreed(c) == [c EXCEPT !.agreed = TRUE]

LEMMA AgreedIs ==
    ASSUME NEW c, GoodCopy(c), c # Absent, c.ident # 0
    PROVE  /\ GoodCopy(Agreed(c)) /\ Agreed(c) # Absent
           /\ Agreed(c).list = c.list /\ Agreed(c).chosen = c.chosen
           /\ Agreed(c).len = c.len /\ Agreed(c).ident = c.ident /\ Agreed(c).agreed
  <1> DEFINE e == Agreed(c)
  <1>1. c \in Catalog /\ c.list \in Lists /\ Absent.list = 0 /\ 0 \notin Lists
    BY AbsentIs, Constants DEF GoodCopy
  <1>3. e = [c EXCEPT !.agreed = TRUE]
    BY DEF Agreed
  <1> HIDE DEF e
  <1>4. /\ e \in Catalog /\ e.list = c.list /\ e.chosen = c.chosen /\ e.len = c.len
        /\ e.ident = c.ident /\ e.agreed
    BY <1>1, <1>3 DEF Catalog
  <1> QED BY <1>1, <1>4 DEF GoodCopy, e

(* The flow is deleted, and the session ends. *)
LEMMA DeleteReplies ==
    ASSUME NEW r \in Redis, NEW v, NEW t
    PROVE  Replies(Do(<<Del(CatKey)>>, End), r, v, t)
  <1> DEFINE op == Del(CatKey)
             next == [r EXCEPT ![CatKey] = Absent]
             o == Do(<<op>>, End)
  <1>1. CatKey \in Keys /\ op \in Ops /\ op.op = "del" /\ op.key = CatKey /\ Stores(op)
    BY Constants, OpsAre
  <1>2. next = Apply(r, op)
    BY <1>1 DEF Apply
  <1> HIDE DEF op
  <1>3. <<op>> \in Seq(Ops) /\ <<op>> # <<>> /\ Writing(<<op>>)
    BY <1>1 DEF Writing
  <1>4. Proper(o, t) /\ NoSale(o)
    BY <1>3, DoProper, GoodScreens
  <1> HIDE DEF next
  <1>5. ASSUME NEW w, Counts(r, v, t, w) PROVE Keeps(o, r, v, t, w)
    <2>1. Counts(next, v, t, w)
      BY <1>5, CountsWithoutCat DEF next
    <2>2. op.op \in {"set", "del"}
      BY <1>1
    <2> QED BY <1>2, <2>1, <2>2, OneWrite, Zenon
  <1> QED BY <1>4, <1>5 DEF Replies, op

LEMMA BankPickReplies ==
    ASSUME kind = "bank", NEW r \in Redis, NEW v \in Lists, NEW t \in Texts,
           NEW c, c = r[CatKey], t = <<>> \/ c = Absent \/ c.chosen = NoItem
    PROVE  Replies(BankPick(t, c, v), r, v, t)
  <1> DEFINE o == BankPick(t, c, v)
             nav == Nav(t, FALSE)
  <1>1. /\ t \in Seq(Segs) /\ CatKey \in Keys /\ Len(t) \in Nat /\ Len(t) <= MaxText
    BY Constants, TextIs
  <1>2. GoodCopy(c) /\ c \in Catalog /\ (c # Absent => c.list \in Lists)
    BY <1>1, RedisIs
  <1>3. /\ nav.page \in Nat /\ nav.error \in BOOLEAN /\ nav.picked \in 0..Plans
        /\ nav.used \in 0..Len(t) /\ (nav.picked # 0 => ~nav.error)
    BY <1>1, NavIs
  <1>4. GoodScreen(End) /\ GoodScreen(Ask("ident")) /\ GoodScreen(Page("item", v, 0))
        /\ "item" \in AsksOf(kind)
    BY ItemAsked, GoodScreens
  <1>5. \A sc : Shows(r, v, t, sc) <=> BankShows(c, t, sc)
    BY DEF Shows
  <1>6. \A w : Counts(r, v, t, w) => (t # <<>> /\ c # Absent => BankCounts(c, t, w))
    BY DEF Counts
  <1>7. CASE t = <<>> \/ c = Absent
    <2> DEFINE f == Fetched(v)
               sc == Page("item", v, 0)
               next == [r EXCEPT ![CatKey] = f]
    <2>1. f \in Catalog /\ GoodCopy(f) /\ f # Absent /\ f.list = v /\ f.chosen = NoItem
      BY FetchedIs DEF GoodCopy
    <2>2. o = Do(<<Set(CatKey, f)>>, sc)
      BY <1>7 DEF BankPick
    <2> HIDE DEF f, o
    <2>3. next[CatKey] = f
      BY <1>1 DEF Redis
    <2>4. CASE t = <<>>
      <3>1. \A m, w : Counts(m, v, t, w) /\ Ground(m, t)
        BY <2>4 DEF Counts, Ground
      <3>2. Shows(next, v, t, sc)
        BY <2>1, <2>3, <2>4, NavNothing DEF Shows, BankShows
      <3> HIDE DEF next, sc
      <3>3. \A w \in Deal : Plain(w) /\ Counts(r, v, t, w) =>
               Counts(next, v, t, w) /\ Ground(next, t) /\ Shows(next, v, t, sc)
        BY <3>1, <3>2
      <3>4. GoodScreen(sc)
        BY <1>4 DEF sc
      <3>5. Replies(Do(<<Set(CatKey, f)>>, sc), r, v, t)
        BY <1>1, <2>1, <3>3, <3>4, OneSetReplies DEF next
      <3> QED BY <2>2, <3>5 DEF o
    <2>5. CASE t # <<>>
      <3>1. ~Ground(r, t)
        BY <1>7, <2>5 DEF Ground
      <3>2. Proper(o, t) /\ NoSale(o)
        BY <1>1, <1>4, <2>1, <2>2, OneWriteProper
      <3> QED BY <3>1, <3>2 DEF Replies, o
    <2> QED BY <2>4, <2>5
  <1>8. CASE t # <<>> /\ c # Absent /\ nav.picked = 0
    <2> DEFINE sc == Page("item", c.list, nav.page)
               op == Touch(CatKey, c)
    <2>1. o = IF nav.error THEN Say(sc) ELSE Do(<<op>>, sc)
      BY <1>8 DEF BankPick, Nav
    <2>2. Shows(r, v, t, sc)
      BY <1>5, <1>8 DEF BankShows
    <2>3. GoodScreen(sc)
      BY <1>2, <1>3, <1>4, <1>8, GoodScreens
    <2> HIDE DEF nav, sc, o
    <2>4. CASE nav.error
      <3>1. Replies(Say(sc), r, v, t)
        BY <2>2, <2>3, SayReplies
      <3> QED BY <2>1, <2>4, <3>1 DEF o
    <2>5. CASE ~nav.error
      <3>1. op \in Ops /\ Stores(op) /\ op.op = "touch" /\ op.key = CatKey /\ op.value = c
        BY <1>1, <1>2, OpsAre
      <3>2. Apply(r, op) = r
        <4>1. Apply(r, op) = [r EXCEPT ![CatKey] = c]
          BY <3>1 DEF Apply
        <4> QED BY <1>1, <4>1 DEF Redis
      <3> HIDE DEF op
      <3>3. <<op>> \in Seq(Ops) /\ <<op>> # <<>> /\ Writing(<<op>>)
        BY <3>1 DEF Writing
      <3>4. Proper(Do(<<op>>, sc), t) /\ NoSale(Do(<<op>>, sc))
        BY <2>3, <3>3, DoProper
      <3>5. ASSUME NEW w, Counts(r, v, t, w), Ground(r, t)
            PROVE  Keeps(Do(<<op>>, sc), r, v, t, w)
        <4>1. Promise(r, <<op>>, v, t, w, sc)
          BY <2>2, <3>2, <3>5 DEF Promise, Step1, Lands, Sound
        <4>2. SalesAgree(<<op>>, w)
          BY <3>1 DEF SalesAgree
        <4>3. Do(<<op>>, sc).todo = <<op>> /\ Do(<<op>>, sc).say = sc
          BY DEF Do
        <4> QED BY <3>3, <4>1, <4>2, <4>3, Zenon DEF Keeps
      <3> QED BY <2>1, <2>5, <3>4, <3>5 DEF Replies, o
    <2>6. nav.error \in BOOLEAN
      BY <1>3
    <2> QED BY <2>4, <2>5, <2>6
  <1>9. CASE t # <<>> /\ c # Absent /\ nav.picked # 0
    <2> DEFINE e == PickedAt(c, nav.used, nav.picked)
               next == [r EXCEPT ![CatKey] = e]
    <2>1. o = Do(<<Set(CatKey, e)>>, Ask("ident"))
      BY <1>3, <1>9 DEF BankPick, Nav, PickedAt
    <2>2a. nav.picked \in 1..Plans /\ nav.used \in 0..MaxText /\ nav.used \in Nat
      <3> HIDE DEF nav
      <3> QED BY <1>1, <1>3, <1>9, Constants
    <2> HIDE DEF nav
    <2>2. /\ GoodCopy(e) /\ e # Absent /\ e.chosen = [list |-> c.list, n |-> nav.picked]
          /\ e.chosen # NoItem /\ e.len = nav.used /\ e.ident = 0
      BY <1>2, <1>9, <2>2a, PickedAtIs DEF GoodCopy
    <2>3. next[CatKey] = e
      BY <1>1 DEF Redis
    <2> HIDE DEF e, next
    <2>4. ASSUME NEW w \in Deal, Counts(r, v, t, w)
          PROVE  Counts(next, v, t, w) /\ Ground(next, t) /\ Shows(next, v, t, Ask("ident"))
      <3>1. w.item = e.chosen /\ e.len = Len(t)
        BY <1>6, <1>9, <2>2, <2>4 DEF BankCounts, ItemCounts, nav
      <3>1a. ~(Len(t) >= e.len + 1)
        BY <1>1, <3>1
      <3>2. BankCounts(e, t, w) /\ BankShows(e, t, Ask("ident"))
        BY <1>9, <2>2, <3>1, <3>1a DEF BankCounts, BankShows
      <3>3. Counts(next, v, t, w)
        BY <2>2, <2>3, <3>2 DEF Counts
      <3>4. Shows(next, v, t, Ask("ident"))
        BY <2>3, <3>2 DEF Shows
      <3> QED BY <2>2, <2>3, <3>3, <3>4 DEF Ground
    <2> QED BY <1>1, <1>4, <2>1, <2>2, <2>4, OneSetReplies DEF next
  <1> QED BY <1>7, <1>8, <1>9

LEMMA BankAnswersReplies ==
    ASSUME kind = "bank", NEW r \in Redis, NEW v \in Lists, NEW t \in Texts, t # <<>>,
           NEW c, c = r[CatKey], c # Absent, c.chosen # NoItem
    PROVE  Replies(BankAnswers(t, c), r, v, t)
  <1> DEFINE o == BankAnswers(t, c)
             account == c.len + 1
             choice == c.len + 2
             pin == c.len + 3
  <1>1. /\ t \in Seq(Segs) /\ CatKey \in Keys /\ Len(t) \in Nat
    BY Constants, TextIs
  <1>2. GoodCopy(c) /\ c \in Catalog /\ c.len \in Nat /\ c.ident \in 0..Wrong
        /\ c.chosen \in Items \cup {NoItem} /\ c.list \in Lists /\ c.agreed \in BOOLEAN
        /\ (c.ident = 0 => ~c.agreed)
    BY <1>1, RedisIs DEF GoodCopy
  <1>3. AsksOf(kind) = {"item", "ident", "choice", "pin"}
    BY DEF AsksOf
  <1>4. GoodScreen(End) /\ GoodScreen(Ask("ident")) /\ GoodScreen(Ask("choice"))
        /\ GoodScreen(Ask("pin"))
    BY <1>3, GoodScreens
  <1>5. \A sc : Shows(r, v, t, sc) <=> BankShows(c, t, sc)
    BY DEF Shows
  <1>6. \A w : Counts(r, v, t, w) => BankCounts(c, t, w)
    BY DEF Counts
  <1>7. CASE c.ident = 0 /\ (Len(t) < account \/ t[account] \notin Idents)
    <2>1. o = Say(Ask("ident"))
      BY <1>7 DEF BankAnswers
    <2>2. ~(Len(t) >= account /\ t[account] \in Idents)
      BY <1>1, <1>2, <1>7
    <2>3. Shows(r, v, t, Ask("ident"))
      BY <1>5, <1>7, <2>2 DEF BankShows
    <2> QED BY <1>4, <2>1, <2>3, SayReplies
  <1>8. CASE c.ident = 0 /\ ~(Len(t) < account \/ t[account] \notin Idents)
    <2> DEFINE e == Knows(c, t[account])
               next == [r EXCEPT ![CatKey] = e]
    <2>1. o = Do(<<Set(CatKey, e)>>, Ask("choice"))
      BY <1>8 DEF BankAnswers, Knows
    <2>2a. account \in 1..Len(t) /\ Len(t) >= account /\ t[account] \in Idents
      BY <1>1, <1>2, <1>8
    <2>2b. t[account] \in Segs
      BY <1>1, <2>2a
    <2>2. /\ GoodCopy(e) /\ e # Absent /\ e.chosen = c.chosen /\ e.len = c.len
          /\ e.ident = t[account] /\ e.ident # 0 /\ ~e.agreed
      BY <1>2, <1>8, <2>2b, KnowsIs
    <2>3. next[CatKey] = e
      BY <1>1 DEF Redis
    <2> HIDE DEF e, next
    <2>4. ASSUME NEW w \in Deal, Counts(r, v, t, w)
          PROVE  Counts(next, v, t, w) /\ Ground(next, t) /\ Shows(next, v, t, Ask("choice"))
      <3>1. w.item = e.chosen /\ Len(t) = e.len + 1 /\ w.ident = e.ident
        BY <1>6, <1>8, <2>2, <2>2a, <2>4 DEF BankCounts
      <3>1a. ~(Len(t) >= e.len + 2) /\ Len(t) <= e.len + 1
        BY <1>1, <1>2, <2>2, <3>1
      <3>2. BankCounts(e, t, w) /\ BankShows(e, t, Ask("choice"))
        BY <1>8, <2>2, <3>1, <3>1a DEF BankCounts, BankShows
      <3>3. Counts(next, v, t, w)
        BY <2>2, <2>3, <3>2 DEF Counts
      <3>4. Shows(next, v, t, Ask("choice"))
        BY <2>3, <3>2 DEF Shows
      <3> QED BY <2>2, <2>3, <3>3, <3>4 DEF Ground
    <2> QED BY <1>1, <1>4, <2>1, <2>2, <2>4, OneSetReplies DEF next
  <1>9. CASE c.ident # 0 /\ ~c.agreed /\ (Len(t) < choice \/ t[choice] \notin {1, 2})
    <2>1. o = Say(Ask("choice"))
      BY <1>9 DEF BankAnswers
    <2>2. Proper(o, t) /\ NoSale(o) /\ o.todo = <<>> /\ o.say = Ask("choice")
      BY <1>4, <2>1, SayProper
    <2> HIDE DEF o
    <2>3. ASSUME NEW w, Counts(r, v, t, w) PROVE Keeps(o, r, v, t, w)
      <3>1. Len(t) >= choice => t[choice] \in {1, 2}
        BY <1>6, <1>9, <2>3 DEF BankCounts
      <3>2. Len(t) <= account
        BY <1>1, <1>2, <1>9, <3>1
      <3>3. Shows(r, v, t, Ask("choice"))
        BY <1>5, <1>9, <3>2 DEF BankShows
      <3> QED BY <2>2, <3>3 DEF Keeps
    <2> QED BY <2>2, <2>3 DEF Replies, o
  <1>10. CASE /\ c.ident # 0 /\ ~c.agreed /\ ~(Len(t) < choice \/ t[choice] \notin {1, 2})
              /\ t[choice] = 2
    <2>1. o = Do(<<Del(CatKey)>>, End)
      BY <1>10 DEF BankAnswers
    <2> QED BY <2>1, DeleteReplies
  <1>11. CASE /\ c.ident # 0 /\ ~c.agreed /\ ~(Len(t) < choice \/ t[choice] \notin {1, 2})
              /\ t[choice] # 2
    <2> DEFINE e == Agreed(c)
               next == [r EXCEPT ![CatKey] = e]
    <2>1. o = Do(<<Set(CatKey, e)>>, Ask("pin"))
      BY <1>11 DEF BankAnswers, Agreed
    <2>2. /\ GoodCopy(e) /\ e # Absent /\ e.chosen = c.chosen /\ e.len = c.len
          /\ e.ident = c.ident /\ e.agreed
      BY <1>2, <1>11, AgreedIs
    <2>3. next[CatKey] = e
      BY <1>1 DEF Redis
    <2> HIDE DEF e, next
    <2>4. ASSUME NEW w \in Deal, Counts(r, v, t, w)
          PROVE  Counts(next, v, t, w) /\ Ground(next, t) /\ Shows(next, v, t, Ask("pin"))
      <3>0. Len(t) >= choice
        BY <1>1, <1>2, <1>11
      <3>1. w.item = e.chosen /\ w.ident = e.ident /\ Len(t) = choice
        BY <1>6, <1>11, <2>2, <2>4, <3>0 DEF BankCounts
      <3>1a. Len(t) < e.len + 3
        BY <1>1, <1>2, <2>2, <3>1
      <3>2. BankCounts(e, t, w) /\ BankShows(e, t, Ask("pin"))
        BY <1>11, <2>2, <3>1, <3>1a DEF BankCounts, BankShows
      <3>3. Counts(next, v, t, w)
        BY <2>2, <2>3, <3>2 DEF Counts
      <3>4. Shows(next, v, t, Ask("pin"))
        BY <2>3, <3>2 DEF Shows
      <3> QED BY <2>2, <2>3, <3>3, <3>4 DEF Ground
    <2> QED BY <1>1, <1>4, <2>1, <2>2, <2>4, OneSetReplies DEF next
  <1>12. CASE c.ident # 0 /\ c.agreed /\ Len(t) < pin
    <2>1. o = Say(Ask("pin"))
      BY <1>12 DEF BankAnswers
    <2>2. Shows(r, v, t, Ask("pin"))
      BY <1>5, <1>12 DEF BankShows
    <2> QED BY <1>4, <2>1, <2>2, SayReplies
  <1>13. CASE c.ident # 0 /\ c.agreed /\ ~(Len(t) < pin) /\ Len(t) > pin
    <2>1. o = Do(<<Del(CatKey)>>, End)
      BY <1>13 DEF BankAnswers
    <2> QED BY <2>1, DeleteReplies
  <1>14. CASE c.ident # 0 /\ c.agreed /\ ~(Len(t) < pin) /\ ~(Len(t) > pin)
    <2> DEFINE d == Chosen(c)
               b == Buy(d)
               x == Del(CatKey)
               y == Op("mirror")
               todo == <<b, x, y>>
    <2>1. o = Do(todo, End)
      BY <1>14 DEF BankAnswers, Chosen
    <2>2. /\ d \in Deal /\ d.item = c.chosen /\ d.under = NoItem /\ d.ident = c.ident
          /\ d.contact = 0 /\ d.amount = 0
      BY <1>2, ChosenDeal
    <2> HIDE DEF d
    <2>3. b \in Ops /\ x \in Ops /\ y \in Ops
      BY <1>1, <2>2, OpsAre
    <2>4. Sale(todo, d)
      BY DEF Sale
    <2>5. todo = <<b>> \o <<x, y>>
      BY Joined
    <2>5a. <<x, y>> \in {<<>>, <<Del(CatKey)>>, <<Del(CatKey), Op("mirror")>>}
      OBVIOUS
    <2> HIDE DEF b, x, y
    <2>6. todo \in Seq(Ops) /\ todo # <<>>
      BY <2>3
    <2> HIDE DEF todo, o
    <2>7. o.todo = todo /\ o.say = End /\ o # Panic
      BY <2>1, <2>6, DoIs
    <2>8. Proper(o, t)
      BY <1>4, <2>2, <2>4, <2>6, <2>7 DEF Proper, TodoOK
    <2>9. \A sc : ~Shows(r, v, t, sc)
      BY <1>5, <1>14 DEF BankShows
    <2>10. ASSUME NEW w \in Deal, Plain(w), Counts(r, v, t, w) PROVE Keeps(o, r, v, t, w)
      <3>1. w.item = d.item /\ w.ident = d.ident
        BY <1>6, <1>14, <2>2, <2>10 DEF BankCounts
      <3>2. w.under = NoItem /\ w.contact = 0 /\ w.amount = 0
        BY <1>3, <2>10 DEF Plain
      <3>3. Agrees(d, w)
        BY <2>2, <2>10, <3>1, <3>2 DEF Agrees, Deal
      <3> QED BY <2>2, <2>5, <2>5a, <2>7, <2>10, <3>3, SaleKeeps DEF b
    <2> QED BY <2>8, <2>9, <2>10 DEF Replies, o
  <1>15. c.agreed \/ ~c.agreed
    OBVIOUS
  <1> QED BY <1>7, <1>8, <1>9, <1>10, <1>11, <1>12, <1>13, <1>14

LEMMA BankReplies ==
    ASSUME kind = "bank", NEW r \in Redis, NEW v \in Lists, NEW t \in Texts,
           NEW c, c = r[CatKey]
    PROVE  Replies(Bank(t, c, v), r, v, t)
  BY BankPickReplies, BankAnswersReplies DEF Bank


LEMMA RespondReplies ==
    ASSUME NEW r \in Redis, NEW t \in Texts, NEW p, NEW c, current \in Lists, kind \in Kinds,
           kind = "elect" => p = r[PickKey] /\ (t # <<>> /\ p = Absent => c = r[CatKey]),
           kind = "data" /\ t # <<>> /\ t[1] \in Idents => c = r[t[1]],
           kind \in {"bet", "cable", "bank"} => c = r[CatKey]
    PROVE  Replies(Respond(t, p, c, current), r, current, t)
  <1>1. kind \in {"airtime", "data", "elect", "bet", "cable", "bank", "swap", "deposit",
                  "withdraw", "favorite"}
    BY VendAssumption DEF Catalogued, ReadAgain, Fixed
  <1>2. CASE kind = "airtime"
    BY <1>2, AirtimeReplies DEF Respond, ReadAgain
  <1>3. CASE kind = "data"
    BY <1>3, DataReplies DEF Respond, ReadAgain
  <1>4. CASE kind = "elect"
    BY <1>4, ElectReplies DEF Respond, ReadAgain
  <1>5. CASE kind \in {"bet", "cable"}
    <2>1. Respond(t, p, c, current) = BetOrCable(t, c, current)
      BY <1>5 DEF Respond, ReadAgain
    <2> QED BY <1>5, <2>1, BetOrCableReplies
  <1>6. CASE kind = "bank"
    BY <1>6, BankReplies DEF Respond, ReadAgain
  <1>7. CASE kind = "swap"
    BY <1>7, SwapReplies DEF Respond, ReadAgain
  <1>8. CASE kind = "deposit"
    <2>1. Respond(t, p, c, current) = Listed(t, 1) /\ ListNow(current) = 1 /\ 1 \in Lists
      BY <1>8, Constants DEF Respond, ListNow, ReadAgain
    <2> QED BY <1>8, <2>1, ListedReplies
  <1>9. CASE kind \in {"withdraw", "favorite"}
    <2>1. Respond(t, p, c, current) = Listed(t, current) /\ ListNow(current) = current
      BY <1>9 DEF Respond, ListNow, ReadAgain
    <2> QED BY <1>9, <2>1, ListedReplies
  <1> QED BY <1>1, <1>2, <1>3, <1>4, <1>5, <1>6, <1>7, <1>8, <1>9

(* What Redis comes to for a request that found no pick. *)
NoPickThere == [redis EXCEPT ![PickKey] = Absent]

LEMMA OutcomeReplies ==
    ASSUME redis \in Redis, current \in Lists, kind \in Kinds, NEW q \in Requests,
           req[q].text \in Texts
    PROVE  /\ req[q].pc = "start" /\ ~NeedsActive(q) =>
                 Replies(Outcome(q), redis, current, req[q].text)
           /\ req[q].pc = "load active" /\ kind = "elect" /\ req[q].text # <<>> =>
                 Replies(Outcome(q), NoPickThere, current, req[q].text)
           /\ redis[PickKey] = Absent => NoPickThere = redis
           /\ NoPickThere \in Redis
  <1> DEFINE t == req[q].text
             copy == redis[CopyKey(t)]
  <1>0. CatKey \in Keys /\ PickKey \in Keys /\ CatKey # PickKey
    BY Constants
  <1>1. ASSUME req[q].pc = "start", ~NeedsActive(q)
        PROVE  Replies(Outcome(q), redis, current, t)
    <2>1. Outcome(q) = Respond(t, copy, copy, current)
      BY <1>1 DEF Outcome
    <2>2. kind = "elect" => copy = redis[PickKey] /\ ~(t # <<>> /\ copy = Absent)
      BY <1>1 DEF CopyKey, NeedsActive
    <2>3. kind = "data" /\ t # <<>> /\ t[1] \in Idents => copy = redis[t[1]]
      BY DEF CopyKey
    <2>4. kind \in {"bet", "cable", "bank"} => copy = redis[CatKey]
      BY DEF CopyKey
    <2> HIDE DEF copy
    <2>5. Replies(Respond(t, copy, copy, current), redis, current, t)
      BY <2>2, <2>3, <2>4, RespondReplies
    <2> QED BY <2>1, <2>5
  <1>2. NoPickThere \in Redis /\ NoPickThere[PickKey] = Absent
        /\ NoPickThere[CatKey] = redis[CatKey]
    <2>1. GoodCopy(Absent)
      BY AbsentIs
    <2> QED BY <1>0, <2>1 DEF NoPickThere, Redis, GoodCopy
  <1>3. ASSUME req[q].pc = "load active", kind = "elect", t # <<>>
        PROVE  Replies(Outcome(q), NoPickThere, current, t)
    <2>1. Outcome(q) = Respond(t, Absent, redis[CatKey], current)
      BY <1>3 DEF Outcome
    <2> QED BY <1>2, <1>3, <2>1, RespondReplies
  <1>4. ASSUME redis[PickKey] = Absent PROVE NoPickThere = redis
    BY <1>0, <1>4 DEF NoPickThere, Redis
  <1> QED BY <1>1, <1>2, <1>3, <1>4


-----------------------------------------------------------------------------
(* The user answers, or goes back. *)

Typed(sc) == GoodScreen(sc) \/ sc = Ask("gate")

LEMMA OptionsAre ==
    ASSUME NEW sc, Typed(sc)
    PROVE  /\ Options(sc) \subseteq 1..4
           /\ Options(sc) # {} => sc.ask \in {"group", "item"} /\ sc.list \in Lists
           /\ \A seg \in Options(sc) : ItemAt(sc, seg) \in Items
           /\ Paging(sc) \subseteq {More, Previous}
  <1>1. CASE sc = Ask("gate")
    <2>1. sc.ask = "gate"
      BY <1>1, ScreensAre DEF Asks
    <2> QED BY <2>1 DEF Options, Paging
  <1>2. CASE GoodScreen(sc) /\ sc.ask \notin {"group", "item"}
    BY <1>2 DEF Options, Paging
  <1>3. CASE GoodScreen(sc) /\ sc.ask \in {"group", "item"}
    <2>1. /\ sc.list \in Lists /\ sc.page \in Nat /\ (sc.page = 0 \/ ~OnePage(sc))
          /\ Plans \in 1..4 /\ PageSize \in 1..4 /\ Buckets[sc.list] \in 1..4
      BY <1>3, Constants DEF GoodScreen, Screen
    <2> DEFINE a == sc.page
               l == sc.list
    <2>2. ASSUME NEW seg \in Nat, a * PageSize + seg \in 1..Plans \cup 1..4
          PROVE  ItemAt(sc, seg) \in Items
      BY <2>1, <2>2 DEF ItemAt, Items
    <2>3. CASE OnePage(sc)
      <3>1. a = 0
        BY <2>1, <2>3
      <3>2. Options(sc) = IF sc.ask = "group" /\ kind = "data" THEN 1..Buckets[sc.list]
                                                               ELSE 1..Plans
        BY <1>3, <2>3 DEF Options
      <3>3. Options(sc) \subseteq 1..4
        BY <2>1, <3>2
      <3>4. \A seg \in 1..4 : seg \in Nat /\ a * PageSize + seg \in 1..Plans \cup 1..4
        <4> HIDE DEF a
        <4> QED BY <2>1, <3>1
      <3>5. Paging(sc) = {}
        BY <2>3 DEF Paging
      <3> HIDE DEF a
      <3> QED BY <1>3, <2>1, <2>2, <3>3, <3>4, <3>5
    <2>4. CASE ~OnePage(sc)
      <3>1. Options(sc) = {i \in 1..PageSize : a * PageSize + i <= Plans}
        BY <1>3, <2>4 DEF Options, OnePage
      <3>2. a \in Nat
        BY <2>1
      <3> HIDE DEF a
      <3>3. \A i \in 1..PageSize : a * PageSize + i <= Plans =>
               i \in 1..4 /\ i \in Nat /\ a * PageSize + i \in 1..Plans
        <4>1. a * PageSize \in Nat
          BY <2>1, <3>2
        <4> DEFINE m == a * PageSize
        <4> HIDE DEF m
        <4> QED BY <2>1, <4>1 DEF m
      <3>4. Paging(sc) \subseteq {More, Previous}
        BY DEF Paging
      <3> QED BY <1>3, <2>1, <2>2, <3>1, <3>3, <3>4
    <2> QED BY <2>3, <2>4
  <1> QED BY <1>1, <1>2, <1>3 DEF Typed

LEMMA WishIs ==
    ASSUME NEW sc, Typed(sc), NEW w \in Deal, NEW seg \in Segs,
           NEW v, v = Wished(w, sc, seg)
    PROVE  /\ v \in Deal
           /\ v.under # w.under => sc.ask = "group" /\ seg \in Options(sc)
           /\ v.item # w.item => sc.ask = "item" /\ seg \in Options(sc)
           /\ v.ident # w.ident => sc.ask = "ident"
           /\ v.contact # w.contact => sc.ask \in {"contact", "token", "item"}
           /\ v.amount # w.amount => sc.ask \in {"amount", "item"}
           /\ sc.ask = "item" => v.contact \in {0, w.contact} /\ v.amount \in {0, w.amount}
           /\ sc.ask = "item" /\ seg \in Options(sc) =>
                 v.item = ItemAt(sc, seg) /\ v.contact = 0 /\ v.amount = 0
           /\ sc.ask = "group" /\ seg \in Options(sc) => v.under = ItemAt(sc, seg)
           /\ sc.ask \in {"gate", "choice", "pin"} => v = w
  <1> DEFINE x == ItemAt(sc, seg)
  <1>1. seg \in 0..Wrong /\ seg # Back /\ 0 \in 0..Wrong
    BY Constants DEF Segs
  <1>2. seg \in Options(sc) => x \in Items /\ sc.ask \in {"group", "item"}
    BY OptionsAre
  <1>3. CASE seg \in Options(sc) /\ sc.ask = "group"
    <2>1. v = [w EXCEPT !.under = x]
      BY <1>3 DEF Wished
    <2> HIDE DEF x
    <2>2. v \in Deal /\ v.under = x /\ v.item = w.item /\ v.ident = w.ident
          /\ v.contact = w.contact /\ v.amount = w.amount
      BY <1>2, <1>3, <2>1 DEF Deal
    <2> QED BY <1>3, <2>2 DEF x
  <1>4. CASE seg \in Options(sc) /\ sc.ask = "item"
    <2>1. v = [w EXCEPT !.item = x, !.contact = 0, !.amount = 0]
      BY <1>4 DEF Wished
    <2> HIDE DEF x
    <2>2. v \in Deal /\ v.item = x /\ v.contact = 0 /\ v.amount = 0 /\ v.under = w.under
          /\ v.ident = w.ident
      BY <1>1, <1>2, <1>4, <2>1 DEF Deal
    <2> QED BY <1>4, <2>2 DEF x
  <1>5. CASE seg \notin Options(sc) \/ sc.ask \notin {"group", "item"}
    <2>0. seg \notin Options(sc) \/ ~(sc.ask = "group" \/ sc.ask = "item")
      BY <1>5
    <2>1. CASE sc.ask = "ident"
      <3>1. v = [w EXCEPT !.ident = seg]
        BY <1>1, <1>5, <2>1 DEF Wished
      <3>2. v \in Deal /\ v.under = w.under /\ v.item = w.item
            /\ v.contact = w.contact /\ v.amount = w.amount
        BY <1>1, <3>1 DEF Deal
      <3> QED BY <2>1, <3>2
    <2>2. CASE sc.ask \in {"contact", "token"}
      <3>1. v = [w EXCEPT !.contact = seg]
        BY <1>1, <1>5, <2>2 DEF Wished
      <3>2. v \in Deal /\ v.under = w.under /\ v.item = w.item /\ v.ident = w.ident
            /\ v.amount = w.amount
        BY <1>1, <3>1 DEF Deal
      <3> QED BY <2>2, <3>2
    <2>3. CASE sc.ask = "amount"
      <3>1. v = [w EXCEPT !.amount = seg]
        BY <1>1, <1>5, <2>3 DEF Wished
      <3>2. v \in Deal /\ v.under = w.under /\ v.item = w.item /\ v.ident = w.ident
            /\ v.contact = w.contact
        BY <1>1, <3>1 DEF Deal
      <3> QED BY <2>3, <3>2
    <2>4. CASE sc.ask \notin {"ident", "contact", "token", "amount"}
      <3>1. v = w
        BY <1>5, <2>4 DEF Wished
      <3> QED BY <1>5, <3>1, OptionsAre
    <2> QED BY <2>1, <2>2, <2>3, <2>4
  <1> QED BY <1>2, <1>3, <1>4, <1>5

LEMMA SensibleIs ==
    ASSUME NEW sc, Typed(sc), sc # End, NEW seg \in Sensible(sc), NEW w \in Deal, Plain(w)
    PROVE  /\ seg \in Segs /\ seg # Back
           /\ sc.ask = "token" => seg = 1
           /\ sc.ask = "choice" => seg \in {1, 2}
           /\ Wished(w, sc, seg) \in Deal /\ Plain(Wished(w, sc, seg))
  <1>1. seg \in Options(sc) => seg \in 1..4
    BY OptionsAre
  <1>2. seg \in Paging(sc) => seg \in {5, 6}
    BY OptionsAre DEF More, Previous
  <1>3. sc.ask \notin {"group", "item"} => seg \notin Options(sc) /\ seg \notin Paging(sc)
    BY DEF Options, Paging
  <1>4. seg \in Segs /\ seg # Back
    <2>1. 1 \in Segs /\ 2 \in Segs /\ Wrong \in Segs /\ Pin \in Segs
          /\ Idents \subseteq Segs /\ Amounts \subseteq Segs
      BY Constants DEF Segs, Pin
    <2>2. seg \in 1..4 \/ seg \in {5, 6} => seg \in Segs
      BY DEF Segs, Wrong
    <2>3. seg \in Segs
      BY <1>1, <1>2, <2>1, <2>2 DEF Sensible
    <2> QED BY <2>3, Constants DEF Segs
  <1>5. sc.ask = "token" => seg = 1
    BY <1>3 DEF Sensible
  <1>6. sc.ask = "choice" => seg \in {1, 2}
    BY <1>3 DEF Sensible
  <1> DEFINE v == Wished(w, sc, seg)
  <1>7. sc.ask \in AsksOf(kind) \/ sc.ask \in {"gate", "end"}
    <2>1. Ask("gate").ask = "gate"
      BY DEF Ask
    <2> QED BY <2>1 DEF Typed, GoodScreen
  <1> HIDE DEF v
  <1>8. /\ v \in Deal
        /\ v.under # w.under => sc.ask = "group"
        /\ v.item # w.item => sc.ask = "item"
        /\ v.ident # w.ident => sc.ask = "ident"
        /\ v.contact # w.contact => sc.ask \in {"contact", "token", "item"}
        /\ v.amount # w.amount => sc.ask \in {"amount", "item"}
        /\ sc.ask = "item" => v.contact \in {0, w.contact} /\ v.amount \in {0, w.amount}
    BY <1>4, WishIs DEF v
  <1>9. Plain(v)
    BY <1>7, <1>8 DEF Plain
  <1> QED BY <1>4, <1>5, <1>6, <1>8, <1>9 DEF v


(* A page, answered. *)
Took(nav, x, list, sc, v) ==
    /\ nav.used = Len(x)
    /\ sc.ask = "group" => v.under = [list |-> list, n |-> nav.picked]
    /\ sc.ask = "item" => v.item = [list |-> list, n |-> nav.picked]

LEMMA PageAnswer ==
    \A t, prev, seg, w, what, list, sc, v :
       /\ t \in Seq(Segs) /\ prev \in BOOLEAN /\ seg \in Segs /\ w \in Deal
       /\ what \in {"group", "item"} /\ list \in Lists
       /\ kind \in {"elect", "bet", "cable", "bank"}
       /\ Nav(t, prev).picked = 0 /\ sc = Page(what, list, Nav(t, prev).page)
       /\ v = Wished(w, sc, seg) /\ Nav(Append(t, seg), prev).picked # 0
       => Took(Nav(Append(t, seg), prev), Append(t, seg), list, sc, v)
  <1> TAKE t, prev, seg, w, what, list, sc, v
  <1> HAVE /\ t \in Seq(Segs) /\ prev \in BOOLEAN /\ seg \in Segs /\ w \in Deal
           /\ what \in {"group", "item"} /\ list \in Lists
           /\ kind \in {"elect", "bet", "cable", "bank"}
           /\ Nav(t, prev).picked = 0 /\ sc = Page(what, list, Nav(t, prev).page)
           /\ v = Wished(w, sc, seg) /\ Nav(Append(t, seg), prev).picked # 0
  <1> DEFINE longer == Append(t, seg)
             nav == Nav(longer, prev)
             page == Nav(t, prev).page
  <1>1. page \in Nat
    BY NavIs
  <1>2. Paged(sc)
    BY DEF Paged, ReadAgain
  <1>3. /\ seg \in 1..PageSize /\ page * PageSize + seg <= Plans
        /\ nav.picked = page * PageSize + seg
        /\ Rest(longer, prev) = <<>>
    BY NavAppend
  <1> HIDE DEF page
  <1>4. IF what = "group" THEN v.under = [list |-> list, n |-> page * PageSize + seg]
        ELSE v.item = [list |-> list, n |-> page * PageSize + seg]
    BY <1>1, <1>2, <1>3, WishedOnPage DEF page
  <1>5. longer \in Seq(Segs) /\ Len(longer) \in Nat
    BY AppendTyped
  <1>6. Len(Rest(longer, prev)) = Len(longer) - nav.used /\ nav.used \in 0..Len(longer)
    BY <1>5, NavIs
  <1>7. Len(Rest(longer, prev)) = 0
    BY <1>3
  <1>8. nav.used = Len(longer)
    <2> DEFINE n == Len(longer)
               m == nav.used
    <2> HIDE DEF n, m
    <2>1. 0 = n - m /\ n \in Nat /\ m \in 0..n
      BY <1>5, <1>6, <1>7 DEF n, m
    <2> QED BY <2>1 DEF n, m
  <1>9. sc.ask = what
    BY DEF Page
  <1> QED BY <1>3, <1>4, <1>8, <1>9 DEF Took

LEMMA DataAnswer ==
    ASSUME kind = "data", NEW r \in Redis, NEW v, NEW t \in Texts, NEW w \in Deal,
           NEW sc, DataShows(r, t, sc), NEW seg \in Segs,
           t # <<>> => DataCounts(r[t[1]], t, w),
           NEW x, x = Append(t, seg), x[1] \in Idents
    PROVE  DataCounts(r[x[1]], x, Wished(w, sc, seg))
  <1> DEFINE y == Wished(w, sc, seg)
  <1>1. /\ t \in Seq(Segs) /\ Len(t) \in Nat /\ x \in Seq(Segs) /\ Len(x) = Len(t) + 1
        /\ \A k \in 1..Len(t) : x[k] = t[k]
        /\ x[Len(t) + 1] = seg
    BY TextIs, AppendTyped
  <1>2. CASE t = <<>>
    <2>1. sc = Ask("ident")
      BY <1>2 DEF DataShows
    <2>2. y.ident = seg
      BY <2>1, WishedIs
    <2>3. Len(t) = 0
      BY <1>2
    <2>4. x[1] = seg /\ ~(Len(x) >= 2)
      BY <1>1, <2>3
    <2> QED BY <2>2, <2>4 DEF DataCounts
  <1>3. CASE t # <<>>
    <2> DEFINE c == r[t[1]]
    <2>1. Len(t) \in Nat \ {0} /\ x[1] = t[1] /\ t[1] \in Segs
      BY <1>1, <1>3, FirstIs
    <2>2. t[1] \in Idents /\ c # Absent
      BY <1>3 DEF DataShows
    <2>3. t[1] \in Keys /\ t[1] \in 0..Wrong
      <3>1. t[1] \in Keys
        BY <2>2, Constants
      <3>2. t[1] \in 0..Wrong
        BY <2>1 DEF Segs
      <3> QED BY <3>1, <3>2
    <2>4. c.list \in Lists /\ c.chosen \in Items \cup {NoItem}
      BY <2>2, <2>3, RedisIs
    <2>5. w.ident = t[1]
      BY <1>3 DEF DataCounts
    <2>6. /\ Under(c, t[1]) \in Deal /\ Under(c, t[1]).under = c.chosen
          /\ Under(c, t[1]).ident = t[1]
          /\ Under(c, t[1]).contact = 0 /\ Under(c, t[1]).amount = 0
      BY <2>3, <2>4, UnderIs
    <2> HIDE DEF c, y
    <2>7. CASE Len(t) = 1 /\ c.chosen = NoItem
      <3>1. sc = Page("group", c.list, 0)
        BY <1>3, <2>7 DEF DataShows, c
      <3>2. sc.ask = "group" /\ sc.list = c.list /\ sc.page = 0
        BY <3>1 DEF Page
      <3>3. Options(sc) = 1..Buckets[c.list]
        BY <3>2 DEF Options
      <3>4. Typed(sc)
        BY <2>4, <3>1, ItemAsked, GoodScreens DEF Typed
      <3>5. y.ident = w.ident /\ (seg \in Options(sc) => y.under = ItemAt(sc, seg))
        BY <3>2, <3>4, WishIs DEF y
      <3>6. ItemAt(sc, seg) = [list |-> c.list, n |-> seg]
        <4>1. seg \in Nat /\ PageSize \in Nat
          BY Constants DEF Segs
        <4>2. 0 * PageSize + seg = seg
          BY <4>1
        <4> QED BY <3>2, <4>2 DEF ItemAt
      <3>7. x[2] = seg /\ Len(x) = 2
        BY <1>1, <2>7
      <3> QED BY <2>1, <2>5, <2>7, <3>3, <3>5, <3>6, <3>7 DEF DataCounts, c, y
    <2>8. CASE Len(t) = 1 /\ c.chosen # NoItem
      <3>1. sc = Page("item", c.list, 0) /\ Buckets[c.list] = 1
        BY <1>3, <2>8 DEF DataShows, c
      <3>2. sc.ask = "item"
        BY <3>1 DEF Page
      <3>3. Typed(sc)
        BY <2>4, <3>1, ItemAsked, GoodScreens DEF Typed
      <3>4. y.ident = w.ident
        BY <3>2, <3>3, WishIs DEF y
      <3>5. From(x, 3) = <<>>
        <4>1. 3 \in 1..(Len(x) + 1) /\ 3 = Len(x) + 1
          BY <1>1, <2>8
        <4> QED BY <1>1, <4>1, FromEnd
      <3>6. PickFits(Under(c, t[1]), c.list, From(x, 3), TRUE, y)
        BY <3>5, NavNothing DEF PickFits
      <3>7. Ready(Under(c, t[1]), c.list, y)
        BY <2>5, <2>6, <3>1, <3>4 DEF Ready
      <3> QED BY <2>1, <2>5, <2>8, <3>4, <3>6, <3>7 DEF DataCounts, c, y
    <2>9. CASE Len(t) # 1
      <3>1. Len(t) >= 2 /\ 3 \in 1..(Len(t) + 1)
        <4>1. Len(t) >= 2
          BY <1>1, <2>1, <2>9, AtLeastTwo
        <4> QED BY <1>1, <4>1
      <3>2. c.chosen # NoItem /\ PickAsking(c.list, From(t, 3), TRUE, sc)
        BY <1>3, <2>9 DEF DataShows, c
      <3>3. /\ Ready(Under(c, t[1]), c.list, w)
            /\ PickFits(Under(c, t[1]), c.list, From(t, 3), TRUE, w)
        BY <1>3, <2>2, <3>1, <3>2 DEF DataCounts, c
      <3>4. From(t, 3) \in Seq(Segs) /\ From(x, 3) = Append(From(t, 3), seg)
        BY <1>1, <3>1, FromAppend, FromEnd
      <3>5. /\ PickFits(Under(c, t[1]), c.list, From(x, 3), TRUE, y)
            /\ Ready(Under(c, t[1]), c.list, y)
        <4> DEFINE rest == From(t, 3)
                   u == Under(c, t[1])
                   list == c.list
        <4>1. /\ rest \in Seq(Segs) /\ u \in Deal /\ list \in Lists
              /\ Ready(u, list, w) /\ PickFits(u, list, rest, TRUE, w)
              /\ PickAsking(list, rest, TRUE, sc)
          BY <2>4, <2>6, <3>2, <3>3, <3>4
        <4> HIDE DEF rest, u, list
        <4>2. /\ PickFits(u, list, Append(rest, seg), TRUE, y)
              /\ Ready(u, list, y)
          BY <4>1, PickAnswer, Zenon DEF y
        <4> QED BY <3>4, <4>2 DEF rest, u, list
      <3>6. y.ident = t[1]
        BY <2>6, <3>5 DEF Ready
      <3> QED BY <2>1, <3>2, <3>5, <3>6 DEF DataCounts, c, y
    <2> QED BY <2>7, <2>8, <2>9
  <1> QED BY <1>2, <1>3

LEMMA ElectAnswer ==
    ASSUME kind = "elect", NEW r \in Redis, NEW v, NEW t \in Texts, NEW w \in Deal,
           NEW sc, Shows(r, v, t, sc), Counts(r, v, t, w), NEW seg \in Segs,
           NEW x, x = Append(t, seg)
    PROVE  Counts(r, v, x, Wished(w, sc, seg))
  <1> DEFINE y == Wished(w, sc, seg)
             p == r[PickKey]
             a == r[CatKey]
  <1>1. /\ t \in Seq(Segs) /\ Len(t) \in Nat /\ x \in Seq(Segs) /\ Len(x) = Len(t) + 1
        /\ \A k \in 1..Len(t) : x[k] = t[k]
        /\ x[Len(t) + 1] = seg /\ x # <<>>
    BY TextIs, AppendTyped
  <1>2. /\ CatKey \in Keys /\ PickKey \in Keys /\ p.len \in Nat /\ a.len \in Nat
        /\ p.chosen \in Items \cup {NoItem} /\ (p # Absent => p.list \in Lists)
        /\ a.chosen \in Items \cup {NoItem} /\ (a # Absent => a.list \in Lists)
        /\ a.ident \in 0..Wrong
    BY Constants, RedisIs
  <1>3. ASSUME p # Absent PROVE PickCounts(p, x, y)
    <2>1. PickShows(p, t, sc)
      BY <1>3 DEF Shows
    <2>2. t # <<>> => PickCounts(p, t, w)
      BY <1>3 DEF Counts
    <2>3. CASE p.chosen = NoItem
      <3>1. Nav(t, TRUE).picked = 0 /\ sc = Page("group", p.list, Nav(t, TRUE).page)
        BY <2>1, <2>3 DEF PickShows
      <3>1a. p.list \in Lists
        BY <1>2, <1>3
      <3> HIDE DEF p
      <3>2. Nav(x, TRUE).picked # 0 =>
               /\ Nav(x, TRUE).used = Len(x)
               /\ y.under = [list |-> p.list, n |-> Nav(x, TRUE).picked]
        <4> HAVE Nav(x, TRUE).picked # 0
        <4>1. /\ t \in Seq(Segs) /\ TRUE \in BOOLEAN /\ seg \in Segs /\ w \in Deal
              /\ "group" \in {"group", "item"} /\ p.list \in Lists
              /\ kind \in {"elect", "bet", "cable", "bank"}
              /\ Nav(t, TRUE).picked = 0 /\ sc = Page("group", p.list, Nav(t, TRUE).page)
              /\ y = Wished(w, sc, seg) /\ Nav(Append(t, seg), TRUE).picked # 0
          BY <1>1, <3>1, <3>1a
        <4>3. sc.ask = "group"
          BY <3>1 DEF Page
        <4> HIDE DEF y
        <4>2. Took(Nav(Append(t, seg), TRUE), Append(t, seg), p.list, sc, y)
          BY <4>1, PageAnswer, ZenonT(30)
        <4> QED BY <4>2, <4>3 DEF Took
      <3> HIDE DEF y
      <3> QED BY <2>3, <3>2 DEF PickCounts
    <2>4. CASE p.chosen # NoItem
      <3>1. sc = Ask("ident") /\ Len(t) = p.len /\ t # <<>>
        BY <2>1, <2>4 DEF PickShows
      <3>2. y.under = w.under /\ y.ident = seg
        BY <3>1, WishedIs
      <3>3. w.under = p.chosen
        BY <2>2, <2>4, <3>1 DEF PickCounts
      <3>4. Len(x) <= p.len + 1 /\ x[p.len + 1] = seg
        BY <1>1, <3>1
      <3> HIDE DEF y
      <3> QED BY <2>4, <3>2, <3>3, <3>4 DEF PickCounts
    <2> QED BY <2>3, <2>4
  <1>4. ASSUME p = Absent PROVE ProductCounts(a, x, y)
    <2> DEFINE rest == From(t, a.len + 1)
               u == Under(a, a.ident)
    <2>1. a # Absent /\ t # <<>> /\ Len(t) >= a.len /\ PickAsking(a.list, rest, TRUE, sc)
      BY <1>4 DEF Shows, ProductShows
    <2>2. Ready(u, a.list, w) /\ PickFits(u, a.list, rest, TRUE, w)
      BY <1>4, <2>1 DEF Counts, ProductCounts
    <2>3. a.len + 1 \in 1..(Len(t) + 1)
      BY <1>1, <1>2, <2>1
    <2>4. rest \in Seq(Segs) /\ From(x, a.len + 1) = Append(rest, seg)
      BY <1>1, <2>3, FromAppend, FromEnd
    <2>5. u \in Deal
      BY <1>2, UnderIs
    <2>5a. a.list \in Lists
      BY <1>2, <2>1
    <2> HIDE DEF rest, u, a
    <2>6. PickFits(u, a.list, Append(rest, seg), TRUE, y) /\ Ready(u, a.list, y)
      BY <2>1, <2>2, <2>4, <2>5, <2>5a, PickAnswer, Zenon DEF y
    <2> HIDE DEF y
    <2> QED BY <2>4, <2>6 DEF ProductCounts, u
  <1> QED BY <1>1, <1>3, <1>4 DEF Counts

LEMMA AccountAnswer ==
    ASSUME kind \in {"bet", "cable"}, NEW r \in Redis, NEW v, NEW t \in Texts, NEW w \in Deal,
           NEW sc, Shows(r, v, t, sc), Counts(r, v, t, w), NEW seg \in Segs,
           sc.ask # "token", NEW x, x = Append(t, seg)
    PROVE  Counts(r, v, x, Wished(w, sc, seg))
  <1> DEFINE y == Wished(w, sc, seg)
             c == r[CatKey]
  <1>1. /\ t \in Seq(Segs) /\ Len(t) \in Nat /\ x \in Seq(Segs) /\ Len(x) = Len(t) + 1
        /\ \A k \in 1..Len(t) : x[k] = t[k]
        /\ x[Len(t) + 1] = seg /\ x # <<>>
    BY TextIs, AppendTyped
  <1>2. /\ CatKey \in Keys /\ c.len \in Nat
        /\ c.chosen \in Items \cup {NoItem} /\ (c # Absent => c.list \in Lists)
    BY Constants, RedisIs
  <1>3. c # Absent /\ AccountShows(c, t, sc)
    BY DEF Shows, AccountShows
  <1>4. t # <<>> => AccountCounts(c, t, w)
    BY <1>3 DEF Counts
  <1> HIDE DEF c
  <1>5. CASE c.chosen = NoItem
    <2>1. Nav(t, TRUE).picked = 0 /\ sc = Page("item", c.list, Nav(t, TRUE).page)
      BY <1>3, <1>5 DEF AccountShows
    <2>1a. c.list \in Lists
      BY <1>2, <1>3
    <2>2. Nav(x, TRUE).picked # 0 =>
             /\ Nav(x, TRUE).used = Len(x)
             /\ y.item = [list |-> c.list, n |-> Nav(x, TRUE).picked]
      <3> HAVE Nav(x, TRUE).picked # 0
      <3>1. /\ t \in Seq(Segs) /\ TRUE \in BOOLEAN /\ seg \in Segs /\ w \in Deal
            /\ "item" \in {"group", "item"} /\ c.list \in Lists
            /\ kind \in {"elect", "bet", "cable", "bank"}
            /\ Nav(t, TRUE).picked = 0 /\ sc = Page("item", c.list, Nav(t, TRUE).page)
            /\ y = Wished(w, sc, seg) /\ Nav(Append(t, seg), TRUE).picked # 0
        BY <1>1, <2>1, <2>1a
      <3>3. sc.ask = "item"
        BY <2>1 DEF Page
      <3> HIDE DEF y
      <3>2. Took(Nav(Append(t, seg), TRUE), Append(t, seg), c.list, sc, y)
        BY <3>1, PageAnswer, ZenonT(30)
      <3> QED BY <3>2, <3>3 DEF Took
    <2> HIDE DEF y
    <2>3. AccountCounts(c, x, y)
      BY <1>5, <2>2 DEF AccountCounts, ItemCounts
    <2> QED BY <2>3 DEF Counts, c, y
  <1>6. CASE c.chosen # NoItem /\ c.ident = 0
    <2>1. sc = Ask("ident") /\ Len(t) = c.len /\ t # <<>>
      BY <1>3, <1>6 DEF AccountShows
    <2>2. y.item = w.item /\ y.ident = seg
      BY <2>1, WishedIs
    <2>3. w.item = c.chosen
      BY <1>4, <1>6, <2>1 DEF AccountCounts
    <2>4. Len(x) <= c.len + 1 /\ x[c.len + 1] = seg
      BY <1>1, <2>1
    <2> HIDE DEF y
    <2>5. AccountCounts(c, x, y)
      BY <1>6, <2>2, <2>3, <2>4 DEF AccountCounts
    <2> QED BY <2>5 DEF Counts, c, y
  <1>7. CASE c.chosen # NoItem /\ c.ident # 0
    <2> DEFINE tail == From(t, c.len + 2)
    <2>1. Len(t) >= c.len + 1 /\ Asking(AfterAccount, tail, sc) /\ t # <<>>
      BY <1>3, <1>7 DEF AccountShows
    <2>2. Fits(Chosen(c), AfterAccount, tail, w)
      BY <1>4, <1>7, <2>1 DEF AccountCounts
    <2>3. c.len + 2 \in 1..(Len(t) + 1)
      BY <1>1, <1>2, <2>1
    <2>4. tail \in Seq(Segs) /\ From(x, c.len + 2) = Append(tail, seg)
      BY <1>1, <2>3, FromAppend, FromEnd
    <2> HIDE DEF tail
    <2>5. Fits(Chosen(c), AfterAccount, Append(tail, seg), y)
      BY <2>1, <2>2, <2>4, AfterAccountIs, FitsAnswer
    <2> HIDE DEF y
    <2>6. AccountCounts(c, x, y)
      BY <1>7, <2>4, <2>5 DEF AccountCounts
    <2> QED BY <2>6 DEF Counts, c, y
  <1> QED BY <1>5, <1>6, <1>7


(* A mistake stays where it is, and only a mistake stops the reader. *)
LEMMA MistypedAnswer ==
    ASSUME NEW t \in Texts, NEW list, NEW sc, Mistyped(t), kind \in {"bank", "swap"},
           Nav(t, FALSE).picked = 0 => sc = Page("item", list, Nav(t, FALSE).page),
           NEW seg \in Sensible(sc), seg \in Segs
    PROVE  Mistyped(Append(t, seg))
  <1> DEFINE x == Append(t, seg)
             nav == Nav(t, FALSE)
             next == Nav(x, FALSE)
  <1>1. /\ t \in Seq(Segs) /\ Len(t) \in Nat /\ x \in Seq(Segs) /\ Len(x) = Len(t) + 1
        /\ \A k \in 1..Len(t) : x[k] = t[k]
        /\ x[Len(t) + 1] = seg
    BY TextIs, AppendTyped
  <1>2. /\ nav.picked \in 0..Plans /\ nav.used \in 0..Len(t) /\ nav.error \in BOOLEAN
        /\ nav.page \in Nat
        /\ nav.picked # 0 => ~nav.error
        /\ nav.picked = 0 /\ ~nav.error => nav.used = Len(t)
        /\ nav.error => nav.used < Len(t)
    BY <1>1, NavIs
  <1>2a. nav \in [page: Nat, picked: 0..Plans, used: 0..Len(t), error: BOOLEAN]
    <2>1. NavOK(nav, Len(t), Plans)
      BY <1>1, Constants, ParseOK DEF Nav
    <2> QED BY <2>1 DEF NavOK
  <1>3. next = Read(Plans, FALSE, nav, seg)
    BY <1>1, NavAppend
  <1>m. Mistyped(t) <=> (nav.error => nav.used < Len(t) /\ t[nav.used + 1] = Wrong)
    BY DEF Mistyped
  <1>n. Mistyped(x) <=> (next.error => next.used < Len(x) /\ x[next.used + 1] = Wrong)
    BY DEF Mistyped
  <1> HIDE DEF x, nav, next
  <1>4. CASE nav.error
    <2>1. next = nav
      BY <1>3, <1>4 DEF Read
    <2>2. nav.used < Len(t) /\ t[nav.used + 1] = Wrong
      BY <1>m, <1>4
    <2>3. nav.used + 1 \in 1..Len(t) /\ nav.used < Len(x)
      BY <1>1, <1>2, <2>2
    <2> QED BY <1>n, <1>1, <2>1, <2>2, <2>3 DEF x
  <1>5. CASE nav.picked # 0
    <2>1. next = nav
      BY <1>3, <1>5 DEF Read
    <2> QED BY <1>2, <1>5, <1>n, <2>1 DEF x
  <1>6. CASE ~nav.error /\ nav.picked = 0
    <2>1. sc = Page("item", list, nav.page) /\ nav.used = Len(t)
      BY <1>2, <1>6 DEF nav
    <2>2. sc.ask = "item" /\ sc.page = nav.page
      BY <2>1 DEF Page
    <2>3. ~OnePage(sc)
      BY <2>2 DEF OnePage, ReadAgain
    <2>4. Options(sc) = {i \in 1..PageSize : nav.page * PageSize + i <= Plans}
      BY <2>2, <2>3 DEF Options
    <2>5. Paging(sc) \subseteq {More} /\ (More \in Paging(sc) => HasNext(Plans, nav.page))
      BY <2>2, <2>3 DEF Paging
    <2>6. seg \in Options(sc) \cup Paging(sc) \cup {Wrong}
      BY <2>2 DEF Sensible
    <2>7. CASE seg \in Options(sc)
      <3>1. seg # More
        BY <2>4, <2>7, Constants DEF More
      <3>2. next = [nav EXCEPT !.picked = nav.page * PageSize + seg, !.used = nav.used + 1]
        BY <1>3, <1>6, <2>4, <2>7, <3>1 DEF Read
      <3>3. next.error = nav.error
        BY <1>2a, <3>2
      <3> QED BY <1>6, <1>n, <3>3 DEF x
    <2>8. CASE seg \in Paging(sc)
      <3>1. seg = More /\ HasNext(Plans, nav.page)
        BY <2>5, <2>8
      <3>2. next = [nav EXCEPT !.page = nav.page + 1, !.used = nav.used + 1]
        BY <1>3, <1>6, <3>1 DEF Read
      <3>3. next.error = nav.error
        BY <1>2a, <3>2
      <3> QED BY <1>6, <1>n, <3>3 DEF x
    <2>9. CASE seg = Wrong
      <3>1. Wrong \notin 1..PageSize /\ Wrong # More
        BY Constants DEF Wrong, More
      <3>2. next = [nav EXCEPT !.error = TRUE]
        BY <1>3, <1>6, <2>9, <3>1 DEF Read
      <3>3. next.used = Len(t)
        BY <1>2a, <2>1, <3>2
      <3>4. next.used < Len(x) /\ x[next.used + 1] = Wrong
        BY <1>1, <2>9, <3>3
      <3> QED BY <1>n, <3>4 DEF x
    <2> QED BY <2>6, <2>7, <2>8, <2>9
  <1> QED BY <1>2, <1>4, <1>5, <1>6 DEF x

LEMMA BankAnswer ==
    ASSUME kind = "bank", NEW r \in Redis, NEW v, NEW t \in Texts, NEW w \in Deal,
           NEW sc, Shows(r, v, t, sc), Counts(r, v, t, w), NEW seg \in Segs,
           seg \in Sensible(sc),
           Typed(sc), sc.ask = "choice" => seg \in {1, 2}, NEW x, x = Append(t, seg)
    PROVE  Counts(r, v, x, Wished(w, sc, seg))
  <1> DEFINE y == Wished(w, sc, seg)
             c == r[CatKey]
  <1>1. /\ t \in Seq(Segs) /\ Len(t) \in Nat /\ x \in Seq(Segs) /\ Len(x) = Len(t) + 1
        /\ \A k \in 1..Len(t) : x[k] = t[k]
        /\ x[Len(t) + 1] = seg /\ x # <<>>
    BY TextIs, AppendTyped
  <1>2. /\ CatKey \in Keys /\ c.len \in Nat
        /\ c.chosen \in Items \cup {NoItem} /\ (c # Absent => c.list \in Lists)
    BY Constants, RedisIs
  <1>3. c # Absent /\ BankShows(c, t, sc)
    BY DEF Shows, BankShows
  <1>4. t # <<>> => BankCounts(c, t, w)
    BY <1>3 DEF Counts
  <1> HIDE DEF c
  <1>5. CASE c.chosen = NoItem
    <2>1. Nav(t, FALSE).picked = 0 /\ sc = Page("item", c.list, Nav(t, FALSE).page)
      BY <1>3, <1>5 DEF BankShows
    <2>1a. c.list \in Lists
      BY <1>2, <1>3
    <2>2. Nav(x, FALSE).picked # 0 =>
             /\ Nav(x, FALSE).used = Len(x)
             /\ y.item = [list |-> c.list, n |-> Nav(x, FALSE).picked]
      <3> HAVE Nav(x, FALSE).picked # 0
      <3>1. /\ t \in Seq(Segs) /\ FALSE \in BOOLEAN /\ seg \in Segs /\ w \in Deal
            /\ "item" \in {"group", "item"} /\ c.list \in Lists
            /\ kind \in {"elect", "bet", "cable", "bank"}
            /\ Nav(t, FALSE).picked = 0 /\ sc = Page("item", c.list, Nav(t, FALSE).page)
            /\ y = Wished(w, sc, seg) /\ Nav(Append(t, seg), FALSE).picked # 0
        BY <1>1, <2>1, <2>1a
      <3>3. sc.ask = "item"
        BY <2>1 DEF Page
      <3> HIDE DEF y
      <3>2. Took(Nav(Append(t, seg), FALSE), Append(t, seg), c.list, sc, y)
        BY <3>1, PageAnswer, ZenonT(30)
      <3> QED BY <3>2, <3>3 DEF Took
    <2>2a. Mistyped(t)
      BY <1>4, <1>5, NavNothing DEF BankCounts, Mistyped
    <2>2b. Mistyped(x)
      BY <2>1, <2>2a, MistypedAnswer
    <2> HIDE DEF y
    <2>3. BankCounts(c, x, y)
      BY <1>5, <2>2, <2>2b DEF BankCounts, ItemCounts
    <2> QED BY <2>3 DEF Counts, c, y
  <1>6. CASE c.chosen # NoItem /\ c.ident = 0
    <2>1. sc = Ask("ident") /\ ~(Len(t) >= c.len + 1 /\ t[c.len + 1] \in Idents) /\ t # <<>>
      BY <1>3, <1>6 DEF BankShows
    <2>2. y.item = w.item /\ y.ident = seg
      BY <2>1, WishedIs
    <2>3. w.item = c.chosen
      BY <1>4, <1>6, <2>1 DEF BankCounts
    <2> HIDE DEF y
    <2>4. Len(x) >= c.len + 1 /\ x[c.len + 1] \in Idents =>
             Len(x) = c.len + 1 /\ y.ident = x[c.len + 1]
      <3>1. CASE Len(t) >= c.len + 1
        <4>1. x[c.len + 1] = t[c.len + 1]
          BY <1>1, <1>2, <3>1
        <4> QED BY <2>1, <3>1, <4>1
      <3>2. CASE Len(t) = c.len
        BY <1>1, <2>2, <3>2
      <3>3. CASE Len(t) < c.len
        <4>1. ~(Len(x) >= c.len + 1)
          BY <1>1, <1>2, <3>3
        <4> QED BY <4>1
      <3>4. Len(t) >= c.len + 1 \/ Len(t) = c.len \/ Len(t) < c.len
        BY <1>1, <1>2
      <3> QED BY <3>1, <3>2, <3>3, <3>4
    <2>5. BankCounts(c, x, y)
      BY <1>6, <2>2, <2>3, <2>4 DEF BankCounts
    <2> QED BY <2>5 DEF Counts, c, y
  <1>7. CASE c.chosen # NoItem /\ c.ident # 0
    <2>1. /\ t # <<>>
          /\ ~c.agreed => sc = Ask("choice") /\ Len(t) <= c.len + 1
          /\ c.agreed => sc = Ask("pin")
      BY <1>3, <1>7 DEF BankShows
    <2>2. w.item = c.chosen /\ w.ident = c.ident
      BY <1>4, <1>7, <2>1 DEF BankCounts
    <2>3. sc.ask \in {"choice", "pin"} /\ (~c.agreed => sc.ask = "choice")
      BY <2>1 DEF Ask
    <2>4. y = w
      BY <2>3, WishIs
    <2> HIDE DEF y
    <2>5. ~c.agreed /\ Len(x) >= c.len + 2 => Len(x) = c.len + 2 /\ x[c.len + 2] \in {1, 2}
      <3> HAVE ~c.agreed /\ Len(x) >= c.len + 2
      <3>1. Len(t) = c.len + 1
        BY <1>1, <1>2, <2>1
      <3>2. seg \in {1, 2}
        BY <2>3
      <3>3. Len(t) + 1 = c.len + 2
        BY <3>1, <1>2
      <3> QED BY <1>1, <3>2, <3>3
    <2>6. BankCounts(c, x, y)
      BY <1>7, <2>2, <2>4, <2>5 DEF BankCounts
    <2> QED BY <2>6 DEF Counts, c, y
  <1> QED BY <1>5, <1>6, <1>7

LEMMA SwapAnswer ==
    ASSUME kind = "swap", NEW r, NEW v, NEW t \in Texts, NEW w \in Deal, Plain(w),
           NEW sc, Shows(r, v, t, sc), Counts(r, v, t, w), NEW seg \in Segs,
           seg \in Sensible(sc)
    PROVE  Counts(r, v, Append(t, seg), Wished(w, sc, seg))
  <1> DEFINE y == Wished(w, sc, seg)
  <1>1. t \in Seq(Segs) /\ 1 \in Lists /\ NoDeal \in Deal
    BY TextIs, Constants, AbsentIs
  <1>2. PickFits(NoDeal, 1, t, FALSE, w) /\ PickAsking(1, t, FALSE, sc)
    BY DEF Counts, Shows
  <1>3. w.under = NoItem /\ w.ident = 0
    BY DEF Plain, AsksOf
  <1>4. Ready(NoDeal, 1, w)
    BY <1>3 DEF Ready, NoDeal
  <1>5. /\ t \in Seq(Segs) /\ FALSE \in BOOLEAN /\ seg \in Segs /\ w \in Deal
        /\ NoDeal \in Deal /\ 1 \in Lists
        /\ kind \in {"data", "elect", "swap"} /\ Ready(NoDeal, 1, w)
        /\ PickFits(NoDeal, 1, t, FALSE, w) /\ PickAsking(1, t, FALSE, sc)
        /\ y = Wished(w, sc, seg)
    BY <1>1, <1>2, <1>4
  <1> HIDE DEF y
  <1>6. PickFits(NoDeal, 1, Append(t, seg), FALSE, y)
    BY <1>5, PickAnswer, ZenonT(30)
  <1>7. Mistyped(t) /\ (Nav(t, FALSE).picked = 0 => sc = Page("item", 1, Nav(t, FALSE).page))
    BY <1>2 DEF Counts, PickAsking
  <1>8. Mistyped(Append(t, seg))
    BY <1>7, MistypedAnswer
  <1> QED BY <1>6, <1>8 DEF Counts, y

LEMMA AirtimeAnswer ==
    ASSUME kind = "airtime", NEW r, NEW v, NEW t \in Texts, NEW w \in Deal,
           NEW sc, Shows(r, v, t, sc), Counts(r, v, t, w), NEW seg \in Segs,
           sc.ask = "token" => seg = 1
    PROVE  Counts(r, v, Append(t, seg), Wished(w, sc, seg))
  <1> DEFINE y == Wished(w, sc, seg)
             asks == <<"ident", "amount", "pin">>
  <1>1. t \in Seq(Segs) /\ asks \in Questions
    BY TextIs DEF Questions
  <1>2. Fits(NoDeal, asks, t, w) /\ Asking(asks, t, sc)
    BY DEF Counts, Shows
  <1> HIDE DEF asks
  <1>3. Fits(NoDeal, asks, Append(t, seg), y)
    BY <1>1, <1>2, FitsAnswer
  <1> HIDE DEF y
  <1> QED BY <1>3 DEF Counts, asks, y

LEMMA ListedAnswer ==
    ASSUME kind \in {"deposit", "withdraw", "favorite"}, NEW r, NEW v \in Lists,
           NEW t \in Texts, NEW w \in Deal, Plain(w), NEW sc, Typed(sc),
           Shows(r, v, t, sc), Counts(r, v, t, w), NEW seg \in Segs,
           seg \in Sensible(sc), sc.ask = "token" => seg = 1, NEW x, x = Append(t, seg)
    PROVE  Counts(r, v, x, Wished(w, sc, seg))
  <1> DEFINE y == Wished(w, sc, seg)
             list == ListNow(v)
  <1>1. /\ t \in Seq(Segs) /\ Len(t) \in Nat /\ x \in Seq(Segs) /\ Len(x) = Len(t) + 1
        /\ \A k \in 1..Len(t) : x[k] = t[k]
        /\ x[Len(t) + 1] = seg /\ x # <<>>
    BY TextIs, AppendTyped
  <1>2. list \in Lists /\ NoDeal \in Deal
    BY Constants, AbsentIs DEF ListNow
  <1>3. ListedShows(list, t, sc) /\ ListedCounts(list, t, w)
    BY DEF Shows, Counts
  <1>4. w.under = NoItem /\ w.ident = 0
    BY DEF Plain, AsksOf
  <1> SUFFICES ListedCounts(list, x, y)
    BY DEF Counts
  <1> HIDE DEF list
  <1>5. CASE t = <<>>
    <2>1. sc = Page("item", list, 0)
      BY <1>3, <1>5 DEF ListedShows
    <2>2. sc.ask = "item" /\ sc.list = list /\ sc.page = 0
      BY <2>1 DEF Page
    <2>3. Options(sc) = 1..Plans
      BY <2>2 DEF Options, OnePage, ReadAgain
    <2>4. ItemAt(sc, seg) = [list |-> list, n |-> seg]
      <3>1. seg \in Nat /\ PageSize \in Nat
        BY Constants DEF Segs
      <3>2. 0 * PageSize + seg = seg
        BY <3>1
      <3> QED BY <2>2, <3>2 DEF ItemAt
    <2>5. /\ y.under = w.under /\ y.ident = w.ident
          /\ seg \in 1..Plans => y.item = ItemAt(sc, seg) /\ y.contact = 0 /\ y.amount = 0
      <3>1. /\ y.under # w.under => sc.ask = "group"
            /\ y.ident # w.ident => sc.ask = "ident"
            /\ sc.ask = "item" /\ seg \in Options(sc) =>
                  y.item = ItemAt(sc, seg) /\ y.contact = 0 /\ y.amount = 0
        BY WishIs
      <3> HIDE DEF y
      <3> QED BY <2>2, <2>3, <3>1
    <2>6. x[1] = seg /\ Len(x) = 1
      BY <1>1, <1>5
    <2>7. From(x, 2) = <<>>
      <3>1. 2 \in 1..(Len(x) + 1) /\ 2 = Len(x) + 1
        BY <2>6
      <3> QED BY <1>1, <3>1, FromEnd
    <2> HIDE DEF y
    <2>8. ASSUME seg \in 1..Plans
          PROVE  Fits(With(NoDeal, list, seg), AfterPlace, <<>>, y)
      <3>1. /\ With(NoDeal, list, seg).item = [list |-> list, n |-> seg]
            /\ With(NoDeal, list, seg).under = NoDeal.under
            /\ With(NoDeal, list, seg).ident = NoDeal.ident
            /\ With(NoDeal, list, seg).contact = NoDeal.contact
            /\ With(NoDeal, list, seg).amount = NoDeal.amount
        BY <1>2, <2>8, WithIs
      <3>2. /\ NoDeal.under = NoItem /\ NoDeal.ident = 0 /\ NoDeal.contact = 0
            /\ NoDeal.amount = 0
        BY DEF NoDeal
      <3> QED BY <1>4, <2>4, <2>5, <2>8, <3>1, <3>2, FitsPick
    <2>9. seg \in 1..Plans \/ seg = Wrong
      <3>1. Paging(sc) = {}
        BY <2>2 DEF Paging, OnePage, ReadAgain
      <3> QED BY <2>2, <2>3, <3>1 DEF Sensible
    <2> QED BY <2>6, <2>7, <2>8, <2>9 DEF ListedCounts
  <1>6. CASE t # <<>>
    <2>1. /\ x[1] = t[1] /\ 2 \in 1..(Len(t) + 1) /\ From(t, 2) \in Seq(Segs)
          /\ From(x, 2) = Append(From(t, 2), seg)
      BY <1>1, <1>6, FirstIs, FromAppend
    <2>2. CASE t[1] \in 1..Plans
      <3>1. Asking(AfterPlace, From(t, 2), sc)
        BY <1>3, <1>6, <2>2 DEF ListedShows
      <3>2. Fits(With(NoDeal, list, t[1]), AfterPlace, From(t, 2), w)
        BY <1>3, <1>6, <2>2 DEF ListedCounts
      <3>3. Fits(With(NoDeal, list, t[1]), AfterPlace, Append(From(t, 2), seg), y)
        BY <2>1, <3>1, <3>2, AfterPlaceIs, FitsAnswer
      <3> HIDE DEF y
      <3> QED BY <2>1, <2>2, <3>3 DEF ListedCounts
    <2>3. CASE t[1] \notin 1..Plans
      <3>1. t[1] = Wrong
        BY <1>3, <1>6, <2>3 DEF ListedCounts
      <3> QED BY <2>1, <2>3, <3>1 DEF ListedCounts
    <2> QED BY <2>2, <2>3
  <1> QED BY <1>5, <1>6

(* An answer keeps the wish in step with the text. *)
LEMMA AnswerCounts ==
    ASSUME NEW r \in Redis, NEW v \in Lists, NEW t \in Texts, NEW w \in Deal, Plain(w),
           NEW sc, Typed(sc), sc # End, Shows(r, v, t, sc), Counts(r, v, t, w),
           NEW seg \in Sensible(sc)
    PROVE  Counts(r, v, Append(t, seg), Wished(w, sc, seg))
  <1> DEFINE x == Append(t, seg)
             y == Wished(w, sc, seg)
  <1>1. /\ seg \in Segs /\ (sc.ask = "token" => seg = 1)
        /\ (sc.ask = "choice" => seg \in {1, 2})
    BY SensibleIs
  <1>2. CASE kind = "data"
    <2>1. t # <<>> => t[1] \in Idents /\ DataCounts(r[t[1]], t, w)
      BY <1>2 DEF Shows, DataShows, Counts
    <2>2. DataShows(r, t, sc)
      BY <1>2 DEF Shows
    <2> HIDE DEF x, y
    <2>3. x[1] \in Idents => DataCounts(r[x[1]], x, y)
      BY <1>1, <1>2, <2>1, <2>2, DataAnswer DEF x, y
    <2> QED BY <1>2, <2>3 DEF Counts, x, y
  <1>3. CASE kind \in {"deposit", "withdraw", "favorite"}
    BY <1>1, <1>3, ListedAnswer
  <1>4. CASE kind \in {"bet", "cable"}
    <2>1. sc.ask # "token"
      <3>1. Ask("gate").ask = "gate"
        BY DEF Ask
      <3>2. "token" \notin AsksOf(kind) \cup {"end"}
        BY <1>4 DEF AsksOf
      <3> QED BY <3>1, <3>2 DEF Typed, GoodScreen
    <2> QED BY <1>1, <1>4, <2>1, AccountAnswer
  <1>5. CASE kind = "elect"
    BY <1>1, <1>5, ElectAnswer
  <1>6. CASE kind = "bank"
    BY <1>1, <1>6, BankAnswer
  <1>7. CASE kind = "swap"
    BY <1>1, <1>7, SwapAnswer
  <1>8. CASE kind = "airtime"
    BY <1>1, <1>8, AirtimeAnswer
  <1>9. CASE kind \notin {"data", "deposit", "withdraw", "favorite", "bet", "cable",
                          "elect", "bank", "swap", "airtime"}
    BY <1>9 DEF Counts
  <1> QED BY <1>2, <1>3, <1>4, <1>5, <1>6, <1>7, <1>8, <1>9


-----------------------------------------------------------------------------
(* The user takes the last answer back. *)

LEMMA ShorterIs ==
    ASSUME NEW t \in Texts, t # <<>>, NEW f, f = Front(t)
    PROVE  /\ f \in Texts /\ t \in Seq(Segs) /\ f \in Seq(Segs) /\ Len(t) \in Nat \ {0}
           /\ Len(f) = Len(t) - 1 /\ Len(f) \in Nat
           /\ \A k \in 1..Len(f) : f[k] = t[k]
           /\ f # <<>> => Len(t) >= 2 /\ f[1] = t[1]
           /\ \A i \in 1..Len(t) : From(t, i) # <<>> /\ From(f, i) = Front(From(t, i))
                                   /\ From(t, i) \in Seq(Segs)
  <1>1. t \in Seq(Segs) /\ Len(t) <= MaxText /\ MaxText \in Nat
    BY TextIs, Constants DEF Texts
  <1>2. /\ f \in Seq(Segs) /\ Len(t) \in Nat \ {0} /\ Len(f) = Len(t) - 1
        /\ \A k \in 1..(Len(t) - 1) : f[k] = t[k]
    BY <1>1, FrontTyped
  <1>3. f \in Texts /\ Len(f) \in Nat
    BY <1>1, <1>2 DEF Texts
  <1>4. f # <<>> => Len(t) >= 2 /\ f[1] = t[1]
    <2> HAVE f # <<>>
    <2>1. Len(f) \in Nat \ {0}
      BY <1>2, FirstIs
    <2> QED BY <1>2, <2>1
  <1>5. ASSUME NEW i \in 1..Len(t)
        PROVE  From(t, i) # <<>> /\ From(f, i) = Front(From(t, i)) /\ From(t, i) \in Seq(Segs)
    <2>1. i \in 1..(Len(t) + 1)
      BY <1>2
    <2> QED BY <1>1, <2>1, FromFront, FromTyped
  <1> QED BY <1>1, <1>2, <1>3, <1>4, <1>5

(* A list that was left with the last segment has no pick without it. *)
LEMMA UnpickedBefore ==
    ASSUME NEW t \in Texts, t # <<>>, NEW f, f = Front(t), NEW prev \in BOOLEAN,
           Nav(f, prev).picked # 0
    PROVE  Nav(t, prev) = Nav(f, prev) /\ Nav(t, prev).used # Len(t)
  <1>1. f \in Seq(Segs) /\ t \in Seq(Segs) /\ Len(t) \in Nat /\ Len(f) = Len(t) - 1
    BY ShorterIs
  <1>2. t[Len(t)] \in Segs /\ t = Append(f, t[Len(t)])
    BY <1>1, FrontTyped
  <1>3. Nav(t, prev) = Nav(f, prev)
    <2> DEFINE e == t[Len(t)]
    <2> HIDE DEF e
    <2>1. e \in Segs /\ t = Append(f, e)
      BY <1>2 DEF e
    <2>2. Nav(Append(f, e), prev) = Nav(f, prev)
      BY <1>1, <2>1, NavAppend
    <2> QED BY <2>1, <2>2
  <1>4. Nav(f, prev).used \in 0..Len(f)
    BY <1>1, NavIs
  <1>5. Nav(f, prev).used # Len(t)
    BY <1>1, <1>4
  <1> QED BY <1>3, <1>5

LEMMA FitsFront ==
    ASSUME NEW asks \in Questions, NEW tail \in Seq(Segs), tail # <<>>, NEW deal, NEW w,
           Fits(deal, asks, tail, w)
    PROVE  Fits(deal, asks, Front(tail), w)
  <1>1. /\ Front(tail) \in Seq(Segs) /\ tail[Len(tail)] \in Segs
        /\ tail = Append(Front(tail), tail[Len(tail)])
    BY FrontTyped
  <1> DEFINE f == Front(tail)
             e == tail[Len(tail)]
  <1> HIDE DEF f, e
  <1>2. f \in Seq(Segs) /\ e \in Segs /\ Fits(deal, asks, Append(f, e), w)
    BY <1>1 DEF f, e
  <1>3. Fits(deal, asks, f, w)
    BY <1>2, FitsBack
  <1> QED BY <1>3 DEF f

LEMMA ItemBack ==
    ASSUME NEW c, NEW t \in Texts, t # <<>>, NEW f, f = Front(t), NEW prev \in BOOLEAN,
           NEW w, ItemCounts(c, t, prev, w)
    PROVE  ItemCounts(c, f, prev, w)
  BY UnpickedBefore DEF ItemCounts

LEMMA DataBack ==
    ASSUME NEW c, NEW t \in Texts, t # <<>>, NEW f, f = Front(t), f # <<>>, NEW w,
           DataCounts(c, t, w)
    PROVE  DataCounts(c, f, w)
  <1>1. /\ Len(t) \in Nat /\ Len(f) = Len(t) - 1 /\ Len(t) >= 2 /\ f[1] = t[1]
    BY ShorterIs
  <1>2. ASSUME Len(f) >= 2, c # Absent, c.chosen = NoItem PROVE FALSE
    <2>1. Len(t) = 2
      BY <1>1, <1>2 DEF DataCounts
    <2> QED BY <1>1, <1>2, <2>1
  <1>3. ASSUME Len(f) >= 2, c # Absent, c.chosen # NoItem
        PROVE  /\ Ready(Under(c, f[1]), c.list, w)
               /\ PickFits(Under(c, f[1]), c.list, From(f, 3), TRUE, w)
    <2>1. 3 \in 1..Len(t)
      BY <1>1, <1>3
    <2>2. /\ From(t, 3) # <<>> /\ From(f, 3) = Front(From(t, 3)) /\ From(t, 3) \in Seq(Segs)
      BY <2>1, ShorterIs
    <2>3. /\ Ready(Under(c, t[1]), c.list, w)
          /\ PickFits(Under(c, t[1]), c.list, From(t, 3), TRUE, w)
      BY <1>1, <1>3 DEF DataCounts
    <2>4. PickFits(Under(c, t[1]), c.list, Front(From(t, 3)), TRUE, w)
      BY <2>2, <2>3, PickBack
    <2> QED BY <1>1, <2>2, <2>3, <2>4
  <1>4. w.ident = f[1]
    BY <1>1 DEF DataCounts
  <1> QED BY <1>2, <1>3, <1>4 DEF DataCounts

LEMMA ElectBack ==
    ASSUME NEW c, c.len \in Nat, NEW t \in Texts, t # <<>>, NEW f, f = Front(t), NEW w
    PROVE  /\ PickCounts(c, t, w) => PickCounts(c, f, w)
           /\ ProductCounts(c, t, w) => ProductCounts(c, f, w)
  <1>1. Len(t) \in Nat \ {0} /\ Len(f) = Len(t) - 1
    BY ShorterIs
  <1>2. ASSUME PickCounts(c, t, w) PROVE PickCounts(c, f, w)
    <2>1. CASE c.chosen = NoItem
      BY <1>2, <2>1, UnpickedBefore DEF PickCounts
    <2>2. CASE c.chosen # NoItem
      <3>1. w.under = c.chosen /\ Len(t) <= c.len + 1
        BY <1>2, <2>2 DEF PickCounts
      <3>2. Len(f) <= c.len + 1 /\ Len(f) # c.len + 1
        BY <1>1, <3>1
      <3> QED BY <2>2, <3>1, <3>2 DEF PickCounts
    <2> QED BY <2>1, <2>2
  <1>3. ASSUME ProductCounts(c, t, w) PROVE ProductCounts(c, f, w)
    <2>1. ASSUME c # Absent, Len(f) >= c.len
          PROVE  /\ Ready(Under(c, c.ident), c.list, w)
                 /\ PickFits(Under(c, c.ident), c.list, From(f, c.len + 1), TRUE, w)
      <3>1. c.len + 1 \in 1..Len(t) /\ Len(t) >= c.len
        BY <1>1, <2>1
      <3>2. /\ From(t, c.len + 1) # <<>> /\ From(f, c.len + 1) = Front(From(t, c.len + 1))
            /\ From(t, c.len + 1) \in Seq(Segs)
        BY <3>1, ShorterIs
      <3>3. /\ Ready(Under(c, c.ident), c.list, w)
            /\ PickFits(Under(c, c.ident), c.list, From(t, c.len + 1), TRUE, w)
        BY <1>3, <2>1, <3>1 DEF ProductCounts
      <3>4. PickFits(Under(c, c.ident), c.list, Front(From(t, c.len + 1)), TRUE, w)
        BY <3>2, <3>3, PickBack
      <3> QED BY <3>2, <3>3, <3>4
    <2> QED BY <2>1 DEF ProductCounts
  <1> QED BY <1>2, <1>3

LEMMA AccountBack ==
    ASSUME kind \in {"bet", "cable"}, NEW c, c.len \in Nat, NEW t \in Texts, t # <<>>,
           NEW f, f = Front(t), NEW w, AccountCounts(c, t, w)
    PROVE  AccountCounts(c, f, w)
  <1>1. Len(t) \in Nat \ {0} /\ Len(f) = Len(t) - 1
    BY ShorterIs
  <1>2. CASE c.chosen = NoItem
    BY <1>2, ItemBack DEF AccountCounts
  <1>3. CASE c.chosen # NoItem /\ c.ident = 0
    <2>1. w.item = c.chosen /\ Len(t) <= c.len + 1
      BY <1>3 DEF AccountCounts
    <2>2. Len(f) <= c.len + 1 /\ Len(f) # c.len + 1
      BY <1>1, <2>1
    <2> QED BY <1>3, <2>1, <2>2 DEF AccountCounts
  <1>4. CASE c.chosen # NoItem /\ c.ident # 0
    <2>1. ASSUME Len(f) >= c.len + 1
          PROVE  Fits(Chosen(c), AfterAccount, From(f, c.len + 2), w)
      <3>1. c.len + 2 \in 1..Len(t) /\ Len(t) >= c.len + 1
        BY <1>1, <2>1
      <3>2. /\ From(t, c.len + 2) # <<>> /\ From(f, c.len + 2) = Front(From(t, c.len + 2))
            /\ From(t, c.len + 2) \in Seq(Segs)
        BY <3>1, ShorterIs
      <3>3. Fits(Chosen(c), AfterAccount, From(t, c.len + 2), w)
        BY <1>4, <3>1 DEF AccountCounts
      <3>4. AfterAccount \in Questions
        BY AfterAccountIs
      <3>5. Fits(Chosen(c), AfterAccount, Front(From(t, c.len + 2)), w)
        BY <3>2, <3>3, <3>4, FitsFront
      <3> QED BY <3>2, <3>5
    <2> QED BY <1>4, <2>1 DEF AccountCounts
  <1> QED BY <1>2, <1>3, <1>4

LEMMA MistypedBack ==
    ASSUME NEW t \in Texts, t # <<>>, NEW f, f = Front(t), Mistyped(t)
    PROVE  Mistyped(f)
  <1>1. /\ f \in Seq(Segs) /\ t \in Seq(Segs) /\ Len(t) \in Nat /\ Len(f) = Len(t) - 1
        /\ Len(f) \in Nat /\ \A k \in 1..Len(f) : f[k] = t[k]
    BY ShorterIs
  <1>2. SUFFICES ASSUME Nav(f, FALSE).error
                 PROVE  Nav(f, FALSE).used < Len(f) /\ f[Nav(f, FALSE).used + 1] = Wrong
    BY DEF Mistyped
  <1>3. Nav(f, FALSE).used \in 0..Len(f) /\ Nav(f, FALSE).used < Len(f)
    BY <1>1, <1>2, NavIs
  <1>4. Nav(t, FALSE) = Nav(f, FALSE)
    <2>1. t[Len(t)] \in Segs /\ t = Append(f, t[Len(t)])
      BY <1>1, FrontTyped
    <2> DEFINE e == t[Len(t)]
    <2> HIDE DEF e
    <2>2. e \in Segs /\ t = Append(f, e)
      BY <2>1 DEF e
    <2>3. Nav(Append(f, e), FALSE) = Read(Plans, FALSE, Nav(f, FALSE), e)
      BY <1>1, <2>2, NavAppend
    <2> QED BY <1>2, <2>2, <2>3 DEF Read
  <1>5. t[Nav(f, FALSE).used + 1] = Wrong
    BY <1>2, <1>4 DEF Mistyped
  <1>6. Nav(f, FALSE).used + 1 \in 1..Len(f)
    <2> DEFINE n == Len(f)
               k == Nav(f, FALSE).used
    <2>1. n \in Nat /\ k \in 0..n /\ k < n
      BY <1>1, <1>3
    <2> HIDE DEF n, k
    <2>2. k + 1 \in 1..n
      BY <2>1
    <2> QED BY <2>2 DEF n, k
  <1> QED BY <1>1, <1>3, <1>5, <1>6

LEMMA BankBack ==
    ASSUME NEW c, c.len \in Nat, NEW t \in Texts, t # <<>>,
           NEW f, f = Front(t), NEW w, BankCounts(c, t, w)
    PROVE  BankCounts(c, f, w)
  <1>1. Len(t) \in Nat \ {0} /\ Len(f) = Len(t) - 1 /\ \A k \in 1..Len(f) : f[k] = t[k]
    BY ShorterIs
  <1>2. CASE c.chosen = NoItem
    <2>1. ItemCounts(c, t, FALSE, w) /\ Mistyped(t)
      BY <1>2 DEF BankCounts
    <2>2. ItemCounts(c, f, FALSE, w)
      BY <2>1, ItemBack
    <2>3. Mistyped(f)
      BY <2>1, MistypedBack
    <2> QED BY <1>2, <2>2, <2>3 DEF BankCounts
  <1>3. CASE c.chosen # NoItem /\ c.ident = 0
    <2>1. w.item = c.chosen /\ (Len(t) >= c.len + 1 /\ t[c.len + 1] \in Idents =>
                                   Len(t) = c.len + 1 /\ w.ident = t[c.len + 1])
      BY <1>3 DEF BankCounts
    <2>2. ASSUME Len(f) >= c.len + 1, f[c.len + 1] \in Idents PROVE FALSE
      <3>1. f[c.len + 1] = t[c.len + 1] /\ Len(t) >= c.len + 1
        BY <1>1, <2>2
      <3>2. Len(t) = c.len + 1
        BY <2>1, <2>2, <3>1
      <3> QED BY <1>1, <2>2, <3>2
    <2> QED BY <1>3, <2>1, <2>2 DEF BankCounts
  <1>4. CASE c.chosen # NoItem /\ c.ident # 0
    <2>1. w.item = c.chosen /\ w.ident = c.ident
          /\ (~c.agreed /\ Len(t) >= c.len + 2 => Len(t) = c.len + 2)
      BY <1>4 DEF BankCounts
    <2>2. ASSUME ~c.agreed, Len(f) >= c.len + 2 PROVE FALSE
      <3>1. Len(t) >= c.len + 2 /\ Len(t) # c.len + 2
        BY <1>1, <2>2
      <3> QED BY <2>1, <2>2, <3>1
    <2> QED BY <1>4, <2>1, <2>2 DEF BankCounts
  <1> QED BY <1>2, <1>3, <1>4

LEMMA BackCounts ==
    ASSUME NEW r \in Redis, NEW v \in Lists, NEW t \in Texts, t # <<>>, NEW w,
           Counts(r, v, t, w)
    PROVE  Counts(r, v, Front(t), w)
  <1> DEFINE f == Front(t)
  <1>1. /\ f \in Seq(Segs) /\ t \in Seq(Segs) /\ Len(t) \in Nat \ {0}
        /\ f # <<>> => Len(t) >= 2 /\ f[1] = t[1]
        /\ \A i \in 1..Len(t) : From(t, i) # <<>> /\ From(f, i) = Front(From(t, i))
                                /\ From(t, i) \in Seq(Segs)
    BY ShorterIs
  <1>2. CatKey \in Keys /\ PickKey \in Keys /\ r[CatKey].len \in Nat /\ r[PickKey].len \in Nat
    BY Constants, RedisIs
  <1>3. kind = "airtime" => Fits(NoDeal, <<"ident", "amount", "pin">>, f, w)
    <2> HAVE kind = "airtime"
    <2>1. <<"ident", "amount", "pin">> \in Questions
      BY DEF Questions
    <2>2. Fits(NoDeal, <<"ident", "amount", "pin">>, t, w)
      BY DEF Counts
    <2> QED BY <1>1, <2>1, <2>2, FitsFront
  <1>4. kind = "data" /\ f # <<>> /\ f[1] \in Idents => DataCounts(r[f[1]], f, w)
    <2> HAVE kind = "data" /\ f # <<>> /\ f[1] \in Idents
    <2>1. DataCounts(r[t[1]], t, w)
      BY <1>1 DEF Counts
    <2>2. DataCounts(r[t[1]], f, w)
      BY <2>1, DataBack
    <2> QED BY <1>1, <2>2
  <1>5. kind = "elect" /\ f # <<>> =>
           IF r[PickKey] # Absent THEN PickCounts(r[PickKey], f, w)
                                  ELSE ProductCounts(r[CatKey], f, w)
    <2> HAVE kind = "elect" /\ f # <<>>
    <2>1. IF r[PickKey] # Absent THEN PickCounts(r[PickKey], t, w)
                                 ELSE ProductCounts(r[CatKey], t, w)
      BY DEF Counts
    <2> HIDE DEF f
    <2>2. /\ PickCounts(r[PickKey], t, w) => PickCounts(r[PickKey], f, w)
          /\ ProductCounts(r[CatKey], t, w) => ProductCounts(r[CatKey], f, w)
      BY <1>2, ElectBack DEF f
    <2> QED BY <2>1, <2>2
  <1>6. kind \in {"bet", "cable"} /\ f # <<>> /\ r[CatKey] # Absent =>
           AccountCounts(r[CatKey], f, w)
    <2> HAVE kind \in {"bet", "cable"} /\ f # <<>> /\ r[CatKey] # Absent
    <2>1. AccountCounts(r[CatKey], t, w)
      BY DEF Counts
    <2> QED BY <1>2, <2>1, AccountBack
  <1>7. kind = "bank" /\ f # <<>> /\ r[CatKey] # Absent => BankCounts(r[CatKey], f, w)
    <2> HAVE kind = "bank" /\ f # <<>> /\ r[CatKey] # Absent
    <2>1. BankCounts(r[CatKey], t, w)
      BY DEF Counts
    <2> QED BY <1>2, <2>1, BankBack
  <1>8. kind = "swap" => PickFits(NoDeal, 1, f, FALSE, w) /\ Mistyped(f)
    <2> HAVE kind = "swap"
    <2>1. PickFits(NoDeal, 1, t, FALSE, w) /\ Mistyped(t)
      BY DEF Counts
    <2>2. PickFits(NoDeal, 1, f, FALSE, w)
      BY <1>1, <2>1, PickBack
    <2>3. Mistyped(f)
      BY <2>1, MistypedBack
    <2> QED BY <2>2, <2>3
  <1>9. kind \in {"deposit", "withdraw", "favorite"} => ListedCounts(ListNow(v), f, w)
    <2> HAVE kind \in {"deposit", "withdraw", "favorite"}
    <2>1. ListedCounts(ListNow(v), t, w)
      BY DEF Counts
    <2> DEFINE list == ListNow(v)
    <2> HIDE DEF list, f
    <2>2. ASSUME f # <<>>, f[1] \in 1..Plans
          PROVE  Fits(With(NoDeal, list, f[1]), AfterPlace, From(f, 2), w)
      <3>1. f[1] = t[1] /\ 2 \in 1..Len(t)
        BY <1>1, <2>2 
      <3>2. From(t, 2) # <<>> /\ From(f, 2) = Front(From(t, 2)) /\ From(t, 2) \in Seq(Segs)
        BY <1>1, <3>1
      <3>3. Fits(With(NoDeal, list, t[1]), AfterPlace, From(t, 2), w)
        BY <2>1, <2>2, <3>1 DEF ListedCounts, list
      <3>4. AfterPlace \in Questions
        BY AfterPlaceIs
      <3>5. Fits(With(NoDeal, list, t[1]), AfterPlace, Front(From(t, 2)), w)
        BY <3>2, <3>3, <3>4, FitsFront
      <3> QED BY <3>1, <3>2, <3>5
    <2>3. ASSUME f # <<>>, f[1] \notin 1..Plans PROVE f[1] = Wrong
      <3>1. f[1] = t[1]
        BY <1>1, <2>3
      <3> QED BY <2>1, <2>3, <3>1 DEF ListedCounts, list
    <2> QED BY <2>2, <2>3 DEF ListedCounts, list
  <1> HIDE DEF f
  <1>10. Counts(r, v, f, w)
    BY <1>3, <1>4, <1>5, <1>6, <1>7, <1>8, <1>9 DEF Counts
  <1> QED BY <1>10 DEF f

(* Nothing was answered yet. *)
LEMMA NothingCounts ==
    ASSUME NEW r, NEW v
    PROVE  Counts(r, v, <<>>, NoDeal)
  <1>1. PickFits(NoDeal, 1, <<>>, FALSE, NoDeal) /\ Mistyped(<<>>)
    BY NavNothing DEF PickFits, Mistyped
  <1>2. Fits(NoDeal, <<"ident", "amount", "pin">>, <<>>, NoDeal)
    <2> DEFINE asks == <<"ident", "amount", "pin">>
    <2> HIDE DEF asks
    <2>1. Fits(NoDeal, asks, <<>>, NoDeal)
      BY FitsPick
    <2> QED BY <2>1 DEF asks
  <1> QED BY <1>1, <1>2 DEF Counts, ListedCounts

LEMMA BackWish ==
    ASSUME NEW sc, Typed(sc), NEW w
    PROVE  Wished(w, sc, Back) = w
  <1>1. Back \notin Options(sc)
    BY OptionsAre, Constants
  <1> QED BY <1>1 DEF Wished

-----------------------------------------------------------------------------
(* A digit that the screen offers is taken.                                *)

(* The answer to the text t, by what Redis holds. *)
Reply(r, v, t) ==
    IF kind = "elect" /\ t # <<>> /\ r[PickKey] = Absent
    THEN Respond(t, Absent, r[CatKey], v)
    ELSE Respond(t, r[CopyKey(t)], r[CopyKey(t)], v)

(* After the pick of a group or an item the answer goes on from there. *)
Onward(say, picked, t) ==
    \/ say.ask \notin {picked, "end"}
    \/ kind = "data" /\ Buckets[say.list] = 1 /\ Len(t) = 2
    \/ MistakeStays(t)

LEMMA AskOnward ==
    ASSUME NEW what \in {"ident", "amount", "pin", "contact", "token", "choice"},
           NEW picked \in {"group", "item"}, NEW t
    PROVE  Onward(Ask(what), picked, t)
  <1>1. Ask(what).ask = what
    BY DEF Ask
  <1> QED BY <1>1 DEF Onward

(* The questions begin. *)
LEMMA FinishBegins ==
    ASSUME NEW asks \in Questions, NEW tail, tail = <<>>, NEW deal, NEW after,
           NEW picked \in {"group", "item"}, NEW t
    PROVE  Onward(Finish(asks, tail, deal, after).say, picked, t)
  <1>1. /\ Len(asks) \in 1..3 /\ DOMAIN asks = 1..Len(asks)
        /\ asks[1] \in {"ident", "amount", "pin", "contact", "token"}
    BY QuestionsAre
  <1>2. Len(tail) = 0 /\ DOMAIN tail = {}
    OBVIOUS
  <1>3. {i \in DOMAIN asks \cap DOMAIN tail : ~Accepts(asks[i], tail[i])} = {}
    BY <1>2
  <1>4. Finish(asks, tail, deal, after) = Say(Ask(asks[Len(tail) + 1]))
    BY <1>1, <1>2, <1>3 DEF Finish
  <1>5. Finish(asks, tail, deal, after).say = Ask(asks[1])
    BY <1>2, <1>4 DEF Say
  <1> QED BY <1>1, <1>5, AskOnward

(* What the page offers the reader picks. *)
LEMMA NavPicks ==
    ASSUME NEW rest \in Seq(Segs), NEW prev \in BOOLEAN, NEW what \in {"group", "item"},
           NEW list \in Lists, NEW sc, sc = Page(what, list, Nav(rest, prev).page),
           Paged(sc), Nav(rest, prev).picked = 0, ~Nav(rest, prev).error,
           NEW seg \in Segs, seg \in Options(sc)
    PROVE  /\ Nav(Append(rest, seg), prev).picked # 0
           /\ Nav(Append(rest, seg), prev).picked \in 1..Plans
           /\ Rest(Append(rest, seg), prev) = <<>>
  <1> DEFINE nav == Nav(rest, prev)
             next == Nav(Append(rest, seg), prev)
  <1>1. nav \in [page: Nat, picked: 0..Plans, used: 0..Len(rest), error: BOOLEAN]
    <2>1. NavOK(nav, Len(rest), Plans)
      BY Constants, ParseOK DEF Nav
    <2> QED BY <2>1 DEF NavOK
  <1>2. next = Read(Plans, prev, nav, seg)
    BY NavAppend
  <1>3. sc.ask = what /\ sc.page = nav.page
    BY DEF Page
  <1>4. seg \in 1..PageSize /\ nav.page * PageSize + seg <= Plans
    BY <1>3 DEF Options, OnePage, Paged
  <1>5. seg # More /\ seg # Previous
    BY <1>4, Constants DEF More, Previous
  <1>6. nav.picked = 0 /\ ~nav.error
    OBVIOUS
  <1> HIDE DEF nav
  <1>7. next = [nav EXCEPT !.picked = nav.page * PageSize + seg, !.used = nav.used + 1]
    BY <1>2, <1>4, <1>5, <1>6 DEF Read
  <1>8. nav.page * PageSize \in Nat
    BY <1>1, Constants
  <1> DEFINE n == nav.page * PageSize + seg
  <1>9. n \in 1..Plans /\ n # 0
    BY <1>4, <1>8, Constants
  <1>10. next.picked = n
    BY <1>1, <1>7
  <1> HIDE DEF n, next
  <1>11. next.picked # 0 /\ next.picked \in 1..Plans
    BY <1>9, <1>10
  <1>12. nav.picked = 0 /\ next.picked # 0 => Rest(Append(rest, seg), prev) = <<>>
    BY NavAppend DEF nav, next
  <1> QED BY <1>6, <1>11, <1>12 DEF next

(* Where a mistake is answered with the same page, nothing after it is read. *)
LEMMA MistypedStays ==
    ASSUME kind \in {"bank", "swap"}, NEW t \in Texts, Mistyped(t), Nav(t, FALSE).error,
           NEW seg \in Segs
    PROVE  MistakeStays(Append(t, seg))
  <1> DEFINE x == Append(t, seg)
             n == Nav(t, FALSE).used
  <1>1. /\ t \in Seq(Segs) /\ Len(t) \in Nat /\ x \in Seq(Segs) /\ Len(x) = Len(t) + 1
        /\ \A k \in 1..Len(t) : x[k] = t[k]
    BY TextIs, AppendTyped
  <1>2. n \in 0..Len(t)
    BY <1>1, NavIs
  <1>3. n < Len(t) /\ t[n + 1] = Wrong
    BY DEF Mistyped
  <1> HIDE DEF n, x
  <1>4. n + 1 \in 1..Len(t)
    BY <1>1, <1>2, <1>3
  <1>5. x[n + 1] = Wrong
    BY <1>1, <1>3, <1>4
  <1>6. n + 1 \in 1..Len(x) - 1
    BY <1>1, <1>4
  <1> QED BY <1>5, <1>6 DEF MistakeStays, x

(* The screen is a page: nothing was picked yet. *)
LEMMA PageAsking ==
    \A list, rest, prev, sc :
       PickAsking(list, rest, prev, sc) /\ sc.ask \in {"group", "item"}
       => /\ Nav(rest, prev).picked = 0
          /\ sc = Page("item", list, Nav(rest, prev).page) /\ sc.ask = "item"
          /\ prev => ~Nav(rest, prev).error
  <1> TAKE list, rest, prev, sc
  <1> HAVE PickAsking(list, rest, prev, sc) /\ sc.ask \in {"group", "item"}
  <1>1. \A what \in {"ident", "amount", "pin", "contact", "token"} : sc # Ask(what)
    BY DEF Ask
  <1>2. Nav(rest, prev).picked = 0
    BY <1>1 DEF PickAsking
  <1>3. sc = Page("item", list, Nav(rest, prev).page) /\ (prev => ~Nav(rest, prev).error)
    BY <1>2 DEF PickAsking
  <1> QED BY <1>2, <1>3 DEF Page

(* Nothing was typed on the first page. *)
LEMMA FirstPage ==
    ASSUME NEW c, NEW t, NEW rest, rest = <<>>
    PROVE  DataPlans(t, c, rest) = Say(Page("item", c.list, 0))
  <1>1. /\ Nav(rest, TRUE).picked = 0 /\ Nav(rest, TRUE).page = 0
        /\ ~Nav(rest, TRUE).error
    BY NavNothing
  <1> QED BY <1>1 DEF DataPlans, BrowseOrEnd, Nav

LEMMA PastEnd ==
    ASSUME NEW x \in Seq(Segs), Len(x) = 2
    PROVE  From(x, 3) = <<>>
  <1>1. 3 \in 1..(Len(x) + 1) /\ 3 = Len(x) + 1
    OBVIOUS
  <1> QED BY <1>1, FromEnd

LEMMA DataTakes ==
    ASSUME kind = "data", NEW r \in Redis, NEW v \in Lists, NEW t \in Texts, NEW sc,
           Shows(r, v, t, sc), sc.ask \in {"group", "item"}, NEW seg \in Segs,
           seg \in Options(sc), NEW x, x = Append(t, seg), NEW c, c = r[CopyKey(x)]
    PROVE  Onward(Data(x, c, v).say, sc.ask, x)
  <1>1. /\ t \in Seq(Segs) /\ Len(t) \in Nat /\ x \in Seq(Segs) /\ Len(x) = Len(t) + 1
        /\ \A k \in 1..Len(t) : x[k] = t[k]
        /\ x[Len(t) + 1] = seg /\ x # <<>>
    BY TextIs, AppendTyped
  <1>2. t # <<>>
    <2> SUFFICES ASSUME t = <<>> PROVE FALSE
      OBVIOUS
    <2>1. sc = Ask("ident")
      BY DEF Shows, DataShows
    <2> QED BY <2>1 DEF Ask
  <1>3. x[1] = t[1] /\ t[1] \in Idents
    <2>1. t[1] \in Idents
      BY <1>2 DEF Shows, DataShows
    <2> QED BY <1>1, <1>2, <2>1, FirstIs
  <1>4. c = r[t[1]]
    BY <1>1, <1>3 DEF CopyKey
  <1>5. c # Absent /\ c.list \in Lists /\ c.chosen \in Items \cup {NoItem}
    <2>1. t[1] \in Keys
      BY <1>3, Constants
    <2>2. c # Absent
      BY <1>2, <1>4 DEF Shows, DataShows
    <2> QED BY <1>4, <2>1, <2>2, RedisIs
  <1>6. Len(x) # 1 /\ x[1] \in Idents
    <2>1. Len(t) # 0
      BY <1>2, TextIs
    <2> QED BY <1>1, <1>3, <2>1
  <1>7. CASE Len(t) = 1 /\ c.chosen = NoItem
    <2>1. sc = Page("group", c.list, 0)
      BY <1>2, <1>4, <1>7 DEF Shows, DataShows
    <2>2. sc.ask = "group" /\ sc.list = c.list
      BY <2>1 DEF Page
    <2>3. x[2] = seg /\ seg \in 1..Buckets[c.list]
      BY <1>1, <1>7, <2>2 DEF Options
    <2>4. From(x, 3) = <<>>
      <3>1. Len(x) = 2
        BY <1>1, <1>7
      <3> QED BY <1>1, <3>1, PastEnd
    <2> DEFINE e == Choosing(c, x[2])
               o == DataPlans(x, e, From(x, 3))
    <2>5. o.say = Page("item", e.list, 0)
      <3> HIDE DEF e
      <3>1. o = Say(Page("item", e.list, 0))
        BY <2>4, FirstPage
      <3> QED BY <3>1 DEF Say
    <2>6. Data(x, c, v) = Do(<<Set(x[1], e)>> \o o.todo, o.say)
      BY <1>1, <1>5, <1>6, <1>7, <2>3 DEF Data, Choosing
    <2> HIDE DEF o, e
    <2>7. Data(x, c, v).say = Page("item", e.list, 0)
      BY <2>5, <2>6 DEF Do
    <2>8. Page("item", e.list, 0).ask = "item"
      BY DEF Page
    <2> QED BY <2>2, <2>7, <2>8 DEF Onward
  <1>8. CASE Len(t) = 1 /\ c.chosen # NoItem
    <2>1. Buckets[c.list] = 1
      BY <1>2, <1>4, <1>8 DEF Shows, DataShows
    <2>2. Data(x, c, v) = DataPlans(x, c, From(x, 3))
      BY <1>1, <1>5, <1>6, <1>8 DEF Data
    <2>3. From(x, 3) = <<>>
      <3>1. Len(x) = 2
        BY <1>1, <1>8
      <3> QED BY <1>1, <3>1, PastEnd
    <2>4. Data(x, c, v) = Say(Page("item", c.list, 0))
      BY <2>2, <2>3, FirstPage
    <2>5. Data(x, c, v).say = Page("item", c.list, 0)
      BY <2>4 DEF Say
    <2>6. Page("item", c.list, 0).list = c.list /\ Len(x) = 2
      BY <1>1, <1>8 DEF Page
    <2> QED BY <2>1, <2>5, <2>6 DEF Onward
  <1>9. CASE Len(t) # 1
    <2> DEFINE rest == From(t, 3)
               more == From(x, 3)
    <2>1. c.chosen # NoItem /\ PickAsking(c.list, rest, TRUE, sc)
      BY <1>2, <1>4, <1>9 DEF Shows, DataShows
    <2>2. Data(x, c, v) = DataPlans(x, c, more)
      BY <1>1, <1>5, <1>6, <2>1 DEF Data
    <2>3. 3 \in 1..(Len(t) + 1)
      <3>1. Len(t) # 0
        BY <1>2, TextIs
      <3>2. Len(t) >= 2
        BY <1>1, <1>9, <3>1, AtLeastTwo
      <3> QED BY <1>1, <3>2
    <2>4. rest \in Seq(Segs) /\ more = Append(rest, seg)
      BY <1>1, <2>3, FromTyped, FromAppend
    <2> HIDE DEF rest, more
    <2>5. /\ Nav(rest, TRUE).picked = 0 /\ ~Nav(rest, TRUE).error
          /\ sc = Page("item", c.list, Nav(rest, TRUE).page) /\ sc.ask = "item"
      <3>1. PickAsking(c.list, rest, TRUE, sc) /\ sc.ask \in {"group", "item"}
        BY <2>1
      <3>2. /\ Nav(rest, TRUE).picked = 0
            /\ sc = Page("item", c.list, Nav(rest, TRUE).page) /\ sc.ask = "item"
            /\ TRUE => ~Nav(rest, TRUE).error
        BY <3>1, PageAsking, Zenon
      <3> QED BY <3>2
    <2>6. Paged(sc)
      BY <2>5 DEF Paged, ReadAgain
    <2>7. Nav(more, TRUE).picked # 0 /\ Rest(more, TRUE) = <<>>
      BY <1>5, <2>4, <2>5, <2>6, NavPicks
    <2>8. DataPlans(x, c, more) =
             Finish(AsksAfter(Nav(more, TRUE).picked), Rest(more, TRUE),
                    Sold(c, x[1], c.list, Nav(more, TRUE).picked), <<>>)
      BY <2>7 DEF DataPlans, Nav, AsksAfter, Rest, Sold
    <2> QED BY <2>2, <2>7, <2>8, AsksAfterIs, FinishBegins
  <1> QED BY <1>7, <1>8, <1>9

LEMMA ElectTakes ==
    ASSUME kind = "elect", NEW r \in Redis, NEW v \in Lists, NEW t \in Texts, NEW sc,
           Shows(r, v, t, sc), sc.ask \in {"group", "item"}, NEW seg \in Segs,
           seg \in Options(sc), NEW x, x = Append(t, seg)
    PROVE  Onward(Reply(r, v, x).say, sc.ask, x)
  <1>1. /\ t \in Seq(Segs) /\ Len(t) \in Nat /\ x \in Seq(Segs) /\ Len(x) = Len(t) + 1
        /\ x # <<>>
    BY TextIs, AppendTyped
  <1>2. Paged(sc)
    BY DEF Paged, ReadAgain
  <1>3. CatKey \in Keys /\ PickKey \in Keys
    BY Constants
  <1>4. CASE r[PickKey] # Absent
    <2>1. PICK p : p = r[PickKey]
      OBVIOUS
    <2>2. p # Absent /\ p.list \in Lists /\ PickShows(p, t, sc)
      BY <1>3, <1>4, <2>1, RedisIs DEF Shows
    <2>3. p.chosen = NoItem
      <3>1. sc # Ask("ident")
        BY DEF Ask
      <3> QED BY <2>2, <3>1 DEF PickShows
    <2>4. /\ Nav(t, TRUE).picked = 0 /\ ~Nav(t, TRUE).error
          /\ sc = Page("group", p.list, Nav(t, TRUE).page)
      BY <2>2, <2>3 DEF PickShows
    <2>5. Nav(x, TRUE).picked # 0
      BY <1>1, <1>2, <2>2, <2>4, NavPicks
    <2>6. Reply(r, v, x) = Respond(x, p, p, v)
      BY <1>4, <2>1 DEF Reply, CopyKey
    <2>7. Respond(x, p, p, v) = ElectPick(x, p, v)
      BY <1>1, <2>2 DEF Respond, Elect, ReadAgain
    <2>8. ElectPick(x, p, v).say = Ask("ident")
      BY <2>3, <2>5 DEF ElectPick, Nav, Do
    <2> QED BY <2>6, <2>7, <2>8, AskOnward
  <1>5. CASE r[PickKey] = Absent
    <2>1. PICK a : a = r[CatKey]
      OBVIOUS
    <2> DEFINE rest == From(t, a.len + 1)
               more == From(x, a.len + 1)
    <2>2. /\ a # Absent /\ a.list \in Lists /\ a.len \in Nat /\ Len(t) >= a.len
          /\ PickAsking(a.list, rest, TRUE, sc)
      <3>1. ProductShows(a, t, sc)
        BY <1>5, <2>1 DEF Shows
      <3> QED BY <1>3, <2>1, <3>1, RedisIs DEF ProductShows
    <2>3. a.len + 1 \in 1..(Len(t) + 1) /\ ~(Len(x) < a.len)
      BY <1>1, <2>2
    <2>4. rest \in Seq(Segs) /\ more = Append(rest, seg)
      BY <1>1, <2>3, FromTyped, FromAppend
    <2> HIDE DEF rest
    <2>5. /\ Nav(rest, TRUE).picked = 0
          /\ sc = Page("item", a.list, Nav(rest, TRUE).page) /\ sc.ask = "item"
          /\ TRUE => ~Nav(rest, TRUE).error
      <3>1. PickAsking(a.list, rest, TRUE, sc) /\ sc.ask \in {"group", "item"}
        BY <2>2
      <3> QED BY <3>1, PageAsking, Zenon
    <2>6. Nav(more, TRUE).picked # 0 /\ Rest(more, TRUE) = <<>>
      <3> HIDE DEF more
      <3> QED BY <1>2, <2>2, <2>4, <2>5, NavPicks
    <2>7. Reply(r, v, x) = Respond(x, Absent, a, v)
      BY <1>1, <1>5, <2>1 DEF Reply
    <2>8. Respond(x, Absent, a, v) = ElectProduct(x, a)
      BY <1>1 DEF Respond, Elect, ReadAgain
    <2>9. ElectProduct(x, a) =
             Finish(<<"amount", "pin">>, Rest(more, TRUE),
                    Sold(a, a.ident, a.list, Nav(more, TRUE).picked), <<Del(CatKey)>>)
      BY <2>2, <2>3, <2>6 DEF ElectProduct, Nav, Rest, Sold
    <2>10. <<"amount", "pin">> \in Questions
      BY DEF Questions
    <2> HIDE DEF more
    <2> QED BY <2>6, <2>7, <2>8, <2>9, <2>10, FinishBegins
  <1> QED BY <1>4, <1>5

(* A question is no list. *)
LEMMA NotAsking ==
    ASSUME NEW asks \in Questions, NEW tail \in Seq(Segs), NEW sc,
           sc.ask \in {"group", "item"}
    PROVE  ~Asking(asks, tail, sc)
  <1> SUFFICES ASSUME Asking(asks, tail, sc) PROVE FALSE
    OBVIOUS
  <1>1. sc # Ask("token")
    BY DEF Ask
  <1>2. Len(tail) < Len(asks) /\ sc = Ask(asks[Len(tail) + 1])
    BY <1>1 DEF Asking
  <1>3. Len(asks) \in 1..3 /\ Len(tail) \in Nat
    BY QuestionsAre
  <1>4. Len(tail) + 1 \in 1..Len(asks)
    BY <1>2, <1>3
  <1>5. asks[Len(tail) + 1] \in {"ident", "amount", "pin", "contact", "token"}
    BY <1>4, QuestionsAre
  <1>6. sc.ask = asks[Len(tail) + 1]
    BY <1>2 DEF Ask
  <1> QED BY <1>5, <1>6

LEMMA AccountTakes ==
    ASSUME kind \in {"bet", "cable"}, NEW r \in Redis, NEW v \in Lists, NEW t \in Texts,
           NEW sc, Shows(r, v, t, sc), sc.ask \in {"group", "item"}, NEW seg \in Segs,
           seg \in Options(sc), NEW x, x = Append(t, seg), NEW c, c = r[CatKey]
    PROVE  Onward(BetOrCable(x, c, v).say, sc.ask, x)
  <1>1. /\ t \in Seq(Segs) /\ Len(t) \in Nat /\ x \in Seq(Segs) /\ Len(x) = Len(t) + 1
        /\ x # <<>>
    BY TextIs, AppendTyped
  <1>2. Paged(sc)
    BY DEF Paged, ReadAgain
  <1>3. AccountShows(c, t, sc)
    BY DEF Shows
  <1>4. c # Absent /\ c.list \in Lists
    BY <1>3, Constants, RedisIs DEF AccountShows
  <1>5. c.chosen = NoItem
    <2> SUFFICES ASSUME c.chosen # NoItem PROVE FALSE
      OBVIOUS
    <2>1. sc # Ask("ident")
      BY DEF Ask
    <2>2. c.len \in Nat
      BY Constants, RedisIs
    <2>3. Len(t) >= c.len + 1 /\ Asking(AfterAccount, From(t, c.len + 2), sc)
      BY <1>3, <2>1 DEF AccountShows
    <2>4. c.len + 2 \in 1..(Len(t) + 1)
      BY <1>1, <2>2, <2>3
    <2>5. From(t, c.len + 2) \in Seq(Segs)
      BY <1>1, <2>4, FromTyped
    <2>6. ~Asking(AfterAccount, From(t, c.len + 2), sc)
      BY <2>5, AfterAccountIs, NotAsking
    <2> QED BY <2>3, <2>6
  <1>6. /\ Nav(t, TRUE).picked = 0 /\ ~Nav(t, TRUE).error
        /\ sc = Page("item", c.list, Nav(t, TRUE).page)
    BY <1>3, <1>5 DEF AccountShows
  <1>7. Nav(x, TRUE).picked # 0
    BY <1>1, <1>2, <1>4, <1>6, NavPicks
  <1>8. BetOrCable(x, c, v).say = Ask("ident")
    BY <1>1, <1>4, <1>5, <1>7 DEF BetOrCable, Nav, Do
  <1> QED BY <1>8, AskOnward

LEMMA SwapTakes ==
    ASSUME kind = "swap", NEW r, NEW v, NEW t \in Texts, NEW w, Counts(r, v, t, w), NEW sc,
           Shows(r, v, t, sc), sc.ask \in {"group", "item"}, NEW seg \in Segs,
           seg \in Options(sc), NEW x, x = Append(t, seg)
    PROVE  Onward(Swap(x).say, sc.ask, x)
  <1>1. t \in Seq(Segs) /\ x \in Seq(Segs) /\ 1 \in Lists
    BY TextIs, AppendTyped, Constants
  <1>2. Paged(sc)
    BY DEF Paged, ReadAgain
  <1>3. PickAsking(1, t, FALSE, sc) /\ Mistyped(t)
    BY DEF Shows, Counts
  <1>4. Nav(t, FALSE).picked = 0 /\ sc = Page("item", 1, Nav(t, FALSE).page)
    <2>1. \A what \in {"ident", "amount", "pin", "contact", "token"} : sc # Ask(what)
      BY DEF Ask
    <2>2. Nav(t, FALSE).picked = 0
      BY <1>3, <2>1 DEF PickAsking
    <2> QED BY <1>3, <2>2 DEF PickAsking
  <1>5. CASE Nav(t, FALSE).error
    BY <1>3, <1>5, MistypedStays DEF Onward
  <1>6. CASE ~Nav(t, FALSE).error
    <2>1. Nav(x, FALSE).picked # 0 /\ Rest(x, FALSE) = <<>>
      BY <1>1, <1>2, <1>4, <1>6, NavPicks
    <2>2. Swap(x) = Finish(<<"amount", "pin">>, Rest(x, FALSE),
                           With(NoDeal, 1, Nav(x, FALSE).picked), <<>>)
      BY <2>1 DEF Swap, Nav, Rest, With
    <2>3. <<"amount", "pin">> \in Questions
      BY DEF Questions
    <2> QED BY <2>1, <2>2, <2>3, FinishBegins
  <1> QED BY <1>5, <1>6

LEMMA BankTakes ==
    ASSUME kind = "bank", NEW r \in Redis, NEW v \in Lists, NEW t \in Texts, NEW w,
           Counts(r, v, t, w), NEW sc, Shows(r, v, t, sc), sc.ask \in {"group", "item"},
           NEW seg \in Segs, seg \in Options(sc), NEW x, x = Append(t, seg),
           NEW c, c = r[CatKey]
    PROVE  Onward(Bank(x, c, v).say, sc.ask, x)
  <1>1. /\ t \in Seq(Segs) /\ Len(t) \in Nat /\ x \in Seq(Segs) /\ Len(x) = Len(t) + 1
        /\ x # <<>>
    BY TextIs, AppendTyped
  <1>2. Paged(sc)
    BY DEF Paged, ReadAgain
  <1>3. BankShows(c, t, sc)
    BY DEF Shows
  <1>4. c # Absent /\ c.list \in Lists
    BY <1>3, Constants, RedisIs DEF BankShows
  <1>5. c.chosen = NoItem
    <2>1. sc # Ask("ident") /\ sc # Ask("choice") /\ sc # Ask("pin")
      BY DEF Ask
    <2> QED BY <1>3, <2>1 DEF BankShows
  <1>6. Nav(t, FALSE).picked = 0 /\ sc = Page("item", c.list, Nav(t, FALSE).page)
    BY <1>3, <1>5 DEF BankShows
  <1>7. Mistyped(t)
    <2>1. t # <<>> => BankCounts(c, t, w)
      BY <1>4 DEF Counts
    <2> QED BY <1>5, <2>1, NavNothing DEF BankCounts, Mistyped
  <1>8. CASE Nav(t, FALSE).error
    BY <1>7, <1>8, MistypedStays DEF Onward
  <1>9. CASE ~Nav(t, FALSE).error
    <2>1. Nav(x, FALSE).picked # 0
      BY <1>1, <1>2, <1>4, <1>6, <1>9, NavPicks
    <2>2. ~Nav(x, FALSE).error
      BY <1>1, <2>1, NavIs
    <2>3. Bank(x, c, v).say = Ask("ident")
      BY <1>1, <1>4, <1>5, <2>1, <2>2 DEF Bank, BankPick, Nav, Do
    <2> QED BY <2>3, AskOnward
  <1> QED BY <1>8, <1>9

LEMMA ListedTakes ==
    ASSUME kind \in {"deposit", "withdraw", "favorite"}, NEW r, NEW v, NEW t \in Texts, NEW w,
           Counts(r, v, t, w), NEW sc, Shows(r, v, t, sc), sc.ask \in {"group", "item"},
           NEW seg \in Segs, seg \in Options(sc), NEW x, x = Append(t, seg),
           NEW list, list = ListNow(v)
    PROVE  Onward(Listed(x, list).say, sc.ask, x)
  <1>1. /\ t \in Seq(Segs) /\ Len(t) \in Nat /\ x \in Seq(Segs) /\ Len(x) = Len(t) + 1
        /\ \A k \in 1..Len(t) : x[k] = t[k]
        /\ x[Len(t) + 1] = seg /\ x # <<>>
    BY TextIs, AppendTyped
  <1>2. ListedShows(list, t, sc) /\ ListedCounts(list, t, w)
    BY DEF Shows, Counts
  <1>3. CASE t = <<>>
    <2>1. Options(sc) = 1..Plans
      BY DEF Options, OnePage, ReadAgain
    <2>2. x[1] = seg /\ Len(x) = 1
      BY <1>1, <1>3
    <2>3. From(x, 2) = <<>>
      <3>1. 2 \in 1..(Len(x) + 1) /\ 2 = Len(x) + 1
        BY <2>2
      <3> QED BY <1>1, <3>1, FromEnd
    <2>4. Listed(x, list) = Finish(AfterPlace, From(x, 2), With(NoDeal, list, x[1]), <<>>)
      BY <1>1, <2>1, <2>2 DEF Listed, AfterPlace, With
    <2> QED BY <2>3, <2>4, AfterPlaceIs, FinishBegins
  <1>4. CASE t # <<>> /\ t[1] \in 1..Plans
    <2>1. From(t, 2) \in Seq(Segs)
      BY <1>1, <1>4, FirstIs
    <2>2. ~Asking(AfterPlace, From(t, 2), sc)
      BY <2>1, AfterPlaceIs, NotAsking
    <2> QED BY <1>2, <1>4, <2>2 DEF ListedShows
  <1>5. CASE t # <<>> /\ t[1] \notin 1..Plans
    <2>1. t[1] = Wrong /\ kind # "favorite"
      BY <1>2, <1>5 DEF ListedShows, ListedCounts
    <2>2. 1 \in 1..Len(t)
      BY <1>1, <1>5, FirstIs
    <2>3. x[1] = Wrong /\ 1 \in 1..Len(x) - 1
      BY <1>1, <2>1, <2>2
    <2>4. MistakeStays(x)
      BY <2>1, <2>3 DEF MistakeStays
    <2> QED BY <2>4 DEF Onward
  <1> QED BY <1>3, <1>4, <1>5

LEMMA AirtimeTakes ==
    ASSUME kind = "airtime", NEW r, NEW v, NEW t \in Texts, NEW sc, Shows(r, v, t, sc),
           sc.ask \in {"group", "item"}
    PROVE  FALSE
  <1>1. t \in Seq(Segs) /\ <<"ident", "amount", "pin">> \in Questions
    BY TextIs DEF Questions
  <1>2. ~Asking(<<"ident", "amount", "pin">>, t, sc)
    BY <1>1, NotAsking
  <1> QED BY <1>2 DEF Shows

LEMMA PickTaken ==
    ASSUME kind \in Kinds, NEW r \in Redis, NEW v \in Lists, v = current, NEW t \in Texts,
           NEW w, Counts(r, v, t, w), NEW sc, Shows(r, v, t, sc), sc.ask \in {"group", "item"},
           NEW seg \in Segs, seg \in Options(sc), NEW x, x = Append(t, seg)
    PROVE  Onward(Reply(r, v, x).say, sc.ask, x)
  <1>1. kind \in {"airtime", "data", "elect", "bet", "cable", "bank", "swap", "deposit",
                  "withdraw", "favorite"}
    BY VendAssumption DEF Catalogued, ReadAgain, Fixed
  <1> DEFINE c == r[CopyKey(x)]
  <1>2. kind # "elect" => Reply(r, v, x) = Respond(x, c, c, v)
    BY DEF Reply
  <1>3. kind \in {"bet", "cable", "bank"} => c = r[CatKey]
    BY DEF CopyKey
  <1>4. CASE kind = "data"
    <2>1. Onward(Data(x, c, v).say, sc.ask, x)
      BY <1>4, DataTakes
    <2> HIDE DEF c
    <2>2. Respond(x, c, c, v) = Data(x, c, v)
      BY <1>4 DEF Respond, ReadAgain
    <2> QED BY <1>2, <1>4, <2>1, <2>2
  <1> HIDE DEF c
  <1>5. CASE kind \in {"bet", "cable"}
    <2>1. Onward(BetOrCable(x, c, v).say, sc.ask, x)
      BY <1>3, <1>5, AccountTakes
    <2>2. Respond(x, c, c, v) = BetOrCable(x, c, v)
      BY <1>5 DEF Respond, ReadAgain
    <2> QED BY <1>2, <1>5, <2>1, <2>2
  <1>6. CASE kind = "bank"
    <2>1. Onward(Bank(x, c, v).say, sc.ask, x)
      BY <1>3, <1>6, BankTakes
    <2>2. Respond(x, c, c, v) = Bank(x, c, v)
      BY <1>6 DEF Respond, ReadAgain
    <2> QED BY <1>2, <1>6, <2>1, <2>2
  <1>7. CASE kind = "swap"
    <2>1. Onward(Swap(x).say, sc.ask, x)
      BY <1>7, SwapTakes
    <2>2. Respond(x, c, c, v) = Swap(x)
      BY <1>7 DEF Respond, ReadAgain
    <2> QED BY <1>2, <1>7, <2>1, <2>2
  <1>8. CASE kind \in {"deposit", "withdraw", "favorite"}
    <2>1. PICK list : list = ListNow(v)
      OBVIOUS
    <2>2. Onward(Listed(x, list).say, sc.ask, x)
      BY <1>8, <2>1, ListedTakes
    <2>3. Respond(x, c, c, v) = Listed(x, list)
      BY <1>8, <2>1 DEF Respond, ReadAgain, ListNow
    <2> QED BY <1>2, <1>8, <2>2, <2>3
  <1>9. CASE kind = "elect"
    BY <1>9, ElectTakes
  <1>10. CASE kind = "airtime"
    BY <1>10, AirtimeTakes
  <1> QED BY <1>1, <1>4, <1>5, <1>6, <1>7, <1>8, <1>9, <1>10

=============================================================================
