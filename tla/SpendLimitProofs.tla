--------------------------- MODULE SpendLimitProofs ---------------------------
(***************************************************************************)
(* Proofs about the daily limit, for any finite set of payments, any       *)
(* kinds, amounts and limit, and any bound on days and faults: the type    *)
(* invariant and both safety invariants of the run.                        *)
(*                                                                         *)
(* The first half is about sums.  The fold of check_daily_limit is a       *)
(* function CHOOSE picks; EverySet, induction over the sets of payments,   *)
(* shows that it exists, that there is only one, and that its totals add   *)
(* up (TotalWithout, TotalUnion, TotalMonotone).                           *)
(*                                                                         *)
(* The second half is about payments.  Steady says what the rows of a      *)
(* payment show at each place of its handler: the three sums count         *)
(* different payments.  LimitInv says that every payment that left is on   *)
(* its way to its row or has it or is known to have leaked, and that what  *)
(* is committed to a day, blamed payments apart, is within the limit.      *)
(***************************************************************************)
EXTENDS SpendLimit, FiniteSetTheorems, WellFoundedInduction, TLAPS

(* Every set of numbers has a least one. *)
LEMMA Least ==
    ASSUME NEW T \in SUBSET Nat, T # {}
    PROVE  \E m \in T : \A k \in T : m <= k
  <1> DEFINE R == OpToRel(<, Nat)
  <1>1. IsWellFoundedOn(R, Nat)
    BY NatLessThanWellFounded
  <1>2. \A j, k \in Nat : <<j, k>> \in R <=> j < k
    BY DEF OpToRel
  <1> HIDE DEF R
  <1>3. PICK m \in T : \A k \in T : ~ (<<k, m>> \in R)
    BY <1>1, WFMin
  <1>4. ASSUME NEW k \in T PROVE m <= k
    <2>1. k \in Nat /\ m \in Nat
      OBVIOUS
    <2>2. ~(k < m)
      BY <1>2, <1>3, <2>1, Zenon
    <2> QED BY <2>1, <2>2
  <1> QED BY <1>4

(* Induction over the numbers, for a set of them. *)
LEMMA EveryNumber ==
    ASSUME NEW T \in SUBSET Nat, 0 \in T, \A n \in T : n + 1 \in T
    PROVE  T = Nat
  <1> SUFFICES ASSUME Nat \ T # {} PROVE FALSE
    OBVIOUS
  <1>1. PICK m \in Nat \ T : \A k \in Nat \ T : m <= k
    BY Least
  <1>2. m # 0 /\ m - 1 \in Nat /\ m - 1 \in T
    BY <1>1
  <1> QED BY <1>1, <1>2

-----------------------------------------------------------------------------
(* The sum of a set of payments. *)

First(s) == CHOOSE x \in s : TRUE

(* g adds amounts up the way the fold does. *)
AddsUp(g, S) == g = [s \in SUBSET S |->
    IF s = {} THEN 0 ELSE Amount[First(s)] + g[s \ {First(s)}]]

LEMMA TotalAddsUp ==
    ASSUME NEW S
    PROVE  Total(S) = (CHOOSE g : AddsUp(g, S))[S]
  BY DEF Total, MapThenSumSet, MapThenFoldSet, AddsUp, First

LEMMA FirstIn ==
    ASSUME NEW s, s # {}
    PROVE  First(s) \in s
  BY DEF First

(* Smaller sets of payments. *)
LEMMA Shrink ==
    ASSUME NEW s \in SUBSET Payments, NEW x \in s
    PROVE  /\ s \ {x} \in SUBSET Payments
           /\ IsFiniteSet(s) /\ IsFiniteSet(s \ {x})
           /\ Cardinality(s) \in Nat
           /\ Cardinality(s \ {x}) = Cardinality(s) - 1
           /\ Cardinality(s \ {x}) \in Nat
  BY FS_Subset, FS_RemoveElement, FS_CardinalityType, SpendAssumption

(* Induction over the sets of payments: a family that has the empty set,   *)
(* and every set whose sets with one payment less it has, has them all.    *)
LEMMA EverySet ==
    ASSUME NEW F \in SUBSET SUBSET Payments, {} \in F,
           \A s \in SUBSET Payments :
              s # {} /\ (\A x \in s : s \ {x} \in F) => s \in F
    PROVE  F = SUBSET Payments
  <1> DEFINE T == {k \in Nat : \A s \in SUBSET Payments : Cardinality(s) = k => s \in F}
  <1>1. 0 \in T
    <2>1. \A s \in SUBSET Payments : Cardinality(s) = 0 => s = {}
      BY FS_Subset, FS_EmptySet, SpendAssumption
    <2> QED BY <2>1
  <1>2. ASSUME NEW k \in T PROVE k + 1 \in T
    <2> SUFFICES ASSUME NEW s \in SUBSET Payments, Cardinality(s) = k + 1
                 PROVE  s \in F
      OBVIOUS
    <2>1. s # {}
      BY FS_EmptySet
    <2>2. ASSUME NEW x \in s PROVE s \ {x} \in F
      <3> DEFINE c == Cardinality(s)
                 b == Cardinality(s \ {x})
      <3>1. c \in Nat /\ b = c - 1 /\ c = k + 1 /\ s \ {x} \in SUBSET Payments
        BY Shrink
      <3> HIDE DEF b, c
      <3>2. b = k
        BY <3>1
      <3> QED BY <3>1, <3>2 DEF b
    <2> QED BY <2>1, <2>2
  <1>3. T \in SUBSET Nat
    OBVIOUS
  <1> HIDE DEF T
  <1>4. T = Nat
    BY <1>1, <1>2, <1>3, EveryNumber
  <1>5. \A s \in SUBSET Payments : Cardinality(s) \in Nat
    BY FS_Subset, FS_CardinalityType, SpendAssumption
  <1> QED BY <1>4, <1>5 DEF T

(* Right for all sets of at most n payments. *)
RightUpTo(g, n) ==
    \A s \in SUBSET Payments : Cardinality(s) <= n =>
        g[s] = IF s = {} THEN 0 ELSE Amount[First(s)] + g[s \ {First(s)}]

LEMMA SumUpTo ==
    ASSUME NEW n \in Nat
    PROVE  \E g \in [SUBSET Payments -> Nat] : RightUpTo(g, n)
  <1> DEFINE T == {k \in Nat : \E g \in [SUBSET Payments -> Nat] : RightUpTo(g, k)}
  <1>1. 0 \in T
    <2> DEFINE g == [s \in SUBSET Payments |-> 0]
    <2>1. \A s \in SUBSET Payments : Cardinality(s) <= 0 => s = {}
      BY FS_Subset, FS_CardinalityType, FS_EmptySet, SpendAssumption
    <2>2. RightUpTo(g, 0)
      BY <2>1 DEF RightUpTo
    <2> QED BY <2>2
  <1>2. ASSUME NEW k \in T PROVE k + 1 \in T
    <2>1. PICK g \in [SUBSET Payments -> Nat] : RightUpTo(g, k)
      OBVIOUS
    <2> DEFINE step(s) == IF s = {} THEN 0 ELSE Amount[First(s)] + g[s \ {First(s)}]
               h == [s \in SUBSET Payments |-> step(s)]
    <2>2. \A s \in SUBSET Payments : step(s) \in Nat
      BY FirstIn, Shrink, SpendAssumption
    <2>3. h \in [SUBSET Payments -> Nat]
      BY <2>2
    <2>4. \A s \in SUBSET Payments : Cardinality(s) <= k => h[s] = g[s]
      BY <2>1 DEF RightUpTo
    <2>5. ASSUME NEW s \in SUBSET Payments, Cardinality(s) <= k + 1, s # {}
          PROVE  h[s \ {First(s)}] = g[s \ {First(s)}]
      <3>1. First(s) \in s
        BY <2>5, FirstIn
      <3> DEFINE x == First(s)
                 c == Cardinality(s)
                 b == Cardinality(s \ {x})
      <3>2. /\ s \ {x} \in SUBSET Payments
            /\ c \in Nat /\ b = c - 1 /\ b \in Nat
        BY <3>1, Shrink
      <3>3. c <= k + 1
        BY <2>5
      <3> HIDE DEF b, c
      <3>4. b <= k
        BY <3>2, <3>3
      <3> QED BY <2>4, <3>2, <3>4 DEF b
    <2>6. ASSUME NEW s \in SUBSET Payments, Cardinality(s) <= k + 1
          PROVE  h[s] = IF s = {} THEN 0 ELSE Amount[First(s)] + h[s \ {First(s)}]
      <3>1. h[s] = step(s)
        OBVIOUS
      <3>2. s # {} => h[s \ {First(s)}] = g[s \ {First(s)}]
        BY <2>5, <2>6
      <3> HIDE DEF h
      <3> QED BY <3>1, <3>2
    <2>7. RightUpTo(h, k + 1)
      <3> HIDE DEF h
      <3> QED BY <2>6 DEF RightUpTo
    <2> HIDE DEF h
    <2>8. \E f \in [SUBSET Payments -> Nat] : RightUpTo(f, k + 1)
      BY <2>3, <2>7, Zenon
    <2>9. k + 1 \in Nat
      OBVIOUS
    <2> QED BY <2>8, <2>9, Zenon
  <1>0a. T \in SUBSET Nat
    OBVIOUS
  <1> HIDE DEF T
  <1>3. T = Nat
    BY <1>0a, <1>1, <1>2, EveryNumber
  <1> QED BY <1>3 DEF T

(* The sum of every set of payments: the fold is well defined. *)
LEMMA SumExists ==
    \E g \in [SUBSET Payments -> Nat] : AddsUp(g, Payments)
  <1> DEFINE n == Cardinality(Payments)
  <1>1. n \in Nat /\ \A s \in SUBSET Payments : Cardinality(s) <= n
    BY FS_Subset, FS_CardinalityType, SpendAssumption
  <1>2. PICK g \in [SUBSET Payments -> Nat] : RightUpTo(g, n)
    BY <1>1, SumUpTo
  <1>3. AddsUp(g, Payments)
    BY <1>1, <1>2 DEF RightUpTo, AddsUp
  <1> QED BY <1>3

(* It is the same function whatever set the fold starts from. *)
LEMMA SumUnique ==
    ASSUME NEW S \in SUBSET Payments, NEW g, NEW h,
           AddsUp(g, Payments), AddsUp(h, S)
    PROVE  g[S] = h[S]
  <1> DEFINE F == {r \in SUBSET Payments : r \subseteq S => g[r] = h[r]}
  <1>1. {} \in F
    BY DEF AddsUp
  <1>2. ASSUME NEW r \in SUBSET Payments, r # {}, \A x \in r : r \ {x} \in F
        PROVE  r \in F
    <2> SUFFICES ASSUME r \subseteq S PROVE g[r] = h[r]
      OBVIOUS
    <2> DEFINE x == First(r)
    <2>1. x \in r
      BY <1>2, FirstIn
    <2>2. g[r \ {x}] = h[r \ {x}]
      BY <1>2, <2>1
    <2>3. g[r] = Amount[x] + g[r \ {x}] /\ h[r] = Amount[x] + h[r \ {x}]
      BY <1>2 DEF AddsUp
    <2> QED BY <2>2, <2>3
  <1>3. F \in SUBSET SUBSET Payments
    OBVIOUS
  <1> HIDE DEF F
  <1>4. \A r \in SUBSET Payments :
           r # {} /\ (\A x \in r : r \ {x} \in F) => r \in F
    BY <1>2
  <1>5. F = SUBSET Payments
    BY <1>1, <1>3, <1>4, EverySet, Zenon
  <1> QED BY <1>5 DEF F

LEMMA TotalIsSum ==
    ASSUME NEW g \in [SUBSET Payments -> Nat], AddsUp(g, Payments),
           NEW S \in SUBSET Payments
    PROVE  Total(S) = g[S]
  <1> DEFINE f == [s \in SUBSET S |-> g[s]]
             h == CHOOSE k : AddsUp(k, S)
  <1>1. AddsUp(f, S)
    <2>1. ASSUME NEW s \in SUBSET S
          PROVE  g[s] = IF s = {} THEN 0 ELSE Amount[First(s)] + f[s \ {First(s)}]
      BY DEF AddsUp
    <2> QED BY <2>1 DEF AddsUp
  <1>2. AddsUp(h, S)
    <2> HIDE DEF f
    <2> QED BY <1>1, Zenon
  <1>3. Total(S) = h[S]
    BY TotalAddsUp
  <1> HIDE DEF h
  <1> QED BY <1>2, <1>3, SumUnique

(* A total is a number, and of nothing it is 0. *)
LEMMA TotalNat ==
    /\ Total({}) = 0
    /\ \A S \in SUBSET Payments : Total(S) \in Nat
  <1>1. PICK g \in [SUBSET Payments -> Nat] : AddsUp(g, Payments)
    BY SumExists
  <1>2. g[{}] = 0
    BY <1>1 DEF AddsUp
  <1> QED BY <1>1, <1>2, TotalIsSum

(* One step of the fold. *)
LEMMA TotalFirst ==
    ASSUME NEW S \in SUBSET Payments, S # {}
    PROVE  Total(S) = Amount[First(S)] + Total(S \ {First(S)})
  <1>1. PICK g \in [SUBSET Payments -> Nat] : AddsUp(g, Payments)
    BY SumExists
  <1>2. g[S] = Amount[First(S)] + g[S \ {First(S)}]
    BY <1>1 DEF AddsUp
  <1>3. S \ {First(S)} \in SUBSET Payments
    OBVIOUS
  <1> QED BY <1>1, <1>2, <1>3, TotalIsSum

(* Any payment can be taken out of a sum, not only the one the fold chose. *)
LEMMA TotalWithout ==
    ASSUME NEW S \in SUBSET Payments, NEW x \in S
    PROVE  Total(S) = Amount[x] + Total(S \ {x})
  <1> DEFINE F == {s \in SUBSET Payments :
                     \A y \in s : Total(s) = Amount[y] + Total(s \ {y})}
  <1>1. {} \in F
    OBVIOUS
  <1>2. ASSUME NEW s \in SUBSET Payments, s # {}, \A y \in s : s \ {y} \in F
        PROVE  s \in F
    <2> SUFFICES ASSUME NEW y \in s
                 PROVE  Total(s) = Amount[y] + Total(s \ {y})
      OBVIOUS
    <2> DEFINE z == First(s)
    <2>1. z \in s /\ Total(s) = Amount[z] + Total(s \ {z})
      BY <1>2, FirstIn, TotalFirst
    <2> HIDE DEF z
    <2>2. CASE y = z
      BY <2>1, <2>2
    <2>3. CASE y # z
      <3> DEFINE r == (s \ {z}) \ {y}
      <3>1. Total(s \ {z}) = Amount[y] + Total(r)
        BY <1>2, <2>1, <2>3
      <3>2. Total(s \ {y}) = Amount[z] + Total((s \ {y}) \ {z})
        BY <1>2, <2>1, <2>3
      <3>3. (s \ {y}) \ {z} = r
        OBVIOUS
      <3>4. Amount[y] \in Nat /\ Amount[z] \in Nat /\ Total(r) \in Nat
        BY <2>1, TotalNat, SpendAssumption
      <3> DEFINE n == Total(s)
                 k == Total(s \ {z})
                 l == Total(s \ {y})
                 m == Total(r)
      <3>5. /\ n = Amount[z] + k /\ k = Amount[y] + m /\ l = Amount[z] + m
            /\ m \in Nat
        BY <2>1, <3>1, <3>2, <3>3, <3>4
      <3> HIDE DEF k, l, m, n
      <3>6. n = Amount[y] + l
        BY <3>4, <3>5
      <3> QED BY <3>6 DEF n, l
    <2> QED BY <2>2, <2>3
  <1>3. F \in SUBSET SUBSET Payments
    OBVIOUS
  <1> HIDE DEF F
  <1>4. \A r \in SUBSET Payments :
           r # {} /\ (\A y \in r : r \ {y} \in F) => r \in F
    BY <1>2
  <1>5. F = SUBSET Payments
    BY <1>1, <1>3, <1>4, EverySet, Zenon
  <1> QED BY <1>5 DEF F

(* The total of payments that nothing counts twice. *)
LEMMA TotalUnion ==
    ASSUME NEW A \in SUBSET Payments, NEW B \in SUBSET Payments, A \cap B = {}
    PROVE  Total(A \cup B) = Total(A) + Total(B)
  <1> DEFINE F == {b \in SUBSET Payments :
                     A \cap b = {} => Total(A \cup b) = Total(A) + Total(b)}
  <1>1. {} \in F
    <2>1. A \cup {} = A
      OBVIOUS
    <2> QED BY <2>1, TotalNat
  <1>2. ASSUME NEW b \in SUBSET Payments, b # {}, \A x \in b : b \ {x} \in F
        PROVE  b \in F
    <2> SUFFICES ASSUME A \cap b = {}
                 PROVE  Total(A \cup b) = Total(A) + Total(b)
      OBVIOUS
    <2>1. PICK x \in b : TRUE
      BY <1>2
    <2> DEFINE c == b \ {x}
    <2>2. c \in F /\ A \cap c = {}
      BY <1>2
    <2>3. Total(A \cup c) = Total(A) + Total(c)
      BY <2>2
    <2>4. (A \cup b) \ {x} = A \cup c /\ x \in A \cup b
      OBVIOUS
    <2>5. Total(A \cup b) = Amount[x] + Total((A \cup b) \ {x})
      BY <2>4, TotalWithout
    <2>6. Total(b) = Amount[x] + Total(c)
      BY TotalWithout
    <2>7. Amount[x] \in Nat /\ Total(A) \in Nat /\ Total(c) \in Nat
      BY TotalNat, SpendAssumption
    <2> DEFINE n == Total(A \cup b)
               k == Total(A \cup c)
               l == Total(b)
               m == Total(c)
    <2>8. n = Amount[x] + k /\ k = Total(A) + m /\ l = Amount[x] + m /\ m \in Nat
      BY <2>3, <2>4, <2>5, <2>6, <2>7
    <2> HIDE DEF k, l, m, n
    <2>9. n = Total(A) + l
      BY <2>7, <2>8
    <2> QED BY <2>9 DEF n, l
  <1>3. F \in SUBSET SUBSET Payments
    OBVIOUS
  <1> HIDE DEF F
  <1>4. \A r \in SUBSET Payments :
           r # {} /\ (\A x \in r : r \ {x} \in F) => r \in F
    BY <1>2
  <1>5. F = SUBSET Payments
    BY <1>1, <1>3, <1>4, EverySet, Zenon
  <1> QED BY <1>5 DEF F

(* More payments, no smaller a sum. *)
LEMMA TotalMonotone ==
    ASSUME NEW A \in SUBSET Payments, NEW B \in SUBSET Payments, A \subseteq B
    PROVE  Total(A) <= Total(B)
  <1> DEFINE C == B \ A
  <1>1. C \in SUBSET Payments /\ A \cap C = {} /\ A \cup C = B
    OBVIOUS
  <1> HIDE DEF C
  <1>2. Total(B) = Total(A) + Total(C)
    BY <1>1, TotalUnion
  <1> QED BY <1>1, <1>2, TotalNat

-----------------------------------------------------------------------------
(* Type correctness. *)

LEMMA TypeInitial == Init => SpendTypeOK
  BY SpendAssumption DEF Init, SpendTypeOK, NoRow, Row, Days

(* A payment's own steps. *)
CheckStep(p) == CheckPasses(p) \/ CheckRefuses(p) \/ CheckUnavailable(p)
                  \/ Decline(p)
TransferStep(p) == SendTransfer(p) \/ TransferFails(p) \/ LogTransfer(p)
MerchantStep(p) == InsertTx(p) \/ PayMerchant(p) \/ PayMerchantFails(p)
                     \/ ConfirmTx(p)
BillStep(p) == InsertBill(p) \/ PayBill(p) \/ PayBillFails(p)
                 \/ BillWriteFails(p) \/ BillCompleted(p) \/ BillNotFulfilled(p)

LEMMA Steps ==
    ASSUME Next
    PROVE  \/ \E p \in Payments : CheckStep(p) \/ TransferStep(p)
                                   \/ MerchantStep(p) \/ BillStep(p)
           \/ \E l \in logging : WriteActivity(l) \/ ActivityDropped(l)
           \/ NewDay
           \/ Crash
  BY Zenon DEF Next, CheckStep, TransferStep, MerchantStep, BillStep

LEMMA TypeKept == SpendTypeOK /\ [Next]_vars => SpendTypeOK'
  <1> SUFFICES ASSUME SpendTypeOK, [Next]_vars PROVE SpendTypeOK'
    OBVIOUS
  <1> USE SpendAssumption DEF SpendTypeOK, Fault, Goto, ghosts
  <1>0. Days \subseteq Nat /\ \A s \in {"PENDING", "CONFIRMED", "COMPLETED", "FAILED"} :
           [status |-> s, day |-> day] \in Row
    BY DEF Row, Days
  <1>1. CASE \E p \in Payments : CheckStep(p)
    BY <1>1 DEF CheckStep, CheckPasses, CheckRefuses, CheckUnavailable, Decline,
                Passes
  <1>2. CASE \E p \in Payments : TransferStep(p)
    BY <1>2 DEF TransferStep, SendTransfer, TransferFails, LogTransfer, MoneyLeaves
  <1>3. CASE \E p \in Payments : MerchantStep(p)
    <2>1. PICK p \in Payments : MerchantStep(p)
      BY <1>3
    <2>2. \A s \in {"CONFIRMED", "FAILED"} : SetTx(p, s) => tx' \in [Payments -> Row]
      BY DEF SetTx, Row
    <2>3. tx' \in [Payments -> Row]
      BY <1>0, <2>1, <2>2 DEF MerchantStep, InsertTx, PayMerchant,
          PayMerchantFails, ConfirmTx
    <2>4. CASE InsertTx(p)
      BY <2>3, <2>4 DEF InsertTx
    <2>5. CASE PayMerchant(p)
      BY <2>3, <2>5 DEF PayMerchant, MoneyLeaves
    <2>6. CASE PayMerchantFails(p)
      BY <2>3, <2>6 DEF PayMerchantFails, MoneyLeaves
    <2>7. CASE ConfirmTx(p)
      BY <2>3, <2>7 DEF ConfirmTx
    <2> QED BY <2>1, <2>4, <2>5, <2>6, <2>7 DEF MerchantStep
  <1>4. CASE \E p \in Payments : BillStep(p)
    <2>1. PICK p \in Payments : BillStep(p)
      BY <1>4
    <2>2. \A s \in {"COMPLETED", "FAILED"} :
             [bill EXCEPT ![p].status = s] \in [Payments -> Row]
      BY DEF Row
    <2>3. CASE InsertBill(p)
      BY <1>0, <2>3 DEF InsertBill
    <2>4. CASE PayBill(p)
      BY <2>4 DEF PayBill, MoneyLeaves
    <2>5. CASE PayBillFails(p)
      BY <2>2, <2>5 DEF PayBillFails, MoneyLeaves
    <2>6. CASE BillWriteFails(p)
      BY <2>6 DEF BillWriteFails, MoneyLeaves
    <2>7. CASE BillCompleted(p)
      BY <2>2, <2>7 DEF BillCompleted
    <2>8. CASE BillNotFulfilled(p)
      BY <2>2, <2>8 DEF BillNotFulfilled
    <2> QED BY <2>1, <2>3, <2>4, <2>5, <2>6, <2>7, <2>8 DEF BillStep
  <1>5. CASE \E l \in logging : WriteActivity(l)
    BY <1>0, <1>5 DEF WriteActivity
  <1>6. CASE \E l \in logging : ActivityDropped(l)
    BY <1>6 DEF ActivityDropped
  <1>7. CASE NewDay
    BY <1>7 DEF NewDay, Days
  <1>8. CASE Crash
    BY <1>8 DEF Crash
  <1>9. CASE UNCHANGED vars
    BY <1>9 DEF vars
  <1> QED BY <1>1, <1>2, <1>3, <1>4, <1>5, <1>6, <1>7, <1>8, <1>9, Steps

(* Every variable keeps its type. *)
THEOREM SpendTyped == Spec => []SpendTypeOK
  <1> QED BY TypeInitial, TypeKept, PTL DEF Spec

-----------------------------------------------------------------------------
(* What a payment's place in its handler says about its money and rows:   *)
(* money leaves at one place only, a row is of the payment's kind and not  *)
(* older than its check, and a row that says paid belongs to money that    *)
(* left.                                                                   *)
RowsOf(p) ==
    /\ checkedOn[p] <= day
    /\ pc[p] \in {"idle", "checked", "open", "refused"} => p \notin out
    /\ pc[p] = "sent" => p \in out
    /\ pc[p] = "idle" => /\ tx[p].status = "none"
                         /\ bill[p].status = "none"
                         /\ act[p].status = "none"
                         /\ \A l \in logging : l.p # p
    /\ tx[p].status # "none" => Kind[p] = "merchant" /\ tx[p].day >= checkedOn[p]
    /\ tx[p].status = "CONFIRMED" => p \in out
    /\ bill[p].status # "none" => Kind[p] = "utility" /\ bill[p].day >= checkedOn[p]
    /\ bill[p].status = "COMPLETED" => p \in out
    /\ pc[p] \in {"open", "sent"} /\ Kind[p] = "utility" => bill[p].status = "PENDING"
    /\ act[p].status # "none" => act[p].day >= checkedOn[p]
    /\ act[p].status = "CONFIRMED" => p \in out

LogOf(l) ==
    /\ l.status = "CONFIRMED" => l.p \in out
    /\ Kind[l.p] = "transfer" => l.status = "CONFIRMED"

Steady == (\A p \in Payments : RowsOf(p)) /\ (\A l \in logging : LogOf(l))

LEMMA SteadyInitial == Init => Steady
  BY DEF Init, Steady, RowsOf, LogOf, NoRow

LEMMA SteadyKept == SpendTypeOK /\ Steady /\ [Next]_vars => Steady'
  <1> SUFFICES ASSUME SpendTypeOK, Steady, [Next]_vars PROVE Steady'
    OBVIOUS
  <1> USE SpendAssumption DEF Steady, LogOf, Fault, Goto, ghosts
  <1>0. /\ \A p \in Payments : checkedOn[p] \in Nat /\ tx[p].day \in Nat
                               /\ bill[p].day \in Nat /\ act[p].day \in Nat
        /\ day \in Nat
        /\ DOMAIN pc = Payments /\ DOMAIN checkedOn = Payments
        /\ tx \in [Payments -> Row] /\ bill \in [Payments -> Row]
        /\ act \in [Payments -> Row]
        /\ \A l \in logging : l.p \in Payments
    BY DEF SpendTypeOK, Row, Days
  <1> USE <1>0 DEF RowsOf
  <1>1. CASE \E p \in Payments : CheckStep(p)
    BY <1>1 DEF CheckStep, CheckPasses, CheckRefuses, CheckUnavailable, Decline,
                Passes
  <1>2. CASE \E p \in Payments : TransferStep(p)
    BY <1>2 DEF TransferStep, SendTransfer, TransferFails, LogTransfer, MoneyLeaves
  <1>3. CASE \E p \in Payments : MerchantStep(p)
    <2>1. PICK p \in Payments : MerchantStep(p)
      BY <1>3
    <2>4. CASE InsertTx(p)
      BY <2>4 DEF InsertTx, Row
    <2>5. CASE PayMerchant(p)
      BY <2>5 DEF PayMerchant, MoneyLeaves
    <2>6. CASE PayMerchantFails(p)
      BY <2>6 DEF PayMerchantFails, MoneyLeaves, SetTx, Row
    <2>7. CASE ConfirmTx(p)
      BY <2>7 DEF ConfirmTx, SetTx, Row
    <2> QED BY <2>1, <2>4, <2>5, <2>6, <2>7 DEF MerchantStep
  <1>4. CASE \E p \in Payments : BillStep(p)
    <2>1. PICK p \in Payments : BillStep(p)
      BY <1>4
    <2>3. CASE InsertBill(p)
      BY <2>3 DEF InsertBill, Row
    <2>4. CASE PayBill(p)
      BY <2>4 DEF PayBill, MoneyLeaves
    <2>5. CASE PayBillFails(p)
      BY <2>5 DEF PayBillFails, MoneyLeaves, Row
    <2>6. CASE BillWriteFails(p)
      BY <2>6 DEF BillWriteFails, MoneyLeaves
    <2>7. CASE BillCompleted(p)
      BY <2>7 DEF BillCompleted, Row
    <2>8. CASE BillNotFulfilled(p)
      BY <2>8 DEF BillNotFulfilled, Row
    <2> QED BY <2>1, <2>3, <2>4, <2>5, <2>6, <2>7, <2>8 DEF BillStep
  <1>5. CASE \E l \in logging : WriteActivity(l)
    BY <1>5 DEF WriteActivity, Row
  <1>6. CASE \E l \in logging : ActivityDropped(l)
    BY <1>6 DEF ActivityDropped
  <1>7. CASE NewDay
    BY <1>7 DEF NewDay
  <1>8. CASE Crash
    BY <1>8 DEF Crash
  <1>9. CASE UNCHANGED vars
    BY <1>9 DEF vars
  <1> QED BY <1>1, <1>2, <1>3, <1>4, <1>5, <1>6, <1>7, <1>8, <1>9, Steps

LEMMA SteadyAlways == Spec => [](SpendTypeOK /\ Steady)
  <1>1. Init => SpendTypeOK /\ Steady
    BY TypeInitial, SteadyInitial
  <1>2. SpendTypeOK /\ Steady /\ [Next]_vars => (SpendTypeOK /\ Steady)'
    BY TypeKept, SteadyKept
  <1> QED BY <1>1, <1>2, PTL DEF Spec

-----------------------------------------------------------------------------
(* The three sums count different payments. *)

LEMMA Separate ==
    ASSUME SpendTypeOK, Steady
    PROVE  /\ CountedTx \in SUBSET Payments
           /\ CountedBills \in SUBSET Payments
           /\ CountedActivity \in SUBSET Payments
           /\ CountedTx \cap CountedBills = {}
           /\ (CountedTx \cup CountedBills) \cap CountedActivity = {}
  BY DEF CountedTx, CountedBills, CountedActivity, Steady, RowsOf

LEMMA SpentIsTotal ==
    ASSUME SpendTypeOK, Steady
    PROVE  Spent = Total(CountedTx \cup CountedBills \cup CountedActivity)
  <1> DEFINE X == CountedTx
             Y == CountedBills
             Z == CountedActivity
  <1>1. /\ X \in SUBSET Payments /\ Y \in SUBSET Payments
        /\ Z \in SUBSET Payments /\ X \cup Y \in SUBSET Payments
        /\ X \cap Y = {} /\ (X \cup Y) \cap Z = {}
    BY Separate
  <1>2. Spent = Total(X) + Total(Y) + Total(Z)
    BY DEF Spent
  <1> HIDE DEF X, Y, Z
  <1>3. Total(X \cup Y) = Total(X) + Total(Y)
    BY <1>1, TotalUnion
  <1>4. Total((X \cup Y) \cup Z) = Total(X \cup Y) + Total(Z)
    BY <1>1, TotalUnion
  <1> QED BY <1>2, <1>3, <1>4 DEF X, Y, Z

LEMMA CountedIsOut ==
    ASSUME SpendTypeOK, Steady
    PROVE  NotCountedTwice
  <1> DEFINE A == CountedTx \cup CountedBills \cup CountedActivity
             B == out \cup {p \in Payments : bill[p].status = "PENDING"}
  <1>1. A \subseteq B /\ A \in SUBSET Payments /\ B \in SUBSET Payments
    BY DEF CountedTx, CountedBills, CountedActivity, Steady, RowsOf, SpendTypeOK
  <1> HIDE DEF A, B
  <1>2. Total(A) <= Total(B)
    BY <1>1, TotalMonotone
  <1> QED BY <1>2, SpentIsTotal DEF A, B, NotCountedTwice

(* No payment is counted by two of the three sums of check_daily_limit, *)
(* and none that neither left nor is reserved by an open bill.           *)
THEOREM CountedOnce == Spec => []NotCountedTwice
  <1>1. SpendTypeOK /\ Steady => NotCountedTwice
    BY CountedIsOut
  <1> QED BY <1>1, SteadyAlways, PTL

-----------------------------------------------------------------------------
(* The limit, for the payments that came through none of its doors. *)

(* A payment whose row the checks of its day count. *)
Recorded(p) ==
    /\ Kind[p] = "transfer" => act[p].status = "CONFIRMED"
                                  /\ act[p].day >= checkedOn[p]
    /\ Kind[p] = "merchant" => tx[p].status = "CONFIRMED"
                                  /\ tx[p].day >= checkedOn[p]
    /\ Kind[p] = "utility" => bill[p].status \in {"PENDING", "COMPLETED"}
                                 /\ bill[p].day >= checkedOn[p]

(* A payment that left is on its way to its row, or has it, or is blamed. *)
AllRecorded == \A p \in out \ leaked :
    \/ pc[p] = "sent"
    \/ Kind[p] = "transfer" /\ \E l \in logging : l.p = p
    \/ Recorded(p)

(* The payments of day d that left or still may. *)
Busy == {"checked", "open", "sent"}
Committed(d) == {p \in Payments : /\ p \in out \/ pc[p] \in Busy
                                  /\ checkedOn[p] = d}

WithinLimit == \A d \in Days : Total(Committed(d) \ Blamed) <= Limit

LimitInv == AllRecorded /\ WithinLimit

LEMMA LimitInitial == Init => LimitInv
  <1> SUFFICES ASSUME Init PROVE WithinLimit /\ AllRecorded
    BY DEF LimitInv
  <1>1. \A d \in Days : Committed(d) \ Blamed = {}
    BY DEF Init, Committed, Busy
  <1>2. 0 <= Limit
    BY SpendAssumption
  <1>3. AllRecorded
    BY DEF Init, AllRecorded
  <1> QED BY <1>1, <1>2, <1>3, TotalNat DEF WithinLimit

(* Blame is never taken back. *)
LEMMA BlameStays ==
    ASSUME [Next]_vars
    PROVE  Blamed \subseteq Blamed' /\ leaked \subseteq leaked'
  <1> USE DEF Blamed, ghosts
  <1>1. CASE \E p \in Payments : CheckStep(p)
    BY <1>1 DEF CheckStep, CheckPasses, CheckRefuses, CheckUnavailable, Decline,
                Passes
  <1>2. CASE \E p \in Payments : TransferStep(p)
    BY <1>2 DEF TransferStep, SendTransfer, TransferFails, LogTransfer
  <1>3. CASE \E p \in Payments : MerchantStep(p)
    BY <1>3 DEF MerchantStep, InsertTx, PayMerchant, PayMerchantFails, ConfirmTx
  <1>4. CASE \E p \in Payments : BillStep(p)
    BY <1>4 DEF BillStep, InsertBill, PayBill, PayBillFails, BillWriteFails,
                BillCompleted, BillNotFulfilled
  <1>5. CASE \E l \in logging : WriteActivity(l) \/ ActivityDropped(l)
    BY <1>5 DEF WriteActivity, ActivityDropped
  <1>6. CASE NewDay \/ Crash \/ UNCHANGED vars
    BY <1>6 DEF NewDay, Crash, vars
  <1> QED BY <1>1, <1>2, <1>3, <1>4, <1>5, <1>6, Steps

LEMMA RecordedKept ==
    ASSUME SpendTypeOK, Steady, [Next]_vars, AllRecorded
    PROVE  AllRecorded'
  <1> USE SpendAssumption DEF AllRecorded, Recorded, Steady, LogOf, RowsOf, Goto,
          ghosts
  <1>0. /\ \A p \in Payments : checkedOn[p] \in Nat /\ tx[p].day \in Nat
                               /\ bill[p].day \in Nat /\ act[p].day \in Nat
        /\ day \in Nat
        /\ DOMAIN pc = Payments /\ DOMAIN checkedOn = Payments
        /\ tx \in [Payments -> Row] /\ bill \in [Payments -> Row]
        /\ act \in [Payments -> Row] /\ out \subseteq Payments
        /\ \A l \in logging : l.p \in Payments
    BY DEF SpendTypeOK, Row, Days
  <1> USE <1>0
  <1>1. CASE \E p \in Payments : CheckStep(p)
    BY <1>1 DEF CheckStep, CheckPasses, CheckRefuses, CheckUnavailable, Decline,
                Passes
  <1>2. CASE \E p \in Payments : TransferStep(p)
    <2>1. PICK p \in Payments : TransferStep(p)
      BY <1>2
    <2>2. CASE SendTransfer(p)
      BY <2>2 DEF SendTransfer, MoneyLeaves
    <2>3. CASE TransferFails(p)
      BY <2>3 DEF TransferFails, MoneyLeaves
    <2>4. CASE LogTransfer(p)
      <3>1. /\ \E l \in logging' : l.p = p
            /\ logging \subseteq logging' /\ Kind[p] = "transfer"
            /\ \A q \in Payments : q # p => pc'[q] = pc[q]
            /\ UNCHANGED <<tx, bill, act, out, checkedOn, leaked>>
        <4> DEFINE l == [p |-> p, status |-> "CONFIRMED"]
        <4>1. l.p = p /\ l \in logging' /\ logging \subseteq logging'
          BY <2>4 DEF LogTransfer
        <4>2. /\ Kind[p] = "transfer"
              /\ \A q \in Payments : q # p => pc'[q] = pc[q]
              /\ UNCHANGED <<tx, bill, act, out, checkedOn, leaked>>
          BY <2>4 DEF LogTransfer
        <4> HIDE DEF l
        <4> QED BY <4>1, <4>2
      <3> QED BY <3>1
    <2> QED BY <2>1, <2>2, <2>3, <2>4 DEF TransferStep
  <1>3. CASE \E p \in Payments : MerchantStep(p)
    <2>1. PICK p \in Payments : MerchantStep(p)
      BY <1>3
    <2>4. CASE InsertTx(p)
      BY <2>4 DEF InsertTx, Row
    <2>5. CASE PayMerchant(p)
      BY <2>5 DEF PayMerchant, MoneyLeaves
    <2>6. CASE PayMerchantFails(p)
      BY <2>6 DEF PayMerchantFails, MoneyLeaves, SetTx, Row
    <2>7. CASE ConfirmTx(p)
      <3>1. p \notin leaked' => tx'[p].status = "CONFIRMED"
        BY <2>7 DEF ConfirmTx
      <3>2. tx'[p].day = tx[p].day /\ \A q \in Payments : q # p => tx'[q] = tx[q]
        BY <2>7 DEF ConfirmTx, SetTx, Row
      <3>3. /\ UNCHANGED <<bill, act, out, checkedOn>> /\ logging \subseteq logging'
            /\ \A q \in Payments : q # p => pc'[q] = pc[q]
            /\ Kind[p] = "merchant" /\ leaked \subseteq leaked'
            /\ tx'[p].status = "CONFIRMED" => tx[p].status # "none"
        BY <2>7 DEF ConfirmTx, SetTx, Row
      <3> QED BY <3>1, <3>2, <3>3
    <2> QED BY <2>1, <2>4, <2>5, <2>6, <2>7 DEF MerchantStep
  <1>4. CASE \E p \in Payments : BillStep(p)
    <2>1. PICK p \in Payments : BillStep(p)
      BY <1>4
    <2>3. CASE InsertBill(p)
      BY <2>3 DEF InsertBill, Row
    <2>4. CASE PayBill(p)
      BY <2>4 DEF PayBill, MoneyLeaves
    <2>5. CASE PayBillFails(p)
      BY <2>5 DEF PayBillFails, MoneyLeaves, Row
    <2>6. CASE BillWriteFails(p)
      BY <2>6 DEF BillWriteFails, MoneyLeaves
    <2>7. CASE BillCompleted(p)
      BY <2>7 DEF BillCompleted, Row
    <2>8. CASE BillNotFulfilled(p)
      BY <2>8 DEF BillNotFulfilled, Row
    <2> QED BY <2>1, <2>3, <2>4, <2>5, <2>6, <2>7, <2>8 DEF BillStep
  <1>5. CASE \E l \in logging : WriteActivity(l)
    BY <1>5 DEF WriteActivity, Row
  <1>6. CASE \E l \in logging : ActivityDropped(l)
    BY <1>6 DEF ActivityDropped
  <1>7. CASE NewDay
    BY <1>7 DEF NewDay
  <1>8. CASE Crash
    BY <1>8 DEF Crash
  <1>9. CASE UNCHANGED vars
    BY <1>9 DEF vars
  <1> QED BY <1>1, <1>2, <1>3, <1>4, <1>5, <1>6, <1>7, <1>8, <1>9, Steps

(* Only a check commits a payment: every other step leaves each day what  *)
(* it had, or less.                                                        *)
LEMMA OnlyChecksCommit ==
    ASSUME SpendTypeOK, [Next]_vars,
           ~ \E p \in Payments : CheckPasses(p) \/ CheckUnavailable(p)
    PROVE  \A d \in Days : Committed(d)' \subseteq Committed(d)
  <1> USE DEF SpendTypeOK, Goto, ghosts, Committed, Busy, MoneyLeaves
  <1>1. CASE \E p \in Payments : CheckStep(p)
    BY <1>1 DEF CheckStep, CheckPasses, CheckRefuses, CheckUnavailable, Decline
  <1>2. CASE \E p \in Payments : TransferStep(p)
    BY <1>2 DEF TransferStep, SendTransfer, TransferFails, LogTransfer
  <1>3. CASE \E p \in Payments : MerchantStep(p)
    BY <1>3 DEF MerchantStep, InsertTx, PayMerchant, PayMerchantFails, ConfirmTx
  <1>4. CASE \E p \in Payments : BillStep(p)
    BY <1>4 DEF BillStep, InsertBill, PayBill, PayBillFails, BillWriteFails,
                BillCompleted, BillNotFulfilled
  <1>5. CASE \E l \in logging : WriteActivity(l) \/ ActivityDropped(l)
    BY <1>5 DEF WriteActivity, ActivityDropped
  <1>6. CASE NewDay \/ Crash \/ UNCHANGED vars
    BY <1>6 DEF NewDay, Crash, vars
  <1> QED BY <1>1, <1>2, <1>3, <1>4, <1>5, <1>6, Steps

(* With no payment unfinished, a check sees all that is committed today. *)
LEMMA CheckSeesAll ==
    ASSUME SpendTypeOK, Steady, AllRecorded,
           \A p \in Payments : ~Unfinished(p)
    PROVE  Total(Committed(day) \ Blamed) <= Spent
  <1> DEFINE A == Committed(day) \ Blamed
             B == CountedTx \cup CountedBills \cup CountedActivity
  <1>1. ASSUME NEW p \in A PROVE p \in B
    <2>1. /\ p \in Payments /\ p \in out /\ checkedOn[p] = day
          /\ Recorded(p)
      BY DEF Committed, Unfinished, AllRecorded, Busy, Blamed
    <2>2. Kind[p] \in {"transfer", "merchant", "utility"}
      BY <2>1, SpendAssumption
    <2> QED BY <2>1, <2>2 DEF Recorded, CountedTx, CountedBills, CountedActivity
  <1>2. A \in SUBSET Payments /\ B \in SUBSET Payments
    BY DEF Committed, CountedTx, CountedBills, CountedActivity
  <1> HIDE DEF A, B
  <1>3. Total(A) <= Total(B)
    BY <1>1, <1>2, TotalMonotone
  <1> QED BY <1>3, SpentIsTotal DEF A, B

LEMMA WithinLimitKept ==
    ASSUME SpendTypeOK, Steady, [Next]_vars, AllRecorded, WithinLimit
    PROVE  WithinLimit'
  <1> SUFFICES ASSUME NEW d \in Days PROVE (Total(Committed(d) \ Blamed) <= Limit)'
    BY DEF WithinLimit
  <1> DEFINE A == Committed(d) \ Blamed
             B == Committed(day) \ Blamed
  <1>1. A \in SUBSET Payments /\ A' \in SUBSET Payments /\ B \in SUBSET Payments
    BY DEF Committed
  <1>2. Total(A)' = Total(A')
    BY DEF Total, MapThenSumSet, MapThenFoldSet
  <1>3. Total(A) <= Limit
    BY DEF WithinLimit
  <1>4. Blamed \subseteq Blamed'
    BY BlameStays
  <1>5. Limit \in Nat /\ Amount \in [Payments -> Nat]
    BY SpendAssumption
  <1>6. CASE A' \subseteq A
    <2>1. Total(A') <= Total(A) /\ Total(A') \in Nat /\ Total(A) \in Nat
      <3> HIDE DEF A
      <3> QED BY <1>1, <1>6, TotalMonotone, TotalNat
    <2> HIDE DEF A
    <2> QED BY <1>2, <1>3, <1>5, <2>1 DEF A
  <1>7. CASE ~(A' \subseteq A)
    <2>1. PICK p \in Payments : CheckPasses(p) \/ CheckUnavailable(p)
      <3>1. Committed(d)' \subseteq Committed(d) => A' \subseteq A
        BY <1>4
      <3> QED BY <1>7, <3>1, OnlyChecksCommit
    <2>2. /\ pc[p] = "idle" /\ p \notin out /\ checkedOn'[p] = day /\ out' = out
          /\ \A q \in Payments : q # p => pc'[q] = pc[q] /\ checkedOn'[q] = checkedOn[q]
      BY <2>1 DEF CheckPasses, CheckUnavailable, Passes, Goto, SpendTypeOK, Steady,
                  RowsOf
    <2>3. A' \ {p} \subseteq A
      BY <1>4, <2>2 DEF Committed
    <2>4. p \in A'
      BY <1>7, <2>3
    <2>5. d = day /\ A = B /\ p \notin Blamed'
      BY <2>2, <2>4 DEF Committed
    <2>6. /\ Amount[p] + Spent <= Limit
          /\ \A q \in Payments : ~Unfinished(q)
      BY <2>1, <2>5 DEF CheckPasses, CheckUnavailable, Passes, Blamed
    <2>7. Total(B) <= Spent /\ Spent \in Nat
      BY <2>6, CheckSeesAll, Separate, TotalNat DEF Spent
    <2> HIDE DEF A, B
    <2>8. Total(A') = Amount[p] + Total(A' \ {p})
      BY <1>1, <2>4, TotalWithout
    <2>9. Total(A' \ {p}) <= Total(B)
      BY <1>1, <2>3, <2>5, TotalMonotone
    <2>10. /\ Amount[p] \in Nat /\ Total(B) \in Nat
           /\ Total(A' \ {p}) \in Nat
      BY <1>1, <1>5, TotalNat
    <2> DEFINE n == Total(A')
               k == Total(A' \ {p})
               m == Total(B)
    <2>11. n = Amount[p] + k /\ k <= m /\ m <= Spent /\ k \in Nat /\ m \in Nat
      BY <2>7, <2>8, <2>9, <2>10
    <2> HIDE DEF n, k, m
    <2>12. n <= Limit
      BY <1>5, <2>6, <2>7, <2>10, <2>11
    <2> QED BY <1>2, <2>12 DEF n, A
  <1> QED BY <1>6, <1>7

LEMMA LimitKept == SpendTypeOK /\ Steady /\ LimitInv /\ [Next]_vars => LimitInv'
  BY RecordedKept, WithinLimitKept DEF LimitInv

LEMMA CommittedIsSpent ==
    ASSUME SpendTypeOK, LimitInv
    PROVE  OverspendExplained
  <1> SUFFICES ASSUME NEW d \in Days
               PROVE  Total({p \in out \ Blamed : checkedOn[p] = d}) <= Limit
    BY DEF OverspendExplained
  <1> DEFINE A == {p \in out \ Blamed : checkedOn[p] = d}
             B == Committed(d) \ Blamed
  <1>1. A \in SUBSET Payments /\ B \in SUBSET Payments /\ A \subseteq B
    BY DEF Committed, SpendTypeOK
  <1>2. Total(B) <= Limit
    BY DEF LimitInv, WithinLimit
  <1> HIDE DEF A, B
  <1>3. Total(A) <= Total(B) /\ Total(A) \in Nat /\ Total(B) \in Nat
    BY <1>1, TotalMonotone, TotalNat
  <1>4. Limit \in Nat
    BY SpendAssumption
  <1>5. Total(A) <= Limit
    BY <1>2, <1>3, <1>4
  <1> QED BY <1>5 DEF A

(* What leaves on a day, apart from payments that came through a door the  *)
(* code leaves open - two in flight at once, a failed limit query, a       *)
(* payment left uncounted - is within the limit of check_daily_limit.      *)
THEOREM OverspendIsExplained == Spec => []OverspendExplained
  <1>1. Init => SpendTypeOK /\ Steady /\ LimitInv
    BY TypeInitial, SteadyInitial, LimitInitial
  <1>2. /\ SpendTypeOK /\ Steady /\ LimitInv /\ [Next]_vars
        => (SpendTypeOK /\ Steady /\ LimitInv)'
    BY TypeKept, SteadyKept, LimitKept
  <1>3. SpendTypeOK /\ Steady /\ LimitInv => OverspendExplained
    BY CommittedIsSpent
  <1> QED BY <1>1, <1>2, <1>3, PTL DEF Spec

HasCause(d) == SpentOn(d) > Limit =>
                 \E p \in out : p \in Blamed /\ checkedOn[p] = d

(* A day on which more than the limit leaves has a payment to blame. *)
THEOREM OverspendHasCause == Spec => [](\A d \in Days : HasCause(d))
  <1>1. SpendTypeOK /\ OverspendExplained => \A d \in Days : HasCause(d)
    <2> SUFFICES ASSUME SpendTypeOK, OverspendExplained, NEW d \in Days,
                        ~ \E p \in out : p \in Blamed /\ checkedOn[p] = d
                 PROVE  ~(SpentOn(d) > Limit)
      BY DEF HasCause
    <2> DEFINE A == {p \in out : checkedOn[p] = d}
    <2>1. {p \in out \ Blamed : checkedOn[p] = d} = A /\ A \in SUBSET Payments
      BY DEF SpendTypeOK
    <2>2. SpentOn(d) = Total(A) /\ Total(A) <= Limit
      BY <2>1 DEF SpentOn, OverspendExplained
    <2>3. Limit \in Nat /\ Total(A) \in Nat
      BY <2>1, TotalNat, SpendAssumption
    <2> HIDE DEF A
    <2> QED BY <2>2, <2>3
  <1> QED BY <1>1, SpendTyped, OverspendIsExplained, PTL
=============================================================================
