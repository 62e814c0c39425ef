-------------------------- MODULE MarketOrdersProofs --------------------------
(* What a race of checkouts and reviews cannot do, for every number of         *)
(* learners, keys, requests and products: charge an order twice or not at all, *)
(* hand out Bread and gift both, or refund an order whose decision nothing     *)
(* overrode other than as its status says.                                     *)
EXTENDS MarketOrders, FiniteSetTheorems, TLAPS

-----------------------------------------------------------------------------
(* The inductive invariant.                                                  *)

\* A review is of an order that exists: it found it, and orders are not deleted.
ReviewInv == \A v \in Reviews : review[v] # NoReview => order[review[v].key] # NoOrder

\* What the redemption of an order says of its refund, and of the order's kind.
GiftInv ==
  \A k \in Keys :
    /\ order[k] = NoOrder => Refunded(k) = {} /\ redemption[k] = "none"
    /\ order[k] # NoOrder /\ order[k].product = "gift" =>
         redemption[k] # "none" /\ (Refunded(k) # {} <=> redemption[k] = "CANCELLED")

\* Unless an approval overrode a decision, refunded means refunded by one entry.
StatusInv ==
  \A k \in Keys \ overridden :
    IF order[k].status \in {"rejected", "refunded"}
    THEN \E e \in EntryType : Refunded(k) = {e}
    ELSE Refunded(k) = {}

IInv == TypeOK /\ ReviewInv /\ ChargedOnce /\ GiftInv /\ StatusInv

-----------------------------------------------------------------------------
(* The ledger's operations.                                                  *)

LEMMA EntryFields ==
  \A u \in Users, s \in Refunds \cup {"PURCHASE"}, k \in Keys, n \in Int :
    LET e == [user |-> u, source |-> s, key |-> k, amount |-> n]
    IN  e \in EntryType /\ e.user = u /\ e.source = s /\ e.key = k /\ e.amount = n
  BY DEF EntryType

\* A charge of a key not charged before adds its one entry and nothing else.
LEMMA DeductAdds ==
  ASSUME TypeOK, NEW u \in Users, NEW k \in Keys, NEW n \in Nat,
         Paid(k) = {}, Deduct(u, k, n)
  PROVE  /\ ledger' \in SUBSET EntryType
         /\ balance' = [balance EXCEPT ![u] = @ - n]
         /\ Paid(k)' = {[user |-> u, source |-> "PURCHASE", key |-> k, amount |-> -n]}
         /\ \A j \in Keys : j # k => Paid(j)' = Paid(j)
         /\ \A j \in Keys : Refunded(j)' = Refunded(j)
<1> DEFINE e == [user |-> u, source |-> "PURCHASE", key |-> k, amount |-> -n]
<1>1. e \in EntryType /\ e.user = u /\ e.source = "PURCHASE" /\ e.key = k
  BY EntryFields
<1>2. Entry(u, "PURCHASE", k) = {}
  BY DEF Paid, Entry
<1>3. balance' = [balance EXCEPT ![u] = @ - n] /\ ledger' = ledger \cup {e}
  BY <1>2 DEF Deduct
<1>4. "PURCHASE" \notin Refunds
  BY DEF Refunds
<1> HIDE DEF e
<1>5. ledger' \in SUBSET EntryType
  BY <1>1, <1>3 DEF TypeOK
<1>6. Paid(k)' = {e}
  BY <1>1, <1>3 DEF Paid
<1>7. \A j \in Keys : j # k => Paid(j)' = Paid(j)
  BY <1>1, <1>3 DEF Paid
<1>8. \A j \in Keys : Refunded(j)' = Refunded(j)
  BY <1>1, <1>3, <1>4 DEF Refunded
<1> QED BY <1>3, <1>5, <1>6, <1>7, <1>8 DEF e

\* A refund leaves its order refunded, by one entry if there was none, and
\* touches no other order and no charge.
LEMMA AwardAdds ==
  ASSUME TypeOK, NEW u \in Users, NEW s \in Refunds, NEW k \in Keys, NEW n \in Nat,
         Award(u, s, k, n)
  PROVE  /\ ledger' \in SUBSET EntryType
         /\ balance' \in [Users -> Nat]
         /\ \A j \in Keys : Paid(j)' = Paid(j)
         /\ \A j \in Keys : j # k => Refunded(j)' = Refunded(j)
         /\ Refunded(k)' # {}
         /\ Refunded(k) = {} => \E e \in EntryType : Refunded(k)' = {e}
<1> DEFINE g == IF boost[u] THEN 2 * n ELSE n
           e == [user |-> u, source |-> s, key |-> k, amount |-> g]
<1>0. g \in Nat
  OBVIOUS
<1>1. e \in EntryType /\ e.user = u /\ e.source = s /\ e.key = k
  BY <1>0, EntryFields
<1>2. s # "PURCHASE"
  BY DEF Refunds
<1>3. CASE Entry(u, s, k) # {}
  <2>1. ledger' = ledger /\ balance' = balance
    BY <1>3 DEF Award
  <2>2. Refunded(k) # {}
    BY <1>3 DEF Entry, Refunded
  <2> QED BY <2>1, <2>2 DEF TypeOK, Paid, Refunded
<1>4. CASE Entry(u, s, k) = {}
  <2>1. balance' = [balance EXCEPT ![u] = @ + g] /\ ledger' = ledger \cup {e}
    BY <1>4 DEF Award
  <2> HIDE DEF e, g
  <2>2. balance' \in [Users -> Nat]
    BY <1>0, <2>1 DEF TypeOK
  <2>3. ledger' \in SUBSET EntryType
    BY <1>1, <2>1 DEF TypeOK
  <2>4. \A j \in Keys : Paid(j)' = Paid(j)
    BY <1>1, <1>2, <2>1 DEF Paid
  <2>5. \A j \in Keys : j # k => Refunded(j)' = Refunded(j)
    BY <1>1, <2>1 DEF Refunded
  <2>6. Refunded(k)' = Refunded(k) \cup {e}
    BY <1>1, <2>1 DEF Refunded
  <2> QED BY <1>1, <2>2, <2>3, <2>4, <2>5, <2>6
<1> QED BY <1>3, <1>4

-----------------------------------------------------------------------------
(* The operations preserve the invariant.                                    *)

LEMMA NoOrderFacts ==
  /\ NoOrder \notin OrderType /\ NoOrder.status = "none"
  /\ \A o \in OrderType : o # NoOrder /\ o.status # "none" /\ o.user \in Users
                          /\ o.product \in Products /\ o.total \in Nat
  BY DEF NoOrder, OrderType

LEMMA ReviewFacts ==
  /\ NoReview \notin ReviewType /\ NoReview.pc = "idle"
  /\ \A x \in ReviewType : x # NoReview /\ x.pc # "idle" /\ x.key \in Keys
                           /\ x.pc \in {"approve", "release", "reject", "fail"}
  BY NullAssumption DEF NoReview, ReviewType

\* A step that changes neither order, redemption, ledger nor the history keeps
\* all but the types and the reviews as they are.
LEMMA Untouched ==
  ASSUME IInv, UNCHANGED <<order, redemption, ledger, overridden>>
  PROVE  ChargedOnce' /\ GiftInv' /\ StatusInv'
  BY DEF IInv, ChargedOnce, GiftInv, StatusInv, Paid, Refunded

LEMMA InitInv == Init => IInv
<1> SUFFICES ASSUME Init PROVE IInv
  OBVIOUS
<1>1. /\ order = [k \in Keys |-> NoOrder] /\ redemption = [k \in Keys |-> "none"]
      /\ ledger = {} /\ overridden = {}
      /\ checkout = [c \in Checkouts |-> NoCheckout] /\ review = [v \in Reviews |-> NoReview]
  BY DEF Init
<1>2. TypeOK
  BY <1>1, NumbersAssumption DEF Init, TypeOK
<1>3. \A k \in Keys : Paid(k) = {} /\ Refunded(k) = {}
  BY <1>1 DEF Paid, Refunded
<1>4. ReviewInv
  BY <1>1 DEF ReviewInv
<1>5. ChargedOnce /\ GiftInv /\ StatusInv
  BY <1>1, <1>3, NoOrderFacts DEF ChargedOnce, GiftInv, StatusInv
<1> QED BY <1>2, <1>4, <1>5 DEF IInv

\* The order a purchase creates is charged, and neither refunded nor released.
LEMMA PurchaseInv ==
  ASSUME IInv, NEW u \in Users, NEW k \in Keys, NEW p \in Products,
         LET x == [pc |-> "buy", user |-> u, key |-> k, product |-> p]
         IN  Affordable(x) /\ Purchase(x),
         order[k] = NoOrder, UNCHANGED <<review, overridden>>,
         checkout' \in [Checkouts -> CheckoutType \cup {NoCheckout}]
  PROVE  IInv'
<1> DEFINE new == [status |-> IF p = "gift" THEN "pending" ELSE "approved",
                   user |-> u, product |-> p, total |-> Price]
<1>1. new \in OrderType /\ new.status \notin {"rejected", "refunded"}
      /\ new.user = u /\ new.product = p /\ new.total = Price
  BY NumbersAssumption DEF OrderType
<1>2. /\ order' = [order EXCEPT ![k] = new]
      /\ redemption' = [redemption EXCEPT ![k] = IF p = "gift" THEN "PENDING" ELSE "none"]
      /\ stock' = [stock EXCEPT ![p] = @ - 1]
      /\ boost' = [boost EXCEPT ![u] = @ \/ p = "card"]
      /\ Deduct(u, k, Price)
      /\ stock[p] >= 1 /\ balance[u] >= Price
  BY DEF Purchase, Affordable
<1> HIDE DEF new
<1>3. Paid(k) = {} /\ Refunded(k) = {}
  BY DEF IInv, ChargedOnce, GiftInv
<1>4. /\ ledger' \in SUBSET EntryType
      /\ balance' = [balance EXCEPT ![u] = @ - Price]
      /\ Paid(k)' = {[user |-> u, source |-> "PURCHASE", key |-> k, amount |-> -Price]}
      /\ \A j \in Keys : j # k => Paid(j)' = Paid(j)
      /\ \A j \in Keys : Refunded(j)' = Refunded(j)
  BY <1>2, <1>3, DeductAdds, NumbersAssumption DEF IInv
<1>5. order' \in [Keys -> OrderType \cup {NoOrder}] /\ order'[k] = new
      /\ \A j \in Keys : j # k => order'[j] = order[j] /\ redemption'[j] = redemption[j]
  BY <1>1, <1>2 DEF IInv, TypeOK
<1>6. TypeOK'
  <2>1. stock' \in [Products -> Nat] /\ balance' \in [Users -> Nat]
    BY <1>2, <1>4, NumbersAssumption DEF IInv, TypeOK
  <2>2. redemption' \in [Keys -> {"none", "PENDING", "PROCESSING", "CANCELLED"}]
    BY <1>2 DEF IInv, TypeOK
  <2>3. boost' \in [Users -> BOOLEAN]
    BY <1>2, Zenon DEF IInv, TypeOK
  <2> QED BY <1>4, <1>5, <2>1, <2>2, <2>3 DEF IInv, TypeOK
<1>7. new # NoOrder
  BY <1>1, NoOrderFacts
<1>8. ReviewInv'
  BY <1>5, <1>7, ReviewFacts DEF IInv, TypeOK, ReviewInv
<1>9. ChargedOnce'
  BY <1>1, <1>4, <1>5, <1>7 DEF IInv, ChargedOnce
<1>10. GiftInv'
  <2>1. redemption'[k] = IF p = "gift" THEN "PENDING" ELSE "none"
    BY <1>2 DEF IInv, TypeOK
  <2> QED BY <1>1, <1>3, <1>4, <1>5, <1>7, <2>1 DEF IInv, GiftInv
<1>11. StatusInv'
  BY <1>1, <1>3, <1>4, <1>5 DEF IInv, StatusInv
<1> QED BY <1>6, <1>8, <1>9, <1>10, <1>11 DEF IInv

LEMMA BuyInv ==
  ASSUME IInv, NEW c \in Checkouts, Buy(c)
  PROVE  IInv'
<1>1. PICK u \in Users, k \in Keys, p \in Products :
        checkout[c] = [pc |-> "buy", user |-> u, key |-> k, product |-> p]
  BY DEF IInv, TypeOK, Buy, CheckoutType, NoCheckout
<1>2. /\ checkout' \in [Checkouts -> CheckoutType \cup {NoCheckout}]
      /\ UNCHANGED <<review, overridden>>
  BY DEF IInv, TypeOK, Buy
<1>3. CASE ~(order[k] = NoOrder /\ Affordable(checkout[c]))
  <2>1. NothingBought
    BY <1>1, <1>3 DEF Buy
  <2>2. TypeOK' /\ ReviewInv'
    BY <1>2, <2>1 DEF IInv, TypeOK, ReviewInv, NothingBought
  <2>3. ChargedOnce' /\ GiftInv' /\ StatusInv'
    BY <1>2, <2>1, Untouched DEF NothingBought
  <2> QED BY <2>2, <2>3 DEF IInv
<1>4. CASE order[k] = NoOrder /\ Affordable(checkout[c])
  <2>1. Affordable(checkout[c]) /\ Purchase(checkout[c])
    BY <1>1, <1>4 DEF Buy
  <2> QED BY <1>1, <1>2, <1>4, <2>1, PurchaseInv
<1> QED BY <1>3, <1>4

\* A claimed order given back: from status "from" to status "to".
LEMMA GiveBackInv ==
  ASSUME IInv, NEW k \in Keys, NEW s \in Refunds, NEW to \in {"rejected", "refunded"},
         order[k].status \in {"pending", "approved"},
         order' = [order EXCEPT ![k].status = to], GiveBack(k, s),
         UNCHANGED <<boost, checkout, overridden>>,
         review' \in [Reviews -> ReviewType \cup {NoReview}],
         \A v \in Reviews : review'[v] # NoReview => review'[v] = review[v]
  PROVE  IInv'
<1>1. order[k] \in OrderType /\ order[k] # NoOrder
  BY NoOrderFacts DEF IInv, TypeOK
<1> DEFINE new == [order[k] EXCEPT !.status = to]
<1>2. new \in OrderType /\ new.status = to /\ new.user = order[k].user
      /\ new.product = order[k].product /\ new.total = order[k].total
  BY <1>1 DEF OrderType
<1>3. order' = [order EXCEPT ![k] = new]
  BY DEF IInv, TypeOK
<1> HIDE DEF new
<1>4. order' \in [Keys -> OrderType \cup {NoOrder}] /\ order'[k] = new
      /\ \A j \in Keys : j # k => order'[j] = order[j]
  BY <1>2, <1>3 DEF IInv, TypeOK
<1>5. /\ Award(order[k].user, s, k, order[k].total)
      /\ stock' = [stock EXCEPT ![order[k].product] = @ + 1]
      /\ redemption' = [redemption EXCEPT ![k] = IF @ = "none" THEN @ ELSE "CANCELLED"]
  BY DEF GiveBack
<1>6. /\ ledger' \in SUBSET EntryType
      /\ balance' \in [Users -> Nat]
      /\ \A j \in Keys : Paid(j)' = Paid(j)
      /\ \A j \in Keys : j # k => Refunded(j)' = Refunded(j)
      /\ Refunded(k)' # {}
      /\ Refunded(k) = {} => \E e \in EntryType : Refunded(k)' = {e}
  BY <1>1, <1>5, AwardAdds, NoOrderFacts DEF IInv
<1>7. /\ redemption' \in [Keys -> {"none", "PENDING", "PROCESSING", "CANCELLED"}]
      /\ redemption'[k] = IF redemption[k] = "none" THEN "none" ELSE "CANCELLED"
      /\ \A j \in Keys : j # k => redemption'[j] = redemption[j]
  BY <1>5 DEF IInv, TypeOK
<1>8. stock' \in [Products -> Nat]
  BY <1>1, <1>5, NoOrderFacts DEF IInv, TypeOK
<1>9. TypeOK'
  BY <1>4, <1>6, <1>7, <1>8 DEF IInv, TypeOK
<1>10. ReviewInv'
  BY <1>2, <1>4, NoOrderFacts DEF IInv, ReviewInv
<1>11. ChargedOnce'
  BY <1>1, <1>2, <1>4, <1>6, NoOrderFacts DEF IInv, ChargedOnce
<1>12. GiftInv'
  BY <1>1, <1>2, <1>4, <1>6, <1>7, NoOrderFacts DEF IInv, GiftInv
<1>13. StatusInv'
  BY <1>1, <1>2, <1>4, <1>6 DEF IInv, StatusInv
<1> QED BY <1>9, <1>10, <1>11, <1>12, <1>13 DEF IInv

LEMMA ApproveInv ==
  ASSUME IInv, NEW v \in Reviews, Approve(v)
  PROVE  IInv'
<1> DEFINE k == review[v].key
<1>1. review[v] \in ReviewType /\ k \in Keys /\ review[v].pc = "approve"
  BY ReviewFacts DEF IInv, TypeOK, Approve
<1>2. order[k] \in OrderType /\ order[k] # NoOrder
  BY <1>1, NoOrderFacts, ReviewFacts DEF IInv, TypeOK, ReviewInv
<1> DEFINE new == [order[k] EXCEPT !.status = "approved"]
<1>3. new \in OrderType /\ new.status = "approved" /\ new.user = order[k].user
      /\ new.product = order[k].product /\ new.total = order[k].total
  BY <1>2 DEF OrderType
<1>4. /\ order' = [order EXCEPT ![k] = new]
      /\ overridden' = IF order[k].status = "pending" THEN overridden ELSE overridden \cup {k}
      /\ review' = [review EXCEPT ![v].pc = "release"]
      /\ UNCHANGED <<redemption, stock, balance, boost, ledger, checkout>>
  BY <1>1 DEF Approve, IInv, TypeOK
<1>5. [review[v] EXCEPT !.pc = "release"] \in ReviewType
      /\ [review[v] EXCEPT !.pc = "release"].key = k
  BY <1>1 DEF ReviewType
<1> HIDE DEF new, k
<1>6. order' \in [Keys -> OrderType \cup {NoOrder}] /\ order'[k] = new
      /\ \A j \in Keys : j # k => order'[j] = order[j]
  BY <1>1, <1>3, <1>4 DEF IInv, TypeOK
<1>7. review' \in [Reviews -> ReviewType \cup {NoReview}] /\ review'[v].key = k
      /\ \A w \in Reviews : w # v => review'[w] = review[w]
  BY <1>4, <1>5 DEF IInv, TypeOK
<1>8. TypeOK'
  BY <1>1, <1>4, <1>6, <1>7 DEF IInv, TypeOK
<1>9. ReviewInv'
  BY <1>1, <1>3, <1>6, <1>7, NoOrderFacts, ReviewFacts DEF IInv, TypeOK, ReviewInv
<1>10. \A j \in Keys : Paid(j)' = Paid(j) /\ Refunded(j)' = Refunded(j)
  BY <1>4 DEF Paid, Refunded
<1>11. ChargedOnce'
  BY <1>1, <1>2, <1>3, <1>6, <1>10, NoOrderFacts DEF IInv, ChargedOnce
<1>12. GiftInv'
  BY <1>2, <1>3, <1>4, <1>6, <1>10, NoOrderFacts DEF IInv, GiftInv
<1>13. StatusInv'
  BY <1>1, <1>3, <1>4, <1>6, <1>10 DEF IInv, StatusInv
<1> QED BY <1>8, <1>9, <1>11, <1>12, <1>13 DEF IInv

LEMMA ReleaseInv ==
  ASSUME IInv, NEW v \in Reviews, Release(v)
  PROVE  IInv'
<1> DEFINE k == review[v].key
<1>1. k \in Keys
  BY ReviewFacts DEF IInv, TypeOK, Release
<1>2. /\ redemption' = [redemption EXCEPT ![k] = IF @ = "PENDING" THEN "PROCESSING" ELSE @]
      /\ review' = [review EXCEPT ![v] = NoReview]
      /\ UNCHANGED <<order, stock, balance, boost, ledger, checkout, overridden>>
  BY DEF Release
<1> HIDE DEF k
<1>3. \A j \in Keys : Paid(j)' = Paid(j) /\ Refunded(j)' = Refunded(j)
  BY <1>2 DEF Paid, Refunded
<1>4. /\ redemption' \in [Keys -> {"none", "PENDING", "PROCESSING", "CANCELLED"}]
      /\ \A j \in Keys : /\ redemption'[j] = "none" <=> redemption[j] = "none"
                         /\ redemption'[j] = "CANCELLED" <=> redemption[j] = "CANCELLED"
  BY <1>1, <1>2 DEF IInv, TypeOK
<1>5. TypeOK' /\ ReviewInv'
  BY <1>2, <1>4 DEF IInv, TypeOK, ReviewInv
<1>6. ChargedOnce' /\ StatusInv'
  BY <1>2, <1>3 DEF IInv, ChargedOnce, StatusInv
<1>7. GiftInv'
  BY <1>2, <1>3, <1>4 DEF IInv, GiftInv
<1> QED BY <1>5, <1>6, <1>7 DEF IInv

\* A review that is over: its claim failed, or it was cut off.
LEMMA ReviewEnds ==
  ASSUME IInv, NEW v \in Reviews, review' = [review EXCEPT ![v] = NoReview],
         UNCHANGED <<order, redemption, stock, balance, boost, ledger, checkout, overridden>>
  PROVE  IInv'
<1>1. TypeOK' /\ ReviewInv'
  BY DEF IInv, TypeOK, ReviewInv
<1> QED BY <1>1, Untouched DEF IInv

LEMMA RejectInv ==
  ASSUME IInv, NEW v \in Reviews, Reject(v) \/ FailDelivery(v)
  PROVE  IInv'
<1> DEFINE k == review[v].key
<1>1. k \in Keys
  BY ReviewFacts DEF IInv, TypeOK, Reject, FailDelivery
<1>2. /\ review' = [review EXCEPT ![v] = NoReview]
      /\ UNCHANGED <<boost, checkout, overridden>>
  BY DEF Reject, FailDelivery
<1>3. review' \in [Reviews -> ReviewType \cup {NoReview}]
      /\ \A w \in Reviews : review'[w] # NoReview => review'[w] = review[w]
  BY <1>2 DEF IInv, TypeOK
<1>4. \/ UNCHANGED <<order, redemption, stock, balance, ledger>>
      \/ \E to \in {"rejected", "refunded"}, s \in Refunds :
           /\ order[k].status \in {"pending", "approved"}
           /\ order' = [order EXCEPT ![k].status = to]
           /\ GiveBack(k, s)
  BY DEF Reject, FailDelivery, Refunds
<1> HIDE DEF k
<1>5. CASE UNCHANGED <<order, redemption, stock, balance, ledger>>
  BY <1>2, <1>5, ReviewEnds
<1>6. CASE \E to \in {"rejected", "refunded"}, s \in Refunds :
             /\ order[k].status \in {"pending", "approved"}
             /\ order' = [order EXCEPT ![k].status = to]
             /\ GiveBack(k, s)
  <2>1. PICK to \in {"rejected", "refunded"}, s \in Refunds :
             /\ order[k].status \in {"pending", "approved"}
             /\ order' = [order EXCEPT ![k].status = to]
             /\ GiveBack(k, s)
    BY <1>6
  <2> QED BY <1>1, <1>2, <1>3, <2>1, GiveBackInv
<1> QED BY <1>4, <1>5, <1>6

LEMMA StepInv == IInv /\ [Next]_vars => IInv'
<1> SUFFICES ASSUME IInv, [Next]_vars PROVE IInv'
  OBVIOUS
<1>1. ASSUME NEW c \in Checkouts, NEW u \in Users, NEW k \in Keys, NEW p \in Products,
             Ask(c, u, k, p)
      PROVE  IInv'
  <2>1. [pc |-> "buy", user |-> u, key |-> k, product |-> p] \in CheckoutType
    BY DEF CheckoutType
  <2>2. TypeOK' /\ ReviewInv'
    BY <1>1, <2>1 DEF Ask, IInv, TypeOK, ReviewInv
  <2> QED BY <1>1, <2>2, Untouched DEF Ask, IInv
<1>2. ASSUME NEW c \in Checkouts, Buy(c) PROVE IInv'
  BY <1>2, BuyInv
<1>3. ASSUME NEW c \in Checkouts, CheckoutDies(c) PROVE IInv'
  <2>1. TypeOK' /\ ReviewInv'
    BY <1>3 DEF CheckoutDies, IInv, TypeOK, ReviewInv
  <2> QED BY <1>3, <2>1, Untouched DEF CheckoutDies, IInv
<1>4. ASSUME NEW v \in Reviews, NEW k \in Keys, NEW pc \in {"approve", "reject", "fail"},
             Open(v, k, pc)
      PROVE  IInv'
  <2>1. [pc |-> pc, key |-> k] \in ReviewType /\ [pc |-> pc, key |-> k].key = k
    BY DEF ReviewType
  <2>2. order[k] # NoOrder
    BY <1>4, NoOrderFacts DEF Open
  <2>3. TypeOK' /\ ReviewInv'
    BY <1>4, <2>1, <2>2 DEF Open, IInv, TypeOK, ReviewInv
  <2> QED BY <1>4, <2>3, Untouched DEF Open, IInv
<1>5. ASSUME NEW v \in Reviews, Approve(v) PROVE IInv'
  BY <1>5, ApproveInv
<1>6. ASSUME NEW v \in Reviews, Release(v) PROVE IInv'
  BY <1>6, ReleaseInv
<1>7. ASSUME NEW v \in Reviews, Reject(v) \/ FailDelivery(v) PROVE IInv'
  BY <1>7, RejectInv
<1>8. ASSUME NEW v \in Reviews, ReviewDies(v) PROVE IInv'
  BY <1>8, ReviewEnds DEF ReviewDies
<1>9. ASSUME NEW u \in Users, BoostEnds(u) PROVE IInv'
  <2>1. TypeOK' /\ ReviewInv'
    BY <1>9 DEF BoostEnds, IInv, TypeOK, ReviewInv
  <2> QED BY <1>9, <2>1, Untouched DEF BoostEnds, IInv
<1>10. ASSUME UNCHANGED vars PROVE IInv'
  <2>1. TypeOK' /\ ReviewInv'
    BY <1>10 DEF vars, IInv, TypeOK, ReviewInv
  <2> QED BY <1>10, <2>1, Untouched DEF vars, IInv
<1> QED BY <1>1, <1>2, <1>3, <1>4, <1>5, <1>6, <1>7, <1>8, <1>9, <1>10
        DEF Next, CheckoutStep, ReviewStep

LEMMA Invariant == Spec => []IInv
  BY InitInv, StepInv, PTL DEF Spec

-----------------------------------------------------------------------------
(* The units.                                                                *)

\* Orders of p that were not given back; they are finitely many, as each was bought.
Out(p) == {k \in Keys : order[k].status \in {"pending", "approved"} /\ order[k].product = p}

\* Stock is counted: a unit is on the shelf or in an order not given back.
UnitInv ==
  overridden = {} =>
    \A p \in Products : IsFiniteSet(Out(p)) /\ stock[p] + Cardinality(Out(p)) = Supply

\* An order that comes to be out takes a unit of its product, and of no other.
LEMMA UnitTaken ==
  ASSUME IInv, UnitInv, NEW k \in Keys, NEW p \in Products, NEW new,
         order[k].status \notin {"pending", "approved"},
         new.status \in {"pending", "approved"}, new.product = p,
         order' = [order EXCEPT ![k] = new], stock' = [stock EXCEPT ![p] = @ - 1],
         UNCHANGED overridden
  PROVE  UnitInv'
<1>0. /\ order \in [Keys -> OrderType \cup {NoOrder}] /\ stock \in [Products -> Nat] /\ Supply \in Nat
  BY NumbersAssumption DEF IInv, TypeOK
<1>1. order'[k] = new /\ \A j \in Keys : j # k => order'[j] = order[j]
  BY <1>0
<1>2. SUFFICES ASSUME overridden = {}, NEW q \in Products
               PROVE  IsFiniteSet(Out(q)') /\ stock'[q] + Cardinality(Out(q)') = Supply
  BY DEF UnitInv
<1>3. IsFiniteSet(Out(q)) /\ stock[q] + Cardinality(Out(q)) = Supply /\ Cardinality(Out(q)) \in Nat
  BY <1>2, FS_CardinalityType DEF UnitInv
<1>4. CASE q = p
  <2>1. Out(q)' = Out(q) \cup {k} /\ k \notin Out(q)
    BY <1>1, <1>4 DEF Out
  <2>2. IsFiniteSet(Out(q)') /\ Cardinality(Out(q)') = Cardinality(Out(q)) + 1
    BY <1>3, <2>1, FS_AddElement
  <2>3. stock'[q] = stock[q] - 1 /\ stock[q] \in Nat
    BY <1>0, <1>4
  <2> QED BY <1>0, <1>3, <2>2, <2>3
<1>5. CASE q # p
  <2>1. Out(q)' = Out(q)
    BY <1>1, <1>5 DEF Out
  <2> QED BY <1>0, <1>3, <1>5, <2>1
<1> QED BY <1>4, <1>5

\* An order that is given back returns the unit of its product.
LEMMA UnitReturned ==
  ASSUME IInv, UnitInv, NEW k \in Keys, NEW to \in {"rejected", "refunded"},
         order[k].status \in {"pending", "approved"},
         order' = [order EXCEPT ![k].status = to],
         stock' = [stock EXCEPT ![order[k].product] = @ + 1],
         UNCHANGED overridden
  PROVE  UnitInv'
<1>0. /\ order \in [Keys -> OrderType \cup {NoOrder}] /\ stock \in [Products -> Nat] /\ Supply \in Nat
  BY NumbersAssumption DEF IInv, TypeOK
<1>p. PICK p \in Products : p = order[k].product
  BY <1>0, NoOrderFacts
<1>1. order'[k].status = to /\ \A j \in Keys : j # k => order'[j] = order[j]
  <2>1. order[k] \in OrderType
    BY <1>0, NoOrderFacts
  <2> QED BY <1>0, <2>1 DEF OrderType
<1>2. SUFFICES ASSUME overridden = {}, NEW q \in Products
               PROVE  IsFiniteSet(Out(q)') /\ stock'[q] + Cardinality(Out(q)') = Supply
  BY DEF UnitInv
<1>3. IsFiniteSet(Out(q)) /\ stock[q] + Cardinality(Out(q)) = Supply /\ Cardinality(Out(q)) \in Nat
  BY <1>2, FS_CardinalityType DEF UnitInv
<1>4. CASE q = p
  <2>1. Out(q)' = Out(q) \ {k} /\ k \in Out(q)
    BY <1>1, <1>4, <1>p DEF Out
  <2>2. IsFiniteSet(Out(q)') /\ Cardinality(Out(q)') = Cardinality(Out(q)) - 1
    BY <1>3, <2>1, FS_RemoveElement
  <2>3. stock'[q] = stock[q] + 1 /\ stock[q] \in Nat
    BY <1>0, <1>4, <1>p
  <2> QED BY <1>0, <1>3, <2>2, <2>3
<1>5. CASE q # p
  <2>1. Out(q)' = Out(q)
    BY <1>1, <1>5, <1>p DEF Out
  <2> QED BY <1>0, <1>3, <1>5, <1>p, <2>1
<1> QED BY <1>4, <1>5

LEMMA UnitSame ==
  ASSUME UnitInv, UNCHANGED <<order, stock, overridden>> PROVE UnitInv'
BY DEF UnitInv, Out

LEMMA UnitStep == IInv /\ UnitInv /\ [Next]_vars => UnitInv'
<1> SUFFICES ASSUME IInv, UnitInv, [Next]_vars PROVE UnitInv'
  OBVIOUS
<1>1. ASSUME NEW c \in Checkouts, Buy(c) PROVE UnitInv'
  <2>1. PICK u \in Users, k \in Keys, p \in Products :
          checkout[c] = [pc |-> "buy", user |-> u, key |-> k, product |-> p]
    BY <1>1 DEF IInv, TypeOK, Buy, CheckoutType, NoCheckout
  <2>2. CASE ~(order[k] = NoOrder /\ Affordable(checkout[c]))
    <3>1. NothingBought /\ UNCHANGED overridden
      BY <1>1, <2>1, <2>2 DEF Buy
    <3> QED BY <3>1, UnitSame DEF NothingBought
  <2>3. CASE order[k] = NoOrder /\ Affordable(checkout[c])
    <3>1. Purchase(checkout[c]) /\ UNCHANGED overridden
      BY <1>1, <2>1, <2>3 DEF Buy
    <3>2. PICK new : new = [status |-> IF p = "gift" THEN "pending" ELSE "approved",
                            user |-> u, product |-> p, total |-> Price]
      OBVIOUS
    <3>3. order' = [order EXCEPT ![k] = new] /\ stock' = [stock EXCEPT ![p] = @ - 1]
      BY <2>1, <3>1, <3>2 DEF Purchase
    <3>4. order[k].status \notin {"pending", "approved"}
      BY <2>3, NoOrderFacts
    <3>5. new.status \in {"pending", "approved"} /\ new.product = p
      BY <3>2
    <3> QED BY <3>1, <3>3, <3>4, <3>5, UnitTaken
  <2> QED BY <2>2, <2>3
<1>2. ASSUME NEW v \in Reviews, Approve(v) PROVE UnitInv'
  <2>1. PICK k \in Keys : k = review[v].key
    BY <1>2, ReviewFacts DEF IInv, TypeOK, Approve
  <2>2. CASE order[k].status = "pending"
    <3>1. order[k] \in OrderType /\ order \in [Keys -> OrderType \cup {NoOrder}]
      BY <2>2, NoOrderFacts DEF IInv, TypeOK
    <3>2. order' = [order EXCEPT ![k].status = "approved"] /\ UNCHANGED <<stock, overridden>>
      BY <1>2, <2>1, <2>2 DEF Approve
    <3>3. /\ order'[k].status = "approved" /\ order'[k].product = order[k].product
          /\ \A j \in Keys : j # k => order'[j] = order[j]
      BY <3>1, <3>2 DEF OrderType
    <3>4. \A p : Out(p)' = Out(p)
      BY <2>2, <3>3 DEF Out
    <3> QED BY <3>2, <3>4 DEF UnitInv
  <2>3. CASE order[k].status # "pending"
    <3>1. overridden' # {}
      BY <1>2, <2>1, <2>3 DEF Approve
    <3> QED BY <3>1 DEF UnitInv
  <2> QED BY <2>2, <2>3
<1>3. ASSUME NEW v \in Reviews, Reject(v) \/ FailDelivery(v) PROVE UnitInv'
  <2>1. PICK k \in Keys : k = review[v].key
    BY <1>3, ReviewFacts DEF IInv, TypeOK, Reject, FailDelivery
  <2>2. UNCHANGED overridden
    BY <1>3 DEF Reject, FailDelivery
  <2>3. CASE UNCHANGED <<order, stock>>
    BY <2>2, <2>3, UnitSame
  <2>4. CASE \E to \in {"rejected", "refunded"}, s \in Refunds :
               /\ order[k].status \in {"pending", "approved"}
               /\ order' = [order EXCEPT ![k].status = to]
               /\ GiveBack(k, s)
    <3>1. PICK to \in {"rejected", "refunded"}, s \in Refunds :
               /\ order[k].status \in {"pending", "approved"}
               /\ order' = [order EXCEPT ![k].status = to]
               /\ GiveBack(k, s)
      BY <2>4
    <3>2. stock' = [stock EXCEPT ![order[k].product] = @ + 1]
      BY <3>1 DEF GiveBack
    <3> QED BY <2>2, <3>1, <3>2, UnitReturned
  <2> QED BY <1>3, <2>1, <2>3, <2>4 DEF Reject, FailDelivery, Refunds
<1>4. CASE UNCHANGED <<order, stock, overridden>>
  BY <1>4, UnitSame
<1> QED BY <1>1, <1>2, <1>3, <1>4
        DEF Next, CheckoutStep, ReviewStep, Ask, CheckoutDies, Open, Release, ReviewDies,
            BoostEnds, vars

LEMMA UnitInit == Init => UnitInv
<1> SUFFICES ASSUME Init, NEW p \in Products
             PROVE  IsFiniteSet(Out(p)) /\ stock[p] + Cardinality(Out(p)) = Supply
  BY DEF UnitInv
<1>1. Out(p) = {} /\ stock[p] = Supply
  BY NoOrderFacts DEF Init, Out
<1> QED BY <1>1, FS_EmptySet, NumbersAssumption

-----------------------------------------------------------------------------
(* Sums over a finite set. The library's induction over finite sets takes an  *)
(* operator, which no prover here instantiates; a set of good subsets and the *)
(* well-foundedness of strict inclusion do the same.                          *)

Chosen(s) == CHOOSE x \in s : TRUE

\* h adds up every subset of T, its chosen element first.
AddsUp(h, T) ==
  h = [s \in SUBSET T |-> IF s = {} THEN 0 ELSE Chosen(s).amount + h[s \ {Chosen(s)}]]

Sum(T) == MapThenSumSet(LAMBDA e : e.amount, T)

LEMMA SumIs ==
  ASSUME NEW T
  PROVE  Sum(T) = (CHOOSE h : AddsUp(h, T))[T]
  BY DEF Sum, MapThenSumSet, MapThenFoldSet, AddsUp, Chosen

LEMMA ChosenIn ==
  ASSUME NEW s, s # {}
  PROVE  Chosen(s) \in s
  BY DEF Chosen

\* Induction over the subsets of a finite set: if a set is good whenever its
\* strict subsets are, the whole is.
LEMMA SubsetInduction ==
  ASSUME NEW S, IsFiniteSet(S), NEW Good,
         \A T \in SUBSET S : (\A U \in SUBSET T : U # T => U \in Good) => T \in Good
  PROVE  \A T \in SUBSET S : T \in Good
<1> DEFINE Bad == (SUBSET S) \ Good
<1> SUFFICES ASSUME Bad # {}
             PROVE  FALSE
  OBVIOUS
<1>1. IsWellFoundedOn(StrictSubsetOrdering(S), SUBSET S)
  <2>1. FiniteSubsetsOf(S) = SUBSET S
    BY FS_FiniteSubsetsOfFinite
  <2>2. IsWellFoundedOn(StrictSubsetOrdering(S), FiniteSubsetsOf(S))
    BY FS_StrictSubsetOrderingWellFounded
  <2> QED
    BY <2>1, <2>2, Zenon
<1>2. \E T \in Bad : \A U \in Bad : <<U, T>> \notin StrictSubsetOrdering(S)
  <2>1. Bad \subseteq SUBSET S
    OBVIOUS
  <2> HIDE DEF Bad
  <2> QED
    BY <1>1, <2>1, WFMin
<1>3. PICK T \in Bad : \A U \in Bad : <<U, T>> \notin StrictSubsetOrdering(S)
  BY <1>2
<1>4. ASSUME NEW U \in SUBSET T, U # T
      PROVE  U \in Good
  <2>1. <<U, T>> \in StrictSubsetOrdering(S)
    BY <1>4 DEF StrictSubsetOrdering
  <2> QED
    BY <2>1, <1>3
<1> QED
  BY <1>3, <1>4

\* The recursion, as an equation for each subset.
LEMMA AddsUpValue ==
  ASSUME NEW T, NEW h, AddsUp(h, T)
  PROVE  \A s \in SUBSET T :
           h[s] = IF s = {} THEN 0 ELSE Chosen(s).amount + h[s \ {Chosen(s)}]
<1> DEFINE F == [r \in SUBSET T |-> IF r = {} THEN 0 ELSE Chosen(r).amount + h[r \ {Chosen(r)}]]
<1>1. h = F
  BY DEF AddsUp
<1>2. \A s \in SUBSET T : F[s] = IF s = {} THEN 0 ELSE Chosen(s).amount + h[s \ {Chosen(s)}]
  OBVIOUS
<1> HIDE DEF F
<1> QED
  BY <1>1, <1>2

\* Two functions that add up the same finite set are the same.
LEMMA AddsUpUnique ==
  ASSUME NEW S, IsFiniteSet(S), NEW g, NEW h, AddsUp(g, S), AddsUp(h, S)
  PROVE  g = h
<1> DEFINE Good == {T \in SUBSET S : g[T] = h[T]}
<1>0. \A T \in SUBSET S :
        /\ g[T] = IF T = {} THEN 0 ELSE Chosen(T).amount + g[T \ {Chosen(T)}]
        /\ h[T] = IF T = {} THEN 0 ELSE Chosen(T).amount + h[T \ {Chosen(T)}]
  <2>1. \A T \in SUBSET S : g[T] = IF T = {} THEN 0 ELSE Chosen(T).amount + g[T \ {Chosen(T)}]
    BY AddsUpValue, Zenon
  <2>2. \A T \in SUBSET S : h[T] = IF T = {} THEN 0 ELSE Chosen(T).amount + h[T \ {Chosen(T)}]
    BY AddsUpValue, Zenon
  <2> QED
    BY <2>1, <2>2
<1>1. ASSUME NEW T \in SUBSET S, \A U \in SUBSET T : U # T => U \in Good
      PROVE  T \in Good
  <2>1. CASE T = {}
    BY <2>1, <1>0
  <2>2. CASE T # {}
    <3>1. T \ {Chosen(T)} \in SUBSET T /\ T \ {Chosen(T)} # T
      BY <2>2, ChosenIn
    <3>2. g[T \ {Chosen(T)}] = h[T \ {Chosen(T)}]
      BY <3>1, <1>1
    <3>3. g[T] = Chosen(T).amount + g[T \ {Chosen(T)}]
      BY <2>2, <1>0
    <3>4. h[T] = Chosen(T).amount + h[T \ {Chosen(T)}]
      BY <2>2, <1>0
    <3> QED
      BY <3>2, <3>3, <3>4
  <2> QED
    BY <2>1, <2>2
<1>2. \A T \in SUBSET S : T \in Good
  <2> HIDE DEF Good
  <2> QED
    BY <1>1, SubsetInduction
<1>3. \A T \in SUBSET S : g[T] = h[T]
  BY <1>2
<1>4. /\ g = [s \in SUBSET S |-> g[s]]
      /\ h = [s \in SUBSET S |-> h[s]]
  BY DEF AddsUp
<1> QED
  BY <1>3, <1>4

\* What adds up a set adds up its subsets.
LEMMA AddsUpRestricted ==
  ASSUME NEW T, NEW h, AddsUp(h, T), NEW U \in SUBSET T
  PROVE  AddsUp([s \in SUBSET U |-> h[s]], U)
<1> DEFINE r == [s \in SUBSET U |-> h[s]]
<1>0. \A s \in SUBSET T : h[s] = IF s = {} THEN 0 ELSE Chosen(s).amount + h[s \ {Chosen(s)}]
  <2> HIDE DEF r
  <2> QED
    BY AddsUpValue
<1>1. ASSUME NEW s \in SUBSET U
      PROVE  r[s] = IF s = {} THEN 0 ELSE Chosen(s).amount + r[s \ {Chosen(s)}]
  <2>1. s \in SUBSET T /\ s \ {Chosen(s)} \in SUBSET U
    OBVIOUS
  <2>2. r[s] = h[s] /\ r[s \ {Chosen(s)}] = h[s \ {Chosen(s)}]
    BY <2>1
  <2>3. h[s] = IF s = {} THEN 0 ELSE Chosen(s).amount + h[s \ {Chosen(s)}]
    BY <2>1, <1>0
  <2> QED
    BY <2>2, <2>3, Zenon
<1>2. r = [s \in SUBSET U |-> r[s]]
  OBVIOUS
<1> HIDE DEF r
<1>3. r = [s \in SUBSET U |-> IF s = {} THEN 0 ELSE Chosen(s).amount + r[s \ {Chosen(s)}]]
  BY <1>1, <1>2
<1>4. AddsUp(r, U)
  BY <1>3 DEF AddsUp
<1> QED
  BY <1>4 DEF r

Addable(T) == \E h : AddsUp(h, T)

\* The sum over a set is its chosen element's amount and the sum of the rest.
LEMMA SumUnfolds ==
  ASSUME NEW T, IsFiniteSet(T), Addable(T)
  PROVE  Sum(T) = IF T = {} THEN 0 ELSE Chosen(T).amount + Sum(T \ {Chosen(T)})
<1> DEFINE h == CHOOSE g : AddsUp(g, T)
           U == T \ {Chosen(T)}
           r == [s \in SUBSET U |-> h[s]]
<1>1. AddsUp(h, T) /\ Sum(T) = h[T]
  BY SumIs DEF Addable
<1> HIDE DEF h
<1>2. T \in SUBSET T /\ U \in SUBSET T /\ U \in SUBSET U
  OBVIOUS
<1>3. h[T] = IF T = {} THEN 0 ELSE Chosen(T).amount + h[U]
  BY <1>1, <1>2, AddsUpValue
<1>4. AddsUp(r, U)
  BY <1>1, <1>2, AddsUpRestricted
<1>5. IsFiniteSet(U)
  BY FS_Subset
<1>6. r[U] = h[U]
  BY <1>2
<1> HIDE DEF r, U
<1>7. AddsUp(CHOOSE g : AddsUp(g, U), U)
  BY <1>4
<1>8. (CHOOSE g : AddsUp(g, U)) = r
  BY <1>4, <1>5, <1>7, AddsUpUnique
<1>9. Sum(U) = h[U]
  BY <1>6, <1>8, SumIs
<1> QED
  BY <1>1, <1>3, <1>9 DEF U

\* Every finite set can be added up.
LEMMA FiniteAddable ==
  ASSUME NEW S, IsFiniteSet(S)
  PROVE  \A T \in SUBSET S : Addable(T)
<1> DEFINE Good == {T \in SUBSET S : Addable(T)}
<1>1. ASSUME NEW T \in SUBSET S, \A U \in SUBSET T : U # T => U \in Good
      PROVE  T \in Good
  <2> DEFINE h == [s \in SUBSET T |->
                     IF s = {} THEN 0 ELSE Chosen(s).amount + Sum(s \ {Chosen(s)})]
  <2>1. ASSUME NEW s \in SUBSET T
        PROVE  h[s] = IF s = {} THEN 0 ELSE Chosen(s).amount + h[s \ {Chosen(s)}]
    <3>1. CASE s = {}
      BY <3>1
    <3>2. CASE s # {}
      <4> DEFINE U == s \ {Chosen(s)}
      <4>1. U \in SUBSET T /\ U # T
        BY <3>2, ChosenIn
      <4>2. Addable(U)
        BY <4>1, <1>1
      <4>3. IsFiniteSet(U)
        BY FS_Subset
      <4>4. Sum(U) = IF U = {} THEN 0 ELSE Chosen(U).amount + Sum(U \ {Chosen(U)})
        BY <4>2, <4>3, SumUnfolds
      <4>5. h[U] = IF U = {} THEN 0 ELSE Chosen(U).amount + Sum(U \ {Chosen(U)})
        BY <4>1
      <4>6. h[s] = Chosen(s).amount + Sum(U)
        BY <3>2
      <4> QED
        BY <3>2, <4>4, <4>5, <4>6
    <3> QED
      BY <3>1, <3>2
  <2>2. h = [s \in SUBSET T |-> h[s]]
    OBVIOUS
  <2> HIDE DEF h
  <2>3. h = [s \in SUBSET T |-> IF s = {} THEN 0 ELSE Chosen(s).amount + h[s \ {Chosen(s)}]]
    BY <2>1, <2>2
  <2>4. AddsUp(h, T)
    BY <2>3 DEF AddsUp
  <2> QED
    BY <2>4 DEF Addable
<1>2. \A T \in SUBSET S : T \in Good
  <2> HIDE DEF Good
  <2> QED
    BY <1>1, SubsetInduction
<1> QED
  BY <1>2

LEMMA SumChosen ==
  ASSUME NEW T, IsFiniteSet(T)
  PROVE  Sum(T) = IF T = {} THEN 0 ELSE Chosen(T).amount + Sum(T \ {Chosen(T)})
  BY FiniteAddable, SumUnfolds

\* A sum of integers is an integer.
LEMMA SumInt ==
  ASSUME NEW S, IsFiniteSet(S), \A e \in S : e.amount \in Int
  PROVE  \A T \in SUBSET S : Sum(T) \in Int
<1> DEFINE Good == {T \in SUBSET S : Sum(T) \in Int}
<1>1. ASSUME NEW T \in SUBSET S, \A U \in SUBSET T : U # T => U \in Good
      PROVE  T \in Good
  <2>1. IsFiniteSet(T)
    BY FS_Subset
  <2>2. CASE T = {}
    <3>1. Sum(T) = 0
      BY <2>1, <2>2, SumChosen, Zenon
    <3> QED
      BY <3>1
  <2>3. CASE T # {}
    <3>1. Chosen(T) \in T
      BY <2>3, ChosenIn
    <3>2. Sum(T \ {Chosen(T)}) \in Int
      BY <3>1, <1>1
    <3>3. Chosen(T).amount \in Int
      BY <3>1
    <3>4. Sum(T) = Chosen(T).amount + Sum(T \ {Chosen(T)})
      BY <2>1, <2>3, SumChosen
    <3> QED
      BY <3>2, <3>3, <3>4
  <2> QED
    BY <2>2, <2>3
<1>2. \A T \in SUBSET S : T \in Good
  <2> HIDE DEF Good
  <2> QED
    BY <1>1, SubsetInduction
<1> QED
  BY <1>2

\* Any element may be taken out first, not only the chosen one.
LEMMA SumAny ==
  ASSUME NEW S, IsFiniteSet(S), \A e \in S : e.amount \in Int
  PROVE  \A T \in SUBSET S : \A x \in T : Sum(T) = x.amount + Sum(T \ {x})
<1> DEFINE Good == {T \in SUBSET S : \A x \in T : Sum(T) = x.amount + Sum(T \ {x})}
<1>1. ASSUME NEW T \in SUBSET S, \A U \in SUBSET T : U # T => U \in Good
      PROVE  T \in Good
  <2> SUFFICES ASSUME NEW x \in T
               PROVE  Sum(T) = x.amount + Sum(T \ {x})
    OBVIOUS
  <2> DEFINE c == Chosen(T)
  <2>1. c \in T /\ IsFiniteSet(T)
    BY ChosenIn, FS_Subset
  <2>2. Sum(T) = c.amount + Sum(T \ {c})
    BY <2>1, SumChosen
  <2> HIDE DEF c
  <2>3. CASE x = c
    BY <2>2, <2>3
  <2>4. CASE x # c
    <3> DEFINE U == T \ {c}
               V == T \ {x}
               W == (T \ {c}) \ {x}
    <3>1. Sum(U) = x.amount + Sum(W)
      <4>1. U \in SUBSET T /\ U # T /\ x \in U
        BY <2>1, <2>4
      <4> QED
        BY <4>1, <1>1
    <3>2. Sum(V) = c.amount + Sum(W)
      <4>1. V \in SUBSET T /\ V # T /\ c \in V /\ V \ {c} = W
        BY <2>1, <2>4
      <4> QED
        BY <4>1, <1>1
    <3>3. Sum(W) \in Int
      BY SumInt
    <3>4. x.amount \in Int /\ c.amount \in Int
      BY <2>1
    <3> HIDE DEF U, V, W
    <3>5. Sum(T) = x.amount + Sum(V)
      BY <2>2, <3>1, <3>2, <3>3, <3>4 DEF U
    <3> QED
      BY <3>5 DEF V
  <2> QED
    BY <2>3, <2>4
<1>2. \A T \in SUBSET S : T \in Good
  <2> HIDE DEF Good
  <2> QED
    BY <1>1, SubsetInduction
<1> QED
  BY <1>2

\* An entry more adds its amount.
LEMMA SumOneMore ==
  ASSUME NEW T, IsFiniteSet(T), NEW x, x \notin T,
         x.amount \in Int, \A e \in T : e.amount \in Int
  PROVE  Sum(T \cup {x}) = Sum(T) + x.amount /\ Sum(T) \in Int
<1> DEFINE S == T \cup {x}
<1>1. IsFiniteSet(S) /\ (\A e \in S : e.amount \in Int)
  BY FS_AddElement
<1>2. S \in SUBSET S /\ T \in SUBSET S /\ x \in S /\ S \ {x} = T
  OBVIOUS
<1> HIDE DEF S
<1>3. Sum(S) = x.amount + Sum(T) /\ Sum(T) \in Int
  BY <1>1, <1>2, SumAny, SumInt
<1> QED
  BY <1>3 DEF S

-----------------------------------------------------------------------------
(* The balances.                                                             *)

\* BalanceIsLedger, its sums named.
Balances == \A u \in Users : balance[u] = Opening + Sum({e \in ledger : e.user = u})

LEMMA BalancesAreSums == BalanceIsLedger <=> Balances
  BY DEF BalanceIsLedger, Balances, Sum

LedgerInv == IsFiniteSet(ledger) /\ Balances

\* One new entry of a learner, and their balance moved by its amount.
Recorded(e) ==
  /\ e \notin ledger /\ ledger' = ledger \cup {e}
  /\ balance' = [balance EXCEPT ![e.user] = @ + e.amount]

LEMMA RecordedInv ==
  ASSUME TypeOK, LedgerInv, NEW e \in EntryType, Recorded(e)
  PROVE  LedgerInv'
<1> DEFINE Of(u) == {f \in ledger : f.user = u}
<1>1. e.user \in Users /\ e.amount \in Int /\ \A f \in ledger : f.amount \in Int
  BY DEF TypeOK, EntryType
<1>2. IsFiniteSet(ledger')
  BY FS_AddElement DEF LedgerInv, Recorded
<1>3. ASSUME NEW u \in Users
      PROVE  balance'[u] = Opening + Sum(Of(u)')
  <2>1. IsFiniteSet(Of(u))
    BY FS_Subset DEF LedgerInv
  <2>2. balance[u] = Opening + Sum(Of(u))
    BY DEF LedgerInv, Balances
  <2>3. CASE u = e.user
    <3>1. Of(u)' = Of(u) \cup {e} /\ e \notin Of(u)
      BY <2>3 DEF Recorded
    <3>2. \A f \in Of(u) : f.amount \in Int
      BY <1>1
    <3>3. balance'[u] = balance[u] + e.amount
      BY <2>3 DEF Recorded, TypeOK
    <3> HIDE DEF Of
    <3>4. Sum(Of(u) \cup {e}) = Sum(Of(u)) + e.amount /\ Sum(Of(u)) \in Int
      BY <1>1, <2>1, <3>1, <3>2, SumOneMore
    <3> QED
      BY <1>1, <2>2, <3>1, <3>3, <3>4, NumbersAssumption
  <2>4. CASE u # e.user
    <3>1. Of(u)' = Of(u) /\ balance'[u] = balance[u]
      BY <2>4 DEF Recorded, TypeOK
    <3> HIDE DEF Of
    <3> QED
      BY <2>2, <3>1
  <2> QED
    BY <2>3, <2>4
<1>4. Balances'
  BY <1>3 DEF Balances
<1> QED
  BY <1>2, <1>4 DEF LedgerInv

LEMMA DeductRecords ==
  ASSUME TypeOK, NEW u \in Users, NEW k \in Keys, NEW n \in Nat, Deduct(u, k, n)
  PROVE  UNCHANGED <<balance, ledger>> \/ \E e \in EntryType : Recorded(e)
<1> DEFINE e == [user |-> u, source |-> "PURCHASE", key |-> k, amount |-> -n]
<1>1. e \in EntryType /\ e.user = u /\ e.source = "PURCHASE" /\ e.key = k /\ e.amount = -n
  BY EntryFields
<1>2. CASE Entry(u, "PURCHASE", k) # {}
  BY <1>2 DEF Deduct
<1>3. CASE Entry(u, "PURCHASE", k) = {}
  <2>1. ledger' = ledger \cup {e} /\ balance' = [balance EXCEPT ![u] = @ - n]
    BY <1>3 DEF Deduct
  <2> HIDE DEF e
  <2>2. e \notin ledger
    BY <1>1, <1>3 DEF Entry
  <2>3. balance' = [balance EXCEPT ![e.user] = @ + e.amount]
    BY <1>1, <2>1 DEF TypeOK
  <2> QED
    BY <1>1, <2>1, <2>2, <2>3 DEF Recorded
<1> QED
  BY <1>2, <1>3

LEMMA AwardRecords ==
  ASSUME TypeOK, NEW u \in Users, NEW s \in Refunds, NEW k \in Keys, NEW n \in Nat,
         Award(u, s, k, n)
  PROVE  UNCHANGED <<balance, ledger>> \/ \E e \in EntryType : Recorded(e)
<1> DEFINE g == IF boost[u] THEN 2 * n ELSE n
           e == [user |-> u, source |-> s, key |-> k, amount |-> g]
<1>0. g \in Int
  OBVIOUS
<1>1. e \in EntryType /\ e.user = u /\ e.source = s /\ e.key = k /\ e.amount = g
  BY <1>0, EntryFields
<1>2. CASE Entry(u, s, k) # {}
  BY <1>2 DEF Award
<1>3. CASE Entry(u, s, k) = {}
  <2>1. ledger' = ledger \cup {e} /\ balance' = [balance EXCEPT ![u] = @ + g]
    BY <1>3 DEF Award
  <2> HIDE DEF e, g
  <2>2. e \notin ledger
    BY <1>1, <1>3 DEF Entry
  <2> QED
    BY <1>1, <2>1, <2>2 DEF Recorded
<1> QED
  BY <1>2, <1>3

\* Whatever the step, the ledger and the balances stay, or one entry is recorded.
LEMMA StepRecords ==
  ASSUME IInv, [Next]_vars
  PROVE  UNCHANGED <<balance, ledger>> \/ \E e \in EntryType : Recorded(e)
<1> DEFINE Goal == UNCHANGED <<balance, ledger>> \/ \E e \in EntryType : Recorded(e)
<1>0. TypeOK
  BY DEF IInv
<1>1. ASSUME NEW c \in Checkouts, Buy(c) PROVE Goal
  <2>1. PICK u \in Users, k \in Keys, p \in Products :
          checkout[c] = [pc |-> "buy", user |-> u, key |-> k, product |-> p]
    BY <1>0, <1>1 DEF TypeOK, Buy, CheckoutType, NoCheckout
  <2>2. UNCHANGED <<balance, ledger>> \/ Deduct(u, k, Price)
    BY <1>1, <2>1 DEF Buy, Purchase, NothingBought
  <2> QED
    BY <1>0, <2>2, DeductRecords, NumbersAssumption
<1>2. ASSUME NEW v \in Reviews, Reject(v) \/ FailDelivery(v) PROVE Goal
  <2> DEFINE k == review[v].key
  <2>1. k \in Keys /\ review[v] # NoReview
    BY <1>0, <1>2, ReviewFacts DEF TypeOK, Reject, FailDelivery
  <2>2. order[k].user \in Users /\ order[k].total \in Nat
    BY <1>0, <2>1, NoOrderFacts DEF TypeOK, IInv, ReviewInv
  <2>3. \/ UNCHANGED <<balance, ledger>>
        \/ \E s \in Refunds : Award(order[k].user, s, k, order[k].total)
    BY <1>2 DEF Reject, FailDelivery, GiveBack, Refunds
  <2> HIDE DEF k
  <2> QED
    BY <1>0, <2>1, <2>2, <2>3, AwardRecords
<1>3. ASSUME NEW v \in Reviews, Approve(v) \/ Release(v) \/ ReviewDies(v)
      PROVE  UNCHANGED <<balance, ledger>>
  BY <1>3 DEF Approve, Release, ReviewDies
<1>4. ASSUME NEW c \in Checkouts, CheckoutDies(c)
      PROVE  UNCHANGED <<balance, ledger>>
  BY <1>4 DEF CheckoutDies
<1>5. ASSUME NEW c \in Checkouts, NEW u \in Users, NEW k \in Keys, NEW p \in Products,
             Ask(c, u, k, p)
      PROVE  UNCHANGED <<balance, ledger>>
  BY <1>5 DEF Ask
<1>6. ASSUME NEW v \in Reviews, NEW k \in Keys, NEW pc \in {"approve", "reject", "fail"},
             Open(v, k, pc)
      PROVE  UNCHANGED <<balance, ledger>>
  BY <1>6 DEF Open
<1>7. ASSUME NEW u \in Users, BoostEnds(u)
      PROVE  UNCHANGED <<balance, ledger>>
  BY <1>7 DEF BoostEnds
<1>8. ASSUME UNCHANGED vars
      PROVE  UNCHANGED <<balance, ledger>>
  BY <1>8 DEF vars
<1> QED
  BY <1>1, <1>2, <1>3, <1>4, <1>5, <1>6, <1>7, <1>8 DEF Next, CheckoutStep, ReviewStep

LEMMA LedgerInit == Init => LedgerInv
<1> SUFFICES ASSUME Init PROVE LedgerInv
  OBVIOUS
<1>1. IsFiniteSet({}) /\ Sum({}) = 0
  BY FS_EmptySet, SumChosen
<1>2. ASSUME NEW u \in Users
      PROVE  balance[u] = Opening + Sum({e \in ledger : e.user = u})
  <2>1. {e \in ledger : e.user = u} = {} /\ balance[u] = Opening
    BY DEF Init
  <2> QED
    BY <1>1, <2>1, NumbersAssumption
<1>3. Balances
  BY <1>2 DEF Balances
<1> QED
  BY <1>1, <1>3 DEF Init, LedgerInv

LEMMA LedgerStep == IInv /\ LedgerInv /\ [Next]_vars => LedgerInv'
<1> SUFFICES ASSUME IInv, LedgerInv, [Next]_vars PROVE LedgerInv'
  OBVIOUS
<1>1. CASE UNCHANGED <<balance, ledger>>
  BY <1>1 DEF LedgerInv, Balances
<1>2. CASE \E e \in EntryType : Recorded(e)
  BY <1>2, RecordedInv DEF IInv
<1> QED
  BY <1>1, <1>2, StepRecords

-----------------------------------------------------------------------------
(* The theorems.                                                             *)

\* Every reachable state is well typed: whatever races for the last unit or the
\* last Bread, neither stock nor balance goes below zero (the compare-and-sets of
\* createOrder and deductBanh).
THEOREM TypeCorrect == Spec => []TypeOK
<1>1. IInv => TypeOK
  BY DEF IInv
<1> QED BY <1>1, Invariant, PTL

\* An order is charged exactly once, to its owner, however often its checkout is
\* sent and wherever it is cut off (createOrder's idempotencyKey).
THEOREM OrdersChargedOnce == Spec => []ChargedOnce
<1>1. IInv => ChargedOnce
  BY DEF IInv
<1> QED BY <1>1, Invariant, PTL

\* A gift's redemption is cancelled exactly if its Bread went back, whatever the
\* reviews race (reviewOrder, markFulfillmentFailed).
THEOREM NeverBoth == Spec => []BreadOrGift
<1>1. IInv => BreadOrGift
  BY NoOrderFacts DEF IInv, GiftInv, BreadOrGift
<1> QED BY <1>1, Invariant, PTL

\* Unless an approval overrode a decision, an order is refunded once if it is
\* rejected or refunded, and not otherwise (reviewOrder, markFulfillmentFailed).
THEOREM StatusTruthful == Spec => []StatusTellsRefund
<1>1. IInv => StatusTellsRefund
  BY FS_EmptySet, FS_Singleton DEF IInv, StatusInv, StatusTellsRefund
<1> QED BY <1>1, Invariant, PTL

\* Unless an approval overrode a decision, stock and the orders not given back add up
\* to the supply, for any number of racing checkouts and reviews (createOrder,
\* reviewOrder, markFulfillmentFailed).
THEOREM NoUnitLost == Spec => []UnitsConserved
<1>1. UnitInv => UnitsConserved
  BY DEF UnitInv, Out, UnitsConserved
<1> QED BY <1>1, Invariant, UnitInit, UnitStep, PTL DEF Spec

\* The stored balance of every learner is what they began with and the sum of
\* their ledger (deductBanh, awardBanh), which is what getReconciliationReport
\* compares, after any number of checkouts, retries, refunds and boosts.
THEOREM BalanceReconciles == Spec => []BalanceIsLedger
<1>1. LedgerInv => BalanceIsLedger
  BY BalancesAreSums DEF LedgerInv
<1> QED
  BY <1>1, LedgerInit, LedgerStep, Invariant, PTL DEF Spec

=============================================================================
