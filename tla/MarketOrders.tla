----------------------------- MODULE MarketOrders -----------------------------
(* The Bread market: learners' checkouts, which may be sent twice, the stock   *)
(* they take, the Bread they are charged, and the admins who approve or reject *)
(* an order or declare its delivery failed, several at a time.                 *)
(*                                                                             *)
(* A request reads outside its transaction and decides on what it read; a      *)
(* transaction is one action, as its row locks and compare-and-sets make it.   *)
(* Either may be cut off between two statements, as when its server restarts.  *)
EXTENDS Integers, FiniteSets, FiniteSetsExt

CONSTANTS
  Users,      \* learners
  Keys,       \* checkout keys; the order a key creates goes by the same name
  Checkouts,  \* createOrder requests that can be under way at once
  Reviews,    \* review and fulfillment requests that can be under way at once
  Products,   \* what is on sale, some of Catalog
  Price,      \* of a product, in Bread
  Opening,    \* Bread of a learner at the start
  Supply,     \* units of a product at the start
  NoUser, NoKey

\* A gift is PHYSICAL and needs approval; a card, the 24 h boost, is DIGITAL.
Catalog == {"gift", "card"}

ASSUME NumbersAssumption  == Price \in Nat \ {0} /\ Opening \in Nat /\ Supply \in Nat
ASSUME ProductsAssumption == Products \subseteq Catalog
ASSUME NullAssumption     == NoUser \notin Users /\ NoKey \notin Keys

VARIABLES
  order,       \* the MarketOrder of each key
  redemption,  \* the status of its MarketPhysicalRedemption
  stock,       \* MarketProduct.stock
  balance,     \* UserStats.totalBanhRan
  boost,       \* is doubleBanhUntil in the future?
  ledger,      \* the BanhTransaction rows
  checkout,    \* where each createOrder stands
  review,      \* where each review or fulfillment request stands
  overridden   \* history: orders approved when no longer pending

vars == <<order, redemption, stock, balance, boost, ledger, checkout, review, overridden>>

-----------------------------------------------------------------------------
(* Data.                                                                     *)

NoOrder == [status |-> "none", user |-> NoUser, product |-> "gift", total |-> 0]
OrderType ==
  [status : {"pending", "approved", "rejected", "refunded"}, user : Users,
   product : Products, total : Nat]

\* REJECTED and FULFILLMENT_FAILED are the two references of a MARKET_REFUND.
Refunds   == {"REJECTED", "FULFILLMENT_FAILED"}
EntryType == [user : Users, source : Refunds \cup {"PURCHASE"}, key : Keys, amount : Int]

NoCheckout   == [pc |-> "idle", user |-> NoUser, key |-> NoKey, product |-> "gift"]
CheckoutType == [pc : {"buy"}, user : Users, key : Keys, product : Products]

NoReview   == [pc |-> "idle", key |-> NoKey]
ReviewType == [pc : {"approve", "release", "reject", "fail"}, key : Keys]

Init ==
  /\ order = [k \in Keys |-> NoOrder]
  /\ redemption = [k \in Keys |-> "none"]
  /\ stock = [p \in Products |-> Supply]
  /\ balance = [u \in Users |-> Opening]
  /\ boost = [u \in Users |-> FALSE]
  /\ ledger = {}
  /\ checkout = [c \in Checkouts |-> NoCheckout]
  /\ review = [v \in Reviews |-> NoReview]
  /\ overridden = {}

-----------------------------------------------------------------------------
(* The Bread ledger.                                                         *)

Entry(u, source, k) == {e \in ledger : e.user = u /\ e.source = source /\ e.key = k}

\* deductBanh: the charge of an order, unless its reference was charged before.
Deduct(u, k, amount) ==
  IF Entry(u, "PURCHASE", k) # {} THEN UNCHANGED <<balance, ledger>>
  ELSE /\ balance' = [balance EXCEPT ![u] = @ - amount]
       /\ ledger'  = ledger \cup {[user |-> u, source |-> "PURCHASE", key |-> k,
                                   amount |-> -amount]}

\* MUTANT of Award: the ledger records what was asked, not what was granted.
AwardAsAsked(u, source, k, amount) ==
  IF Entry(u, source, k) # {} THEN UNCHANGED <<balance, ledger>>
  ELSE /\ balance' = [balance EXCEPT ![u] = @ + (IF boost[u] THEN 2 * amount ELSE amount)]
       /\ ledger'  = ledger \cup {[user |-> u, source |-> source, key |-> k,
                                   amount |-> amount]}

\* awardBanh, uncapped: doubled under a boost, and nothing if the reference was
\* paid before.
Award(u, source, k, amount) ==
  LET granted == IF boost[u] THEN 2 * amount ELSE amount IN
  IF Entry(u, source, k) # {} THEN UNCHANGED <<balance, ledger>>
  ELSE /\ balance' = [balance EXCEPT ![u] = @ + granted]
       /\ ledger'  = ledger \cup {[user |-> u, source |-> source, key |-> k,
                                   amount |-> granted]}

-----------------------------------------------------------------------------
(* createOrder.                                                              *)

\* No order has the key yet and the product is in stock; otherwise the request
\* is answered at once and changes nothing.
Ask(c, u, k, p) ==
  /\ checkout[c] = NoCheckout
  /\ order[k] = NoOrder /\ stock[p] >= 1
  /\ checkout' = [checkout EXCEPT ![c] = [pc |-> "buy", user |-> u, key |-> k, product |-> p]]
  /\ UNCHANGED <<order, redemption, stock, balance, boost, ledger, review, overridden>>

\* What the transaction writes for a checkout x.
Purchase(x) ==
  /\ stock' = [stock EXCEPT ![x.product] = @ - 1]
  /\ Deduct(x.user, x.key, Price)
  /\ boost' = [boost EXCEPT ![x.user] = @ \/ x.product = "card"]
  /\ order' = [order EXCEPT ![x.key] =
       [status |-> IF x.product = "gift" THEN "pending" ELSE "approved",
        user |-> x.user, product |-> x.product, total |-> Price]]
  /\ redemption' = [redemption EXCEPT ![x.key] = IF x.product = "gift" THEN "PENDING" ELSE "none"]

NothingBought == UNCHANGED <<order, redemption, stock, balance, boost, ledger>>

Affordable(x) == stock[x.product] >= 1 /\ balance[x.user] >= Price

\* MUTANT of Buy: the key was free when the request looked.
BuyAgain(c) ==
  /\ checkout[c].pc = "buy"
  /\ IF Affordable(checkout[c]) THEN Purchase(checkout[c]) ELSE NothingBought
  /\ checkout' = [checkout EXCEPT ![c] = NoCheckout]
  /\ UNCHANGED <<review, overridden>>

\* The transaction, under the advisory lock of the key: the key is looked up
\* again, stock and balance are compared and set.
Buy(c) ==
  /\ checkout[c].pc = "buy"
  /\ LET x == checkout[c] IN
       IF order[x.key] = NoOrder /\ Affordable(x) THEN Purchase(x) ELSE NothingBought
  /\ checkout' = [checkout EXCEPT ![c] = NoCheckout]
  /\ UNCHANGED <<review, overridden>>

CheckoutDies(c) ==
  /\ checkout[c] # NoCheckout
  /\ checkout' = [checkout EXCEPT ![c] = NoCheckout]
  /\ UNCHANGED <<order, redemption, stock, balance, boost, ledger, review, overridden>>

BoostEnds(u) ==
  /\ boost[u]
  /\ boost' = [boost EXCEPT ![u] = FALSE]
  /\ UNCHANGED <<order, redemption, stock, balance, ledger, checkout, review, overridden>>

-----------------------------------------------------------------------------
(* reviewOrder and markFulfillmentFailed.                                    *)

\* The request reads the order and checks its status.
Open(v, k, pc) ==
  /\ review[v] = NoReview
  /\ order[k].status = IF pc = "fail" THEN "approved" ELSE "pending"
  /\ review' = [review EXCEPT ![v] = [pc |-> pc, key |-> k]]
  /\ UNCHANGED <<order, redemption, stock, balance, boost, ledger, checkout, overridden>>

\* Bread, stock and redemption of an order given back.
GiveBack(k, source) ==
  /\ Award(order[k].user, source, k, order[k].total)
  /\ stock' = [stock EXCEPT ![order[k].product] = @ + 1]
  /\ redemption' = [redemption EXCEPT ![k] = IF @ = "none" THEN @ ELSE "CANCELLED"]

\* MUTANT of Reject: the update matches the id only.
RejectUnclaimed(v) ==
  /\ review[v].pc = "reject"
  /\ LET k == review[v].key IN
       /\ order' = [order EXCEPT ![k].status = "rejected"]
       /\ GiveBack(k, "REJECTED")
  /\ review' = [review EXCEPT ![v] = NoReview]
  /\ UNCHANGED <<boost, checkout, overridden>>

\* The transaction claims pending -> rejected, or throws.
Reject(v) ==
  /\ review[v].pc = "reject"
  /\ LET k == review[v].key IN
       IF order[k].status = "pending"
       THEN order' = [order EXCEPT ![k].status = "rejected"] /\ GiveBack(k, "REJECTED")
       ELSE UNCHANGED <<order, redemption, stock, balance, ledger>>
  /\ review' = [review EXCEPT ![v] = NoReview]
  /\ UNCHANGED <<boost, checkout, overridden>>

\* The update matches the id only.
Approve(v) ==
  /\ review[v].pc = "approve"
  /\ LET k == review[v].key IN
       /\ order' = [order EXCEPT ![k].status = "approved"]
       /\ overridden' = IF order[k].status = "pending" THEN overridden ELSE overridden \cup {k}
  /\ review' = [review EXCEPT ![v].pc = "release"]
  /\ UNCHANGED <<redemption, stock, balance, boost, ledger, checkout>>

\* MUTANT of Release: whatever the redemption's status.
ReleaseAny(v) ==
  /\ review[v].pc = "release"
  /\ redemption' = [redemption EXCEPT ![review[v].key] = IF @ = "none" THEN @ ELSE "PROCESSING"]
  /\ review' = [review EXCEPT ![v] = NoReview]
  /\ UNCHANGED <<order, stock, balance, boost, ledger, checkout, overridden>>

\* The gift of an approved order goes into PROCESSING, if it is still PENDING.
Release(v) ==
  /\ review[v].pc = "release"
  /\ redemption' = [redemption EXCEPT ![review[v].key] = IF @ = "PENDING" THEN "PROCESSING" ELSE @]
  /\ review' = [review EXCEPT ![v] = NoReview]
  /\ UNCHANGED <<order, stock, balance, boost, ledger, checkout, overridden>>

\* The transaction claims approved -> refunded, or throws.
FailDelivery(v) ==
  /\ review[v].pc = "fail"
  /\ LET k == review[v].key IN
       IF order[k].status = "approved"
       THEN order' = [order EXCEPT ![k].status = "refunded"] /\ GiveBack(k, "FULFILLMENT_FAILED")
       ELSE UNCHANGED <<order, redemption, stock, balance, ledger>>
  /\ review' = [review EXCEPT ![v] = NoReview]
  /\ UNCHANGED <<boost, checkout, overridden>>

ReviewDies(v) ==
  /\ review[v] # NoReview
  /\ review' = [review EXCEPT ![v] = NoReview]
  /\ UNCHANGED <<order, redemption, stock, balance, boost, ledger, checkout, overridden>>

-----------------------------------------------------------------------------
(* The next-state relation.                                                  *)

CheckoutStep(c) ==
  \/ \E u \in Users, k \in Keys, p \in Products : Ask(c, u, k, p)
  \/ Buy(c) \/ CheckoutDies(c)

ReviewStep(v) ==
  \/ \E k \in Keys, pc \in {"approve", "reject", "fail"} : Open(v, k, pc)
  \/ Approve(v) \/ Release(v) \/ Reject(v) \/ FailDelivery(v) \/ ReviewDies(v)

Next ==
  \/ \E c \in Checkouts : CheckoutStep(c)
  \/ \E v \in Reviews : ReviewStep(v)
  \/ \E u \in Users : BoostEnds(u)

Spec == Init /\ [][Next]_vars

-----------------------------------------------------------------------------
(* Properties.                                                               *)

\* Types: the Prisma models, with stock and balance never below zero however
\* many checkouts race for the last unit or the last Bread.
TypeOK ==
  /\ order \in [Keys -> OrderType \cup {NoOrder}]
  /\ redemption \in [Keys -> {"none", "PENDING", "PROCESSING", "CANCELLED"}]
  /\ stock \in [Products -> Nat] /\ balance \in [Users -> Nat]
  /\ boost \in [Users -> BOOLEAN]
  /\ ledger \in SUBSET EntryType
  /\ checkout \in [Checkouts -> CheckoutType \cup {NoCheckout}]
  /\ review \in [Reviews -> ReviewType \cup {NoReview}]
  /\ overridden \in SUBSET Keys

Paid(k)     == {e \in ledger : e.key = k /\ e.source = "PURCHASE"}
Refunded(k) == {e \in ledger : e.key = k /\ e.source \in Refunds}

\* The stored balance is the opening balance plus the learner's ledger, whatever
\* retries and races the ledger's references deduplicate (getReconciliationReport).
BalanceIsLedger ==
  \A u \in Users :
    balance[u] = Opening + MapThenSumSet(LAMBDA e : e.amount, {e \in ledger : e.user = u})

\* An order exists exactly if it was charged, once, to the learner it belongs to,
\* however often its checkout was sent (idempotencyKey).
ChargedOnce ==
  \A k \in Keys :
    Paid(k) = IF order[k] = NoOrder THEN {}
              ELSE {[user |-> order[k].user, source |-> "PURCHASE", key |-> k,
                     amount |-> -order[k].total]}

\* Bread or gift, never both and never neither: a physical order is refunded
\* exactly if its redemption is cancelled, even when reviews race, and a
\* cancelled redemption is never released.
BreadOrGift ==
  \A k \in Keys : order[k].status # "none" /\ order[k].product = "gift" =>
    (Refunded(k) # {} <=> redemption[k] = "CANCELLED")

\* Unless an approval overrode a decision, an order's status tells whether it
\* was refunded, and it was refunded once.
StatusTellsRefund ==
  \A k \in Keys \ overridden :
    Cardinality(Refunded(k)) = IF order[k].status \in {"rejected", "refunded"} THEN 1 ELSE 0

\* Unless an approval overrode a decision, stock and the orders not given back
\* add up to the supply: no unit is sold twice, none is lost.
UnitsConserved ==
  overridden = {} =>
    \A p \in Products :
      stock[p] + Cardinality({k \in Keys : order[k].status \in {"pending", "approved"} /\
                                           order[k].product = p}) = Supply

\* No order is refunded twice ("the Bread refund is idempotent ... retrying this
\* action never double-refunds").
RefundedOnce == \A k \in Keys : Cardinality(Refunded(k)) <= 1

\* A refund is what the order cost ("Đã hoàn ${order.totalBanh} Bánh Mì").
RefundIsPrice == \A k \in Keys : \A e \in Refunded(k) : e.amount = order[k].total

=============================================================================
