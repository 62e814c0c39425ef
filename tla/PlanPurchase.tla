---------------------------- MODULE PlanPurchase ----------------------------
(* One learner's purchases of one plan version: checkouts, PayOS orders and    *)
(* their webhooks, polling and cancelling, the sweep of unpaid purchases,      *)
(* admins, and the bank transfers of purchases made before PayOS.              *)
(*                                                                             *)
(* The rows of a purchase and its payment change in transactions that hold     *)
(* their locks and the learner's: each is one action. What a request does      *)
(* before and after its transaction, and every call to PayOS, is a step of its *)
(* own, and any request may be cut off between two.                            *)
(*                                                                             *)
(* Whether the learner's other plans allow this one (decideRenewal), and       *)
(* whether a checkout asks for the promo code of the one before it, are left   *)
(* open: either answer, every time.                                            *)
EXTENDS Integers, FiniteSets

CONSTANTS
  MaxPurchases,  \* purchases made at most (bound)
  Requests,      \* learner requests that can be under way at once
  Transfers,     \* bank transfers that carry the transfer code of purchase 1
  MaxCalls,      \* requests the learner makes in all (bound)
  MaxFaults      \* requests cut off and answers lost at most (bound)

Purchases == 1 .. MaxPurchases

ASSUME BoundsAssumption == MaxPurchases \in Nat \ {0} /\ MaxCalls \in Nat /\ MaxFaults \in Nat

VARIABLES
  row,      \* PlanPurchase with its PlanPayment, in the order of their ids
  window,   \* is the payment window of each open, lapsed, or over for good?
  intent,   \* the PayOSPaymentIntent of each
  link,     \* the order of each as PayOS has it
  hook,     \* where the webhook of each paid order stands
  bank,     \* the BankTransaction of each transfer
  request,  \* where each learner request stands
  calls,    \* history: learner requests so far
  sweep,    \* where the sweep stands
  faults    \* history: cut-offs and repeats so far

vars == <<row, window, intent, link, hook, bank, request, calls, sweep, faults>>

-----------------------------------------------------------------------------
(* Data.                                                                     *)

\* legacy: made before PayOS, with a bank account and an auto-match window;
\* keyed: made by a checkout, whose idempotency key finds it again; by: the
\* confirmationSource; next: the purchase that superseded this one, or 0.
NoRow == [status |-> "none", payment |-> "none", keyed |-> FALSE, by |-> "none",
          next |-> 0, legacy |-> FALSE]
RowType ==
  [status  : {"none", "PENDING_PAYMENT", "COMPLETED", "REJECTED", "EXPIRED", "SUPERSEDED"},
   payment : {"none", "PENDING", "REPORTED", "CONFIRMED", "REJECTED", "REVIEW_REQUIRED",
              "EXPIRED", "SUPERSEDED"},
   keyed : BOOLEAN, by : {"none", "ADMIN", "AUTO_WEBHOOK"}, next : {0} \cup Purchases,
   legacy : BOOLEAN]

NewRow    == [NoRow EXCEPT !.status = "PENDING_PAYMENT", !.payment = "PENDING"]
KeyedRow  == [NewRow EXCEPT !.keyed = TRUE]
LegacyRow == [KeyedRow EXCEPT !.legacy = TRUE]

\* stale: ten minutes after a window of fifteen. A legacy purchase is past when
\* its day of automatic matching is over as well.
Windows == {"open", "lapsed", "stale", "past"}

\* EXPIRED and FAILED end an order as CANCELLED does: the code treats the three
\* alike, and CANCELLED stands for them.
OrderStates == {"PENDING", "PROCESSING", "PAID", "CANCELLED", "UNDERPAID"}

NoIntent   == [status |-> "none", linked |-> FALSE]   \* linked: it has a checkoutUrl
IntentType == [status : OrderStates, linked : BOOLEAN]

NoRequest   == [pc |-> "idle", p |-> 0, val |-> "none"]
RequestType ==
  [pc : {"intent", "link", "store", "write", "cancelled"}, p : Purchases,
   val : OrderStates \cup {"none"}]

NoSweep   == [pc |-> "idle", p |-> 0, val |-> "none"]
SweepType ==
  [pc : {"fetch", "write", "cancel", "cancelled", "expire", "hold"}, p : Purchases,
   val : OrderStates \cup {"none"}]

\* The learner starts with no purchase, or with one made before PayOS.
Init ==
  /\ row \in {[p \in Purchases |-> NoRow],
              [p \in Purchases |-> IF p = 1 THEN LegacyRow ELSE NoRow]}
  /\ window = [p \in Purchases |-> "open"]
  /\ intent = [p \in Purchases |-> NoIntent] /\ link = [p \in Purchases |-> "none"]
  /\ hook = [p \in Purchases |-> "none"]
  /\ bank = [t \in Transfers |-> "none"]
  /\ request = [r \in Requests |-> NoRequest] /\ sweep = NoSweep
  /\ calls = 0 /\ faults = 0

-----------------------------------------------------------------------------
(* Purchases.                                                                *)

Made      == {p \in Purchases : row[p].status # "none"}
Unpaid(p) == row[p].status = "PENDING_PAYMENT"
NewId     == Cardinality(Made) + 1    \* the id the next purchase gets

\* isActivePaymentIntent, PayOS being configured.
Active(p) ==
  /\ Unpaid(p) /\ row[p].payment \in {"PENDING", "REPORTED"}
  /\ window[p] = "open"
  /\ intent[p].linked /\ intent[p].status \in {"PENDING", "PROCESSING"}

Move(p, status, payment) == [row EXCEPT ![p].status = status, ![p].payment = payment]

\* The part of confirmPurchaseInTransaction that writes.
Grant(p, by) ==
  row' = [row EXCEPT ![p].status = "COMPLETED", ![p].payment = "CONFIRMED", ![p].by = by]

AutoConfirmable(p)  == row[p].payment \in {"PENDING", "REPORTED"} /\ Unpaid(p)
AdminConfirmable(p) ==
  \/ row[p].payment \in {"REPORTED", "REVIEW_REQUIRED"} /\ Unpaid(p)
  \/ row[p].payment = "REVIEW_REQUIRED" /\ row[p].status = "EXPIRED"

\* MUTANT of Confirm: an expired purchase is confirmed as well.
ConfirmLate(p) ==
  \/ row[p].status = "COMPLETED" /\ UNCHANGED row
  \/ row[p].payment \in {"PENDING", "REPORTED", "EXPIRED"} /\ Grant(p, "AUTO_WEBHOOK")

\* confirmPurchaseFromWebhook when it succeeds: at once, or because the purchase
\* was granted before.
Confirm(p) ==
  \/ row[p].status = "COMPLETED" /\ UNCHANGED row
  \/ AutoConfirmable(p) /\ Grant(p, "AUTO_WEBHOOK")

\* It throws a ConflictException: the purchase is past confirming, or the
\* learner's plans refuse it.
Conflict(p) == row[p].status # "COMPLETED" /\ UNCHANGED row

\* MUTANT of Holdable: only an open purchase is held.
HoldableOpen(p) == Unpaid(p) /\ row[p].payment \in {"PENDING", "REPORTED"}

Holdable(p) ==
  /\ row[p].status \in {"PENDING_PAYMENT", "EXPIRED"}
  /\ row[p].payment \in {"PENDING", "REPORTED", "EXPIRED"}

\* MUTANT of HoldForReview: the purchase stays open.
HoldOpen(p) ==
  row' = IF Holdable(p) THEN [row EXCEPT ![p].payment = "REVIEW_REQUIRED"] ELSE row

\* holdPaidPurchaseForReview.
HoldForReview(p) ==
  row' = IF Holdable(p) THEN Move(p, "EXPIRED", "REVIEW_REQUIRED") ELSE row

-----------------------------------------------------------------------------
(* The learner: createPurchase, replacePayment and what both do after their    *)
(* transaction, createForPlanPayment.                                          *)

\* A request begins and stands at pc.
Starts(r, pc, p, val) ==
  /\ request[r] = NoRequest /\ calls < MaxCalls
  /\ request' = [request EXCEPT ![r] = [pc |-> pc, p |-> p, val |-> val]]
  /\ calls' = calls + 1

Checkout(r, p) == Starts(r, "intent", p, "none")
Done(r)        == request' = [request EXCEPT ![r] = NoRequest]

\* The key of an earlier checkout, whatever became of its purchase; or the open
\* purchase can still be paid, at the same price.
Resume(r, p) ==
  /\ row[p].keyed \/ Active(p)
  /\ Checkout(r, p)
  /\ UNCHANGED <<row, window, intent, link, hook, bank, sweep, faults>>

\* A new key: a new purchase. An open one that is not reused expires, reported or
\* not, and its PayOS order is left as it is.
Create(r) ==
  /\ NewId \in Purchases
  /\ row' = [p \in Purchases |->
       IF p = NewId THEN KeyedRow
       ELSE IF Unpaid(p) THEN [row[p] EXCEPT !.status = "EXPIRED", !.payment = "EXPIRED"]
       ELSE row[p]]
  /\ Checkout(r, NewId)
  /\ UNCHANGED <<window, intent, link, hook, bank, sweep, faults>>

\* replacePayment, first call: the payment in force is superseded by a new one.
Replace(r, p) ==
  /\ row[p].next = 0 /\ Active(p) /\ NewId \in Purchases
  /\ row' = [row EXCEPT ![p].status = "SUPERSEDED", ![p].payment = "SUPERSEDED",
                        ![p].next = NewId, ![NewId] = NewRow]
  /\ Checkout(r, NewId)
  /\ UNCHANGED <<window, intent, link, hook, bank, sweep, faults>>

\* replacePayment again: the replacement is handed out.
ReplaceAgain(r, p) ==
  /\ row[p].next # 0
  /\ Checkout(r, row[p].next)
  /\ UNCHANGED <<row, window, intent, link, hook, bank, sweep, faults>>

\* createForPlanPayment: an intent that has its link is handed out as it is.
CheckoutIntent(r) ==
  /\ request[r].pc = "intent"
  /\ LET p == request[r].p IN
       IF intent[p].linked THEN Done(r) /\ UNCHANGED intent
       ELSE /\ request' = [request EXCEPT ![r].pc = "link"]
            /\ intent' = [intent EXCEPT ![p] =
                            IF @ = NoIntent THEN [status |-> "PENDING", linked |-> FALSE] ELSE @]
  /\ UNCHANGED <<row, window, link, hook, bank, calls, sweep, faults>>

\* createProviderLink asks PayOS, which has one order for each order code.
CheckoutLink(r) ==
  /\ request[r].pc = "link"
  /\ LET p == request[r].p IN
       IF link[p] # "none" THEN Done(r) /\ UNCHANGED link
       ELSE /\ request' = [request EXCEPT ![r].pc = "store"]
            /\ link' = [link EXCEPT ![p] = "PENDING"]
  /\ UNCHANGED <<row, window, intent, hook, bank, calls, sweep, faults>>

CheckoutStore(r) ==
  /\ request[r].pc = "store"
  /\ intent' = [intent EXCEPT ![request[r].p] = [status |-> "PENDING", linked |-> TRUE]]
  /\ Done(r)
  /\ UNCHANGED <<row, window, link, hook, bank, calls, sweep, faults>>

\* reportTransfer.
Report(p) ==
  /\ Unpaid(p) /\ row[p].payment = "PENDING"
  /\ row' = [row EXCEPT ![p].payment = "REPORTED"]
  /\ UNCHANGED <<window, intent, link, hook, bank, request, calls, sweep, faults>>

-----------------------------------------------------------------------------
(* PayosPaymentService: synchronize and cancel.                              *)

\* What synchronize asks PayOS about order p, and does before it writes: a paid
\* order is confirmed unless the intent was read as PAID. seen: that reading.
Remote(p)  == link[p]
ToWrite(p) == IF intent[p].status = "PAID" THEN "PAID" ELSE Remote(p)
Fulfils(p) == Remote(p) = "PAID" /\ intent[p].status # "PAID"

\* The learner polls. A conflict is an error and nothing more.
SyncFetch(r, p) ==
  /\ intent[p] # NoIntent /\ link[p] # "none"
  /\ IF Fulfils(p) THEN Confirm(p) ELSE UNCHANGED row
  /\ Starts(r, "write", p, ToWrite(p))
  /\ UNCHANGED <<window, intent, link, hook, bank, sweep, faults>>

SyncWrite(r) ==
  /\ request[r].pc = "write"
  /\ intent' = [intent EXCEPT ![request[r].p].status = request[r].val]
  /\ Done(r)
  /\ UNCHANGED <<row, window, link, hook, bank, calls, sweep, faults>>

\* The learner cancels; PayOS refuses for an order it does not hold open.
CancelOrder(r, p) ==
  /\ intent[p] # NoIntent /\ intent[p].status # "PAID"
  /\ link[p] = "PENDING"
  /\ link' = [link EXCEPT ![p] = "CANCELLED"]
  /\ Starts(r, "cancelled", p, "none")
  /\ UNCHANGED <<row, window, intent, hook, bank, sweep, faults>>

CancelWrite(r) ==
  /\ request[r].pc = "cancelled"
  /\ intent' = [intent EXCEPT ![request[r].p].status = "CANCELLED"]
  /\ Done(r)
  /\ UNCHANGED <<row, window, link, hook, bank, calls, sweep, faults>>

RequestDies(r) ==
  /\ request[r] # NoRequest /\ faults < MaxFaults
  /\ Done(r) /\ faults' = faults + 1
  /\ UNCHANGED <<row, window, intent, link, hook, bank, calls, sweep>>

RequestStep(r) ==
  CheckoutIntent(r) \/ CheckoutLink(r) \/ CheckoutStore(r) \/ SyncWrite(r) \/ CancelWrite(r)

-----------------------------------------------------------------------------
(* PayOS: its orders, and the webhook of a paid one until it is answered.      *)

\* The learner has the link once an intent was stored with it.
ProviderMoves(p, from, to) ==
  /\ link[p] \in from
  /\ link' = [link EXCEPT ![p] = to]
  /\ hook' = [hook EXCEPT ![p] = IF to = "PAID" THEN "sent" ELSE @]
  /\ UNCHANGED <<row, window, intent, bank, request, calls, sweep, faults>>

Pay(p)     == intent[p].linked /\ ProviderMoves(p, {"PENDING", "UNDERPAID"}, "PAID")
PayPart(p) == intent[p].linked /\ ProviderMoves(p, {"PENDING"}, "UNDERPAID")
PayBegins(p) == intent[p].linked /\ ProviderMoves(p, {"PENDING"}, "PROCESSING")
PaySettles(p) == ProviderMoves(p, {"PROCESSING"}, "PAID")

\* An order closes with the payment window. One made after it lapsed has no
\* expiry; that it may close as well only adds behaviours.
OrderExpires(p) == window[p] # "open" /\ ProviderMoves(p, {"PENDING"}, "CANCELLED")

\* The controller confirms the purchase ...
WebhookConfirm(p) ==
  /\ hook[p] = "sent"
  /\ \/ Confirm(p) /\ hook' = [hook EXCEPT ![p] = "mark"]
     \/ Conflict(p) /\ hook' = [hook EXCEPT ![p] = "hold"]
  /\ UNCHANGED <<window, intent, link, bank, request, calls, sweep, faults>>

\* ... or has it held for review; if it cannot be, the webhook is refused, and
\* PayOS sends it again.
WebhookHold(p) ==
  /\ hook[p] = "hold"
  /\ HoldForReview(p)
  /\ hook' = [hook EXCEPT ![p] = IF Holdable(p) THEN "mark" ELSE "sent"]
  /\ UNCHANGED <<window, intent, link, bank, request, calls, sweep, faults>>

\* markWebhookFulfilled.
WebhookMark(p) ==
  /\ hook[p] = "mark"
  /\ intent' = [intent EXCEPT ![p].status = "PAID"]
  /\ hook' = [hook EXCEPT ![p] = "accepted"]
  /\ UNCHANGED <<row, window, link, bank, request, calls, sweep, faults>>

\* The request dies, or its answer is lost: PayOS sends the webhook again.
WebhookDies(p) ==
  /\ hook[p] \in {"hold", "mark"} /\ faults < MaxFaults
  /\ \/ UNCHANGED intent
     \/ hook[p] = "mark" /\ intent' = [intent EXCEPT ![p].status = "PAID"]
  /\ hook' = [hook EXCEPT ![p] = "sent"] /\ faults' = faults + 1
  /\ UNCHANGED <<row, window, link, bank, request, calls, sweep>>

WebhookStep(p) == WebhookConfirm(p) \/ WebhookHold(p) \/ WebhookMark(p)

-----------------------------------------------------------------------------
(* StalePurchaseScheduler: expireStalePurchases, every five minutes.           *)

Swept(p) ==
  /\ Unpaid(p) /\ row[p].payment = "PENDING"
  /\ window[p] = IF row[p].legacy THEN "past" ELSE "stale"

SweepTo(pc) == sweep' = [sweep EXCEPT !.pc = pc]
SweepDone   == sweep' = NoSweep

\* The list is read once, each purchase with its order code if it had one.
SweepStart ==
  /\ sweep = NoSweep
  /\ \E p \in Purchases :
       /\ Swept(p)
       /\ sweep' = [pc |-> IF intent[p] = NoIntent THEN "expire" ELSE "fetch",
                    p |-> p, val |-> "none"]
  /\ UNCHANGED <<row, window, intent, link, hook, bank, request, calls, faults>>

\* closeUnpaid synchronizes first. PayOS does not know an order whose link was
\* never made, and the purchase is left for the next round.
SweepFetch ==
  /\ sweep.pc = "fetch"
  /\ LET p == sweep.p IN
     \/ link[p] = "none" /\ SweepDone /\ UNCHANGED row
     \/ /\ link[p] # "none"
        /\ sweep' = [sweep EXCEPT !.pc = "write", !.val = ToWrite(p)]
        /\ IF Fulfils(p) THEN Confirm(p) ELSE UNCHANGED row
     \/ Fulfils(p) /\ Conflict(p) /\ SweepTo("hold")
  /\ UNCHANGED <<window, intent, link, hook, bank, request, calls, faults>>

\* MUTANT of SweepWrite: a part-paid order is left for the next round.
SweepWriteLeaves ==
  /\ sweep.pc = "write"
  /\ intent' = [intent EXCEPT ![sweep.p].status = sweep.val]
  /\ CASE sweep.val \in {"PAID", "PROCESSING", "UNDERPAID"} -> SweepDone
       [] sweep.val = "PENDING"                              -> SweepTo("cancel")
       [] sweep.val = "CANCELLED"                            -> SweepTo("expire")
  /\ UNCHANGED <<row, window, link, hook, bank, request, calls, faults>>

SweepWrite ==
  /\ sweep.pc = "write"
  /\ intent' = [intent EXCEPT ![sweep.p].status = sweep.val]
  /\ CASE sweep.val \in {"PAID", "PROCESSING"} -> SweepDone
       [] sweep.val = "UNDERPAID"              -> SweepTo("hold")
       [] sweep.val = "PENDING"                -> SweepTo("cancel")
       [] sweep.val = "CANCELLED"              -> SweepTo("expire")
  /\ UNCHANGED <<row, window, link, hook, bank, request, calls, faults>>

\* MUTANT of SweepCancel: what PayOS answers is not looked at.
SweepCancelBlindly ==
  /\ sweep.pc = "cancel"
  /\ link' = [link EXCEPT ![sweep.p] = IF @ = "PENDING" THEN "CANCELLED" ELSE @]
  /\ SweepTo("cancelled")
  /\ UNCHANGED <<row, window, intent, hook, bank, request, calls, faults>>

SweepCancel ==
  /\ sweep.pc = "cancel"
  /\ IF link[sweep.p] = "PENDING"
     THEN link' = [link EXCEPT ![sweep.p] = "CANCELLED"] /\ SweepTo("cancelled")
     ELSE UNCHANGED link /\ SweepDone
  /\ UNCHANGED <<row, window, intent, hook, bank, request, calls, faults>>

SweepCancelled ==
  /\ sweep.pc = "cancelled"
  /\ intent' = [intent EXCEPT ![sweep.p].status = "CANCELLED"]
  /\ SweepTo("expire")
  /\ UNCHANGED <<row, window, link, hook, bank, request, calls, faults>>

\* expireIfStillPending.
SweepExpire ==
  /\ sweep.pc = "expire"
  /\ row' = IF Unpaid(sweep.p) /\ row[sweep.p].payment = "PENDING"
            THEN Move(sweep.p, "EXPIRED", "EXPIRED") ELSE row
  /\ SweepDone
  /\ UNCHANGED <<window, intent, link, hook, bank, request, calls, faults>>

SweepHold ==
  /\ sweep.pc = "hold"
  /\ HoldForReview(sweep.p)
  /\ SweepDone
  /\ UNCHANGED <<window, intent, link, hook, bank, request, calls, faults>>

\* The server stops, or PayOS cannot be reached.
SweepDies ==
  /\ sweep # NoSweep /\ faults < MaxFaults
  /\ SweepDone /\ faults' = faults + 1
  /\ UNCHANGED <<row, window, intent, link, hook, bank, request, calls>>

SweepStep ==
  \/ SweepStart \/ SweepFetch \/ SweepWrite \/ SweepCancel \/ SweepCancelled
  \/ SweepExpire \/ SweepHold

-----------------------------------------------------------------------------
(* Admins: confirmPurchase and rejectPurchase.                               *)

AdminConfirm(p) ==
  /\ AdminConfirmable(p)
  /\ Grant(p, "ADMIN")
  /\ UNCHANGED <<window, intent, link, hook, bank, request, calls, sweep, faults>>

AdminReject(p) ==
  /\ row[p].payment \in {"REPORTED", "REVIEW_REQUIRED"}
  /\ row' = Move(p, "REJECTED", "REJECTED")
  /\ UNCHANGED <<window, intent, link, hook, bank, request, calls, sweep, faults>>

-----------------------------------------------------------------------------
(* PaymentReconciliationService: ingest of a transfer with the transfer code   *)
(* of purchase 1, from the SePay webhook or the poll. Only a purchase made      *)
(* before PayOS has a bank account: the transfers of any other go to review and *)
(* change nothing else.                                                        *)

\* The transaction finds the payment, unlocked, and goes on to confirm one that
\* is open, if the account, amount and time of the transfer fit it.
IngestMatch(t) ==
  /\ bank[t] \in {"none", "RECEIVED"}
  /\ row[1].legacy
  /\ \/ /\ AutoConfirmable(1)
        /\ bank' = [bank EXCEPT ![t] = "matching"]
     \/ /\ row[1].payment = "CONFIRMED"
        /\ bank' = [bank EXCEPT ![t] = "DUPLICATE"]
     \/ /\ row[1].payment # "CONFIRMED"   \* closed, or it does not fit
        /\ bank' = [bank EXCEPT ![t] = "REVIEW_REQUIRED"]
  /\ UNCHANGED <<row, window, intent, link, hook, request, calls, sweep, faults>>

\* MUTANT of IngestConfirm: a purchase granted before counts as matched.
IngestConfirmAgain(t) ==
  /\ bank[t] = "matching"
  /\ \/ Confirm(1) /\ bank' = [bank EXCEPT ![t] = "MATCHED"]
     \/ Conflict(1) /\ bank' = [bank EXCEPT ![t] = "REVIEW_REQUIRED"]
  /\ UNCHANGED <<window, intent, link, hook, request, calls, sweep, faults>>

\* A purchase granted before leaves the transfer RECEIVED, for a later ingest.
IngestConfirm(t) ==
  /\ bank[t] = "matching"
  /\ \/ Confirm(1) /\ bank' = [bank EXCEPT ![t] =
                        IF row[1].status = "COMPLETED" THEN "RECEIVED" ELSE "MATCHED"]
     \/ Conflict(1) /\ bank' = [bank EXCEPT ![t] = "REVIEW_REQUIRED"]
  /\ UNCHANGED <<window, intent, link, hook, request, calls, sweep, faults>>

IngestDies(t) ==
  /\ bank[t] = "matching" /\ faults < MaxFaults
  /\ bank' = [bank EXCEPT ![t] = "none"] /\ faults' = faults + 1
  /\ UNCHANGED <<row, window, intent, link, hook, request, calls, sweep>>

-----------------------------------------------------------------------------
(* The clock and the specification.                                          *)

Later == [open |-> "lapsed", lapsed |-> "stale", stale |-> "past"]

\* The windows lapse in the order the purchases were made. How long ago one
\* lapsed makes no difference once its purchase is closed.
Elapse(p) ==
  /\ \/ window[p] = "open" /\ p \in Made /\ \A q \in 1 .. p - 1 : window[q] # "open"
     \/ window[p] = "lapsed" /\ Unpaid(p)
     \/ window[p] = "stale" /\ Unpaid(p) /\ row[p].legacy
  /\ window' = [window EXCEPT ![p] = Later[@]]
  /\ UNCHANGED <<row, intent, link, hook, bank, request, calls, sweep, faults>>

LearnerActs(r) ==
  \/ Create(r)
  \/ \E p \in Made :
       Resume(r, p) \/ Replace(r, p) \/ ReplaceAgain(r, p) \/ SyncFetch(r, p) \/ CancelOrder(r, p)

ProviderActs(p) == Pay(p) \/ PayPart(p) \/ PayBegins(p) \/ PaySettles(p) \/ OrderExpires(p)

Next ==
  \/ \E r \in Requests : LearnerActs(r) \/ RequestStep(r) \/ RequestDies(r)
  \/ \E p \in Purchases :
       \/ ProviderActs(p) \/ WebhookStep(p) \/ WebhookDies(p)
       \/ Report(p) \/ AdminConfirm(p) \/ AdminReject(p) \/ Elapse(p)
  \/ SweepStep \/ SweepDies
  \/ \E t \in Transfers : IngestMatch(t) \/ IngestConfirm(t) \/ IngestDies(t)

\* Requests run on, PayOS settles what it is processing and repeats a webhook
\* until it is accepted, and the sweep comes round every five minutes. Learners
\* and admins owe nothing, and time need not pass.
Fairness ==
  /\ \A r \in Requests : WF_vars(RequestStep(r))
  /\ \A p \in Purchases : WF_vars(WebhookStep(p)) /\ WF_vars(PaySettles(p))
  /\ WF_vars(SweepStep)

Spec     == Init /\ [][Next]_vars
FairSpec == Spec /\ Fairness

-----------------------------------------------------------------------------
(* Properties.                                                               *)

\* Types: the rows, the orders at PayOS, and where every request stands.
TypeOK ==
  /\ row \in [Purchases -> RowType]
  /\ window \in [Purchases -> Windows]
  /\ intent \in [Purchases -> IntentType \cup {NoIntent}]
  /\ link \in [Purchases -> OrderStates \cup {"none"}]
  /\ hook \in [Purchases -> {"none", "sent", "hold", "mark", "accepted"}]
  /\ bank \in [Transfers -> {"none", "matching", "RECEIVED", "MATCHED", "REVIEW_REQUIRED",
                             "DUPLICATE"}]
  /\ request \in [Requests -> RequestType \cup {NoRequest}]
  /\ sweep \in SweepType \cup {NoSweep}
  /\ calls \in 0 .. MaxCalls
  /\ faults \in 0 .. MaxFaults

\* The two statuses of a purchase tell one story, whoever wrote them last: a
\* payment in review never stands on a purchase that is still open.
Pairs ==
  {<<"none", "none">>, <<"PENDING_PAYMENT", "PENDING">>, <<"PENDING_PAYMENT", "REPORTED">>,
   <<"COMPLETED", "CONFIRMED">>, <<"REJECTED", "REJECTED">>, <<"EXPIRED", "EXPIRED">>,
   <<"EXPIRED", "REVIEW_REQUIRED">>, <<"SUPERSEDED", "SUPERSEDED">>}
RowsAgree == \A p \in Purchases : <<row[p].status, row[p].payment>> \in Pairs

\* The purchase a learner can pay is one: a new or a replacing one closes the
\* other first, and nothing reopens it (the unique index is not relied on).
OneOpen == \A p, q \in Purchases : Unpaid(p) /\ Unpaid(q) => p = q

Accepted == {p \in Purchases : hook[p] = "accepted"}

\* Money PayOS was told is taken is never lost: its purchase is granted, waits
\* for an admin or was decided by one ("It waits for an admin instead of being
\* refused, which would leave it nowhere").
AcceptedIsKept ==
  \A p \in Accepted : row[p].payment \in {"CONFIRMED", "REVIEW_REQUIRED", "REJECTED"}

\* No plan is granted automatically without money: PayOS has the order as paid,
\* or exactly one transfer was matched to it.
AutoGrantIsPaid ==
  /\ \A p \in Purchases :
       row[p].by = "AUTO_WEBHOOK" =>
         link[p] = "PAID" \/ (p = 1 /\ \E t \in Transfers : bank[t] = "MATCHED")
  /\ \A t, u \in Transfers : bank[t] = "MATCHED" /\ bank[u] = "MATCHED" => t = u
  /\ \A t \in Transfers : bank[t] = "MATCHED" => row[1].by = "AUTO_WEBHOOK"

\* The sweep expires a purchase only when no payment of it can come through the
\* order it looked at ("a link still open is cancelled first").
SweepClosesFirst ==
  sweep.pc = "expire" /\ sweep.val # "none" =>
    link[sweep.p] = "CANCELLED"

\* What becomes of each purchase, as the payment contract has it.
Stage(p) ==
  CASE row[p].status = "none"             -> "none"
    [] row[p].status = "PENDING_PAYMENT"  -> "open"
    [] row[p].status = "COMPLETED"        -> "granted"
    [] row[p].status = "REJECTED"         -> "refused"
    [] row[p].status = "SUPERSEDED"       -> "closed"
    [] row[p].status = "EXPIRED"          ->
         IF row[p].payment = "REVIEW_REQUIRED" THEN "review" ELSE "closed"

\* The purchases keep the payment contract: no second one open, no grant taken
\* back, late money held for review, nothing acknowledged that is not kept.
Contract == INSTANCE PaymentContract WITH
              stage <- [p \in Purchases |-> Stage(p)], acked <- Accepted
HonoursContract == Contract!Spec

\* An unpaid purchase whose order PayOS knows is closed once its time is up
\* ("closes purchases whose payment window passed without payment").
StaleCloses ==
  \A p \in Purchases : Swept(p) /\ link[p] # "none" ~> ~Swept(p)

\* A paid order is granted or put before an admin in the end, unless the learner
\* has replaced the purchase or an admin has rejected it.
PaidIsSettled ==
  \A p \in Purchases :
    link[p] = "PAID" ~>
      row[p].payment \in {"CONFIRMED", "REVIEW_REQUIRED", "REJECTED", "SUPERSEDED"}

\* REFUTED: money for a purchase the learner has replaced waits for an admin ("It
\* waits for an admin instead of being refused, which would leave it nowhere").
ReplacedIsAccepted ==
  \A p \in Purchases : link[p] = "PAID" /\ row[p].status = "SUPERSEDED" ~> p \in Accepted

\* REFUTED: the sweep closes every purchase whose time is up.
StaleAlwaysCloses == \A p \in Purchases : Swept(p) ~> ~Swept(p)

=============================================================================
