-------------------------- MODULE PlanPurchaseProofs --------------------------
(* What no race of checkouts, polls, webhooks, sweeps, admins and transfers    *)
(* can do to a learner's purchases, for every number of them and of requests:  *)
(* they keep PaymentContract, and no plan is granted without money.            *)
EXTENDS PlanPurchase, FiniteSetTheorems, TLAPS

-----------------------------------------------------------------------------
(* The inductive invariant.                                                  *)

\* What a poll or the sweep is about to write was read from an order.
ReadInv ==
  /\ \A r \in Requests : request[r].pc = "write" => request[r].val \in OrderStates
  /\ sweep.pc = "write" => sweep.val \in OrderStates

\* Purchases are made in the order of their ids.
Dense == \E n \in 0 .. MaxPurchases : Made = 1 .. n

Decided(p) == row[p].payment \in {"CONFIRMED", "REVIEW_REQUIRED", "REJECTED"}

\* A webhook comes for a paid order, and is marked when its purchase is decided.
HookInv ==
  \A p \in Purchases :
    /\ hook[p] # "none" => link[p] = "PAID"
    /\ hook[p] \in {"mark", "accepted"} => Decided(p)

\* Only granted purchases have a confirmation source.
SourceInv == \A p \in Purchases : row[p].by # "none" => row[p].status = "COMPLETED"

\* Past the reading or the cancelling that told it so, the sweep knows the order
\* is closed.
SweepInv ==
  \/ sweep.pc = "write" /\ sweep.val = "CANCELLED"
  \/ sweep.pc = "cancelled"
  \/ sweep.pc = "expire" /\ sweep.val # "none"
  => link[sweep.p] = "CANCELLED"

RowInv == RowsAgree /\ OneOpen /\ Dense /\ SourceInv

IInv == TypeOK /\ ReadInv /\ RowInv /\ HookInv /\ AutoGrantIsPaid /\ SweepInv

-----------------------------------------------------------------------------
(* Facts about the data.                                                     *)

LEMMA Purchase1 == 1 \in Purchases /\ Purchases \subseteq Nat
  BY BoundsAssumption DEF Purchases

LEMMA RowFacts ==
  /\ NoRow \in RowType /\ KeyedRow \in RowType /\ NewRow \in RowType /\ LegacyRow \in RowType
  /\ NoRow.status = "none" /\ NoRow.payment = "none" /\ NoRow.by = "none"
  /\ \A x \in {KeyedRow, NewRow, LegacyRow} :
       x.status = "PENDING_PAYMENT" /\ x.payment = "PENDING" /\ x.by = "none"
  BY DEF NoRow, KeyedRow, NewRow, LegacyRow, RowType

LEMMA RowEdits ==
  \A x \in RowType :
    /\ \A s \in {"EXPIRED", "REJECTED"}, y \in {"EXPIRED", "REVIEW_REQUIRED", "REJECTED"} :
         [x EXCEPT !.status = s, !.payment = y] \in RowType
    /\ \A b \in {"ADMIN", "AUTO_WEBHOOK"} :
         [x EXCEPT !.status = "COMPLETED", !.payment = "CONFIRMED", !.by = b] \in RowType
    /\ \A n \in Purchases :
         [x EXCEPT !.status = "SUPERSEDED", !.payment = "SUPERSEDED", !.next = n] \in RowType
    /\ [x EXCEPT !.payment = "REPORTED"] \in RowType
  BY DEF RowType

LEMMA IntentEdits ==
  \A x \in IntentType \cup {NoIntent}, s \in OrderStates : [x EXCEPT !.status = s] \in IntentType
<1>1. \A x \in IntentType, s \in OrderStates : [x EXCEPT !.status = s] \in IntentType
  BY DEF IntentType
<1>2. \A s \in OrderStates : [NoIntent EXCEPT !.status = s] \in IntentType
  BY DEF IntentType, NoIntent
<1> QED BY <1>1, <1>2

\* The id of a new purchase is the first free one.
LEMMA NewIdFree ==
  ASSUME TypeOK, Dense, NewId \in Purchases
  PROVE  Made = 1 .. NewId - 1 /\ row[NewId].status = "none"
<1>1. PICK n \in 0 .. MaxPurchases : Made = 1 .. n
  BY DEF Dense
<1>2. n \in Nat /\ Cardinality(1 .. n) = n
  BY <1>1, BoundsAssumption, FS_Interval
<1>3. NewId = n + 1
  BY <1>1, <1>2 DEF NewId
<1>4. NewId \notin Made
  BY <1>1, <1>2, <1>3
<1> QED BY <1>1, <1>2, <1>3, <1>4 DEF Made

-----------------------------------------------------------------------------
(* Types.                                                                    *)

LEMMA StartsType ==
  ASSUME TypeOK, ReadInv, NEW r \in Requests, NEW pc \in {"intent", "write", "cancelled"},
         NEW p \in Purchases, NEW val \in OrderStates \cup {"none"},
         pc = "write" => val \in OrderStates, Starts(r, pc, p, val)
  PROVE  /\ request' \in [Requests -> RequestType \cup {NoRequest}]
         /\ \A s \in Requests : request'[s].pc = "write" => request'[s].val \in OrderStates
         /\ calls' \in 0 .. MaxCalls
<1> DEFINE x == [pc |-> pc, p |-> p, val |-> val]
<1>1. x \in RequestType /\ x.pc = pc /\ x.val = val
  BY DEF RequestType
<1>2. request' = [request EXCEPT ![r] = x] /\ calls' = calls + 1 /\ calls < MaxCalls
  BY DEF Starts
<1> HIDE DEF x
<1> QED BY <1>1, <1>2, BoundsAssumption DEF TypeOK, ReadInv

LEMMA DoneType ==
  ASSUME TypeOK, ReadInv, NEW r \in Requests, Done(r)
  PROVE  /\ request' \in [Requests -> RequestType \cup {NoRequest}]
         /\ \A s \in Requests : request'[s].pc = "write" => request'[s].val \in OrderStates
<1>1. NoRequest.pc = "idle"
  BY DEF NoRequest
<1> QED BY <1>1 DEF TypeOK, ReadInv, Done

\* A request that is under way is about one of the purchases.
LEMMA RequestFields ==
  ASSUME TypeOK, NEW r \in Requests, request[r].pc # "idle"
  PROVE  request[r] \in RequestType /\ request[r].p \in Purchases
  BY DEF TypeOK, RequestType, NoRequest

LEMMA SweepFields ==
  ASSUME TypeOK, sweep.pc # "idle"
  PROVE  /\ sweep \in SweepType /\ sweep.p \in Purchases /\ sweep.val \in OrderStates \cup {"none"}
  BY DEF TypeOK, SweepType, NoSweep

LEMMA GrantType ==
  ASSUME TypeOK, NEW p \in Purchases, NEW by \in {"ADMIN", "AUTO_WEBHOOK"}, Grant(p, by)
  PROVE  row' \in [Purchases -> RowType]
<1>1. row \in [Purchases -> RowType]
  BY DEF TypeOK
<1>2. [row[p] EXCEPT !.status = "COMPLETED", !.payment = "CONFIRMED", !.by = by] \in RowType
  BY <1>1, RowEdits
<1> QED BY <1>1, <1>2 DEF Grant

LEMMA MoveType ==
  ASSUME TypeOK, NEW p \in Purchases,
         NEW s \in {"EXPIRED", "REJECTED"}, NEW y \in {"EXPIRED", "REVIEW_REQUIRED", "REJECTED"}
  PROVE  Move(p, s, y) \in [Purchases -> RowType]
<1>1. row \in [Purchases -> RowType]
  BY DEF TypeOK
<1>2. [row[p] EXCEPT !.status = s, !.payment = y] \in RowType
  BY <1>1, RowEdits
<1> QED BY <1>1, <1>2 DEF Move

LEMMA ConfirmType ==
  ASSUME TypeOK, NEW p \in Purchases, Confirm(p) \/ Conflict(p) \/ HoldForReview(p)
  PROVE  row' \in [Purchases -> RowType]
<1>1. CASE UNCHANGED row
  BY <1>1 DEF TypeOK
<1>2. CASE Grant(p, "AUTO_WEBHOOK")
  BY <1>2, GrantType
<1>3. CASE row' = Move(p, "EXPIRED", "REVIEW_REQUIRED")
  BY <1>3, MoveType
<1> QED BY <1>1, <1>2, <1>3 DEF Confirm, Conflict, HoldForReview

LEMMA IntentWrite ==
  ASSUME TypeOK, NEW p \in Purchases, NEW s \in OrderStates,
         intent' = [intent EXCEPT ![p].status = s]
  PROVE  intent' \in [Purchases -> IntentType \cup {NoIntent}]
<1>1. intent \in [Purchases -> IntentType \cup {NoIntent}]
  BY DEF TypeOK
<1>2. [intent[p] EXCEPT !.status = s] \in IntentType
  BY <1>1, IntentEdits
<1> QED BY <1>1, <1>2

LEMMA SweepToType ==
  ASSUME TypeOK, sweep.pc # "idle", NEW pc \in {"cancel", "cancelled", "expire", "hold"},
         SweepTo(pc) \/ SweepDone
  PROVE  sweep' \in SweepType \cup {NoSweep} /\ sweep'.pc # "write"
<1>1. CASE SweepTo(pc)
  BY <1>1, SweepFields DEF SweepTo, SweepType
<1>2. CASE SweepDone
  BY <1>2 DEF SweepDone, NoSweep
<1> QED BY <1>1, <1>2

LEMMA FetchType ==
  ASSUME TypeOK, NEW p \in Purchases, link[p] # "none"
  PROVE  ToWrite(p) \in OrderStates
  BY DEF TypeOK, ToWrite, Remote, OrderStates

LEMMA TypeInit == Init => TypeOK /\ ReadInv
<1> SUFFICES ASSUME Init PROVE TypeOK /\ ReadInv
  OBVIOUS
<1>1. row \in [Purchases -> RowType]
  BY RowFacts DEF Init
<1> QED BY <1>1, BoundsAssumption DEF Init, TypeOK, ReadInv, Windows, NoRequest, NoSweep

LEMMA TypeLearner ==
  ASSUME TypeOK, ReadInv, NEW r \in Requests, LearnerActs(r)
  PROVE  TypeOK' /\ ReadInv'
<1> USE Purchase1
<1>0. Made \subseteq Purchases
  BY DEF Made
<1>7. row \in [Purchases -> RowType]
  BY DEF TypeOK
<1>1. CASE Create(r)
  <2>1. row' \in [Purchases -> RowType]
    <3>1. \A p \in Purchases : [row[p] EXCEPT !.status = "EXPIRED", !.payment = "EXPIRED"] \in RowType
      BY <1>7, RowEdits
    <3> QED BY <1>1, <1>7, <3>1, RowFacts DEF Create
  <2>2. NewId \in Purchases /\ Starts(r, "intent", NewId, "none")
    BY <1>1 DEF Create, Checkout
  <2> QED BY <1>1, <2>1, <2>2, StartsType DEF Create, TypeOK, ReadInv
<1>2. ASSUME NEW p \in Made, Resume(r, p) PROVE TypeOK' /\ ReadInv'
  <2>1. Starts(r, "intent", p, "none")
    BY <1>2 DEF Resume, Checkout
  <2> QED BY <1>0, <1>2, <2>1, StartsType DEF Resume, TypeOK, ReadInv
<1>3. ASSUME NEW p \in Made, Replace(r, p) PROVE TypeOK' /\ ReadInv'
  <2>1. NewId \in Purchases /\ Starts(r, "intent", NewId, "none")
    BY <1>3 DEF Replace, Checkout
  <2>2. row' \in [Purchases -> RowType]
    <3>1. [row[p] EXCEPT !.status = "SUPERSEDED", !.payment = "SUPERSEDED", !.next = NewId] \in RowType
      BY <1>0, <1>7, <2>1, RowEdits
    <3> QED BY <1>0, <1>3, <1>7, <2>1, <3>1, RowFacts DEF Replace
  <2> QED BY <1>3, <2>1, <2>2, StartsType DEF Replace, TypeOK, ReadInv
<1>4. ASSUME NEW p \in Made, ReplaceAgain(r, p) PROVE TypeOK' /\ ReadInv'
  <2>1. row[p].next \in Purchases /\ Starts(r, "intent", row[p].next, "none")
    BY <1>0, <1>4 DEF ReplaceAgain, Checkout, TypeOK, RowType
  <2> QED BY <1>4, <2>1, StartsType DEF ReplaceAgain, TypeOK, ReadInv
<1>5. ASSUME NEW p \in Made, SyncFetch(r, p) PROVE TypeOK' /\ ReadInv'
  <2>1. Starts(r, "write", p, ToWrite(p)) /\ link[p] # "none"
    BY <1>5 DEF SyncFetch
  <2>2. row' \in [Purchases -> RowType]
    BY <1>0, <1>5, ConfirmType DEF SyncFetch, TypeOK
  <2> QED BY <1>0, <1>5, <2>1, <2>2, FetchType, StartsType DEF SyncFetch, TypeOK, ReadInv
<1>6. ASSUME NEW p \in Made, CancelOrder(r, p) PROVE TypeOK' /\ ReadInv'
  <2>1. Starts(r, "cancelled", p, "none") /\ link' = [link EXCEPT ![p] = "CANCELLED"]
    BY <1>6 DEF CancelOrder
  <2>2. link' \in [Purchases -> OrderStates \cup {"none"}]
    BY <1>0, <2>1 DEF TypeOK, OrderStates
  <2> QED BY <1>0, <1>6, <2>1, <2>2, StartsType DEF CancelOrder, TypeOK, ReadInv
<1> QED BY <1>1, <1>2, <1>3, <1>4, <1>5, <1>6 DEF LearnerActs

LEMMA TypeRequest ==
  ASSUME TypeOK, ReadInv, NEW r \in Requests, RequestStep(r) \/ RequestDies(r)
  PROVE  TypeOK' /\ ReadInv'
<1>1. CASE CheckoutIntent(r)
  <2>1. request[r].p \in Purchases
    BY <1>1, RequestFields DEF CheckoutIntent
  <2>2. intent' \in [Purchases -> IntentType \cup {NoIntent}]
    <3>1. [status |-> "PENDING", linked |-> FALSE] \in IntentType
      BY DEF IntentType, OrderStates
    <3> QED BY <1>1, <2>1, <3>1 DEF CheckoutIntent, TypeOK
  <2>3. /\ request' \in [Requests -> RequestType \cup {NoRequest}]
        /\ \A s \in Requests : request'[s].pc = "write" => request'[s].val \in OrderStates
    <3>1. CASE Done(r)
      BY <3>1, DoneType
    <3>2. CASE request' = [request EXCEPT ![r].pc = "link"]
      <4>1. [request[r] EXCEPT !.pc = "link"] \in RequestType
        BY <1>1, RequestFields DEF CheckoutIntent, RequestType
      <4>2. [request[r] EXCEPT !.pc = "link"].pc = "link"
        BY <1>1, RequestFields DEF CheckoutIntent, RequestType
      <4> QED BY <3>2, <4>1, <4>2 DEF TypeOK, ReadInv
    <3> QED BY <1>1, <3>1, <3>2 DEF CheckoutIntent
  <2> QED BY <1>1, <2>2, <2>3 DEF CheckoutIntent, TypeOK, ReadInv
<1>2. CASE CheckoutLink(r)
  <2>1. request[r].p \in Purchases
    BY <1>2, RequestFields DEF CheckoutLink
  <2>2. link' \in [Purchases -> OrderStates \cup {"none"}]
    BY <1>2, <2>1 DEF CheckoutLink, TypeOK, OrderStates
  <2>3. /\ request' \in [Requests -> RequestType \cup {NoRequest}]
        /\ \A s \in Requests : request'[s].pc = "write" => request'[s].val \in OrderStates
    <3>1. CASE Done(r)
      BY <3>1, DoneType
    <3>2. CASE request' = [request EXCEPT ![r].pc = "store"]
      <4>1. [request[r] EXCEPT !.pc = "store"] \in RequestType
        BY <1>2, RequestFields DEF CheckoutLink, RequestType
      <4>2. [request[r] EXCEPT !.pc = "store"].pc = "store"
        BY <1>2, RequestFields DEF CheckoutLink, RequestType
      <4> QED BY <3>2, <4>1, <4>2 DEF TypeOK, ReadInv
    <3> QED BY <1>2, <3>1, <3>2 DEF CheckoutLink
  <2> QED BY <1>2, <2>2, <2>3 DEF CheckoutLink, TypeOK, ReadInv
<1>3. CASE CheckoutStore(r)
  <2>1. [status |-> "PENDING", linked |-> TRUE] \in IntentType
    BY DEF IntentType, OrderStates
  <2>2. intent' \in [Purchases -> IntentType \cup {NoIntent}]
    BY <1>3, <2>1 DEF CheckoutStore, TypeOK
  <2> QED BY <1>3, <2>2, DoneType DEF CheckoutStore, TypeOK, ReadInv
<1>4. CASE SyncWrite(r)
  <2>1. request[r].p \in Purchases /\ request[r].val \in OrderStates
    BY <1>4, RequestFields DEF SyncWrite, ReadInv
  <2>2. intent' \in [Purchases -> IntentType \cup {NoIntent}]
    BY <1>4, <2>1, IntentWrite DEF SyncWrite
  <2> QED BY <1>4, <2>2, DoneType DEF SyncWrite, TypeOK, ReadInv
<1>5. CASE CancelWrite(r)
  <2>1. request[r].p \in Purchases /\ "CANCELLED" \in OrderStates
    BY <1>5, RequestFields DEF CancelWrite, OrderStates
  <2>2. intent' \in [Purchases -> IntentType \cup {NoIntent}]
    BY <1>5, <2>1, IntentWrite DEF CancelWrite
  <2> QED BY <1>5, <2>2, DoneType DEF CancelWrite, TypeOK, ReadInv
<1>6. CASE RequestDies(r)
  <2>1. faults' \in 0 .. MaxFaults
    BY <1>6, BoundsAssumption DEF RequestDies, TypeOK
  <2> QED BY <1>6, <2>1, DoneType DEF RequestDies, TypeOK, ReadInv
<1> QED BY <1>1, <1>2, <1>3, <1>4, <1>5, <1>6 DEF RequestStep

LEMMA TypePurchase ==
  ASSUME TypeOK, ReadInv, NEW p \in Purchases,
         \/ ProviderActs(p) \/ WebhookStep(p) \/ WebhookDies(p)
         \/ Report(p) \/ AdminConfirm(p) \/ AdminReject(p) \/ Elapse(p)
  PROVE  TypeOK' /\ ReadInv'
<1>1. CASE ProviderActs(p)
  <2>1. PICK from, to \in OrderStates : ProviderMoves(p, {from}, to) \/ ProviderMoves(p, {from, "UNDERPAID"}, to)
    BY <1>1 DEF ProviderActs, Pay, PayPart, PayBegins, PaySettles, OrderExpires, OrderStates
  <2> QED BY <2>1 DEF ProviderMoves, TypeOK, ReadInv
<1>2. CASE WebhookConfirm(p)
  BY <1>2, ConfirmType DEF WebhookConfirm, TypeOK, ReadInv
<1>3. CASE WebhookHold(p)
  BY <1>3, ConfirmType DEF WebhookHold, TypeOK, ReadInv
<1>4. CASE WebhookMark(p)
  <2>1. intent' \in [Purchases -> IntentType \cup {NoIntent}]
    BY <1>4, IntentWrite DEF WebhookMark, OrderStates
  <2> QED BY <1>4, <2>1 DEF WebhookMark, TypeOK, ReadInv
<1>5. CASE WebhookDies(p)
  <2>1. intent' \in [Purchases -> IntentType \cup {NoIntent}]
    <3>1. CASE UNCHANGED intent
      BY <3>1 DEF TypeOK
    <3> QED BY <1>5, <3>1, IntentWrite DEF WebhookDies, OrderStates
  <2>2. faults' \in 0 .. MaxFaults
    BY <1>5, BoundsAssumption DEF WebhookDies, TypeOK
  <2> QED BY <1>5, <2>1, <2>2 DEF WebhookDies, TypeOK, ReadInv
<1>6. CASE Report(p)
  <2>1. row \in [Purchases -> RowType]
    BY DEF TypeOK
  <2>2. row' \in [Purchases -> RowType]
    BY <1>6, <2>1, RowEdits DEF Report
  <2> QED BY <1>6, <2>2 DEF Report, TypeOK, ReadInv
<1>7. CASE AdminConfirm(p)
  BY <1>7, GrantType DEF AdminConfirm, TypeOK, ReadInv
<1>8. CASE AdminReject(p)
  BY <1>8, MoveType DEF AdminReject, TypeOK, ReadInv
<1>9. CASE Elapse(p)
  <2>1. Later[window[p]] \in Windows
    BY <1>9 DEF Elapse, Later, Windows
  <2> QED BY <1>9, <2>1 DEF Elapse, TypeOK, ReadInv
<1> QED BY <1>1, <1>2, <1>3, <1>4, <1>5, <1>6, <1>7, <1>8, <1>9 DEF WebhookStep

LEMMA TypeSweep ==
  ASSUME TypeOK, ReadInv, SweepStep \/ SweepDies
  PROVE  TypeOK' /\ ReadInv'
<1>1. CASE SweepStart
  <2>1. sweep' \in SweepType /\ sweep'.pc # "write"
    BY <1>1 DEF SweepStart, SweepType
  <2> QED BY <1>1, <2>1 DEF SweepStart, TypeOK, ReadInv
<1>2. CASE SweepFetch
  <2>1. sweep.p \in Purchases /\ sweep.pc = "fetch" /\ sweep \in SweepType
    BY <1>2, SweepFields DEF SweepFetch
  <2>2. row' \in [Purchases -> RowType]
    BY <1>2, <2>1, ConfirmType DEF SweepFetch, TypeOK
  <2>3. /\ sweep' \in SweepType \cup {NoSweep}
        /\ sweep'.pc = "write" => sweep'.val \in OrderStates
    <3>1. CASE SweepDone \/ SweepTo("hold")
      BY <2>1, <3>1, SweepToType
    <3>2. CASE /\ link[sweep.p] # "none"
               /\ sweep' = [sweep EXCEPT !.pc = "write", !.val = ToWrite(sweep.p)]
      BY <2>1, <3>2, FetchType DEF SweepType
    <3> QED BY <1>2, <3>1, <3>2 DEF SweepFetch
  <2> QED BY <1>2, <2>2, <2>3 DEF SweepFetch, TypeOK, ReadInv
<1>3. CASE SweepWrite
  <2>1. sweep.p \in Purchases /\ sweep.pc = "write" /\ sweep.val \in OrderStates
    BY <1>3, SweepFields DEF SweepWrite, ReadInv
  <2>2. intent' \in [Purchases -> IntentType \cup {NoIntent}]
    BY <1>3, <2>1, IntentWrite DEF SweepWrite
  <2>3. SweepDone \/ SweepTo("hold") \/ SweepTo("cancel") \/ SweepTo("expire")
    BY <1>3, <2>1 DEF SweepWrite, OrderStates
  <2>4. sweep' \in SweepType \cup {NoSweep} /\ sweep'.pc # "write"
    BY <2>1, <2>3, SweepToType
  <2> QED BY <1>3, <2>2, <2>4 DEF SweepWrite, TypeOK, ReadInv
<1>4. CASE SweepCancel
  <2>1. sweep.p \in Purchases /\ sweep.pc = "cancel"
    BY <1>4, SweepFields DEF SweepCancel
  <2>2. link' \in [Purchases -> OrderStates \cup {"none"}]
    BY <1>4, <2>1 DEF SweepCancel, TypeOK, OrderStates
  <2>3. sweep' \in SweepType \cup {NoSweep} /\ sweep'.pc # "write"
    BY <1>4, <2>1, SweepToType DEF SweepCancel
  <2> QED BY <1>4, <2>2, <2>3 DEF SweepCancel, TypeOK, ReadInv
<1>5. CASE SweepCancelled
  <2>1. sweep.p \in Purchases /\ sweep.pc = "cancelled"
    BY <1>5, SweepFields DEF SweepCancelled
  <2>2. intent' \in [Purchases -> IntentType \cup {NoIntent}]
    BY <1>5, <2>1, IntentWrite DEF SweepCancelled, OrderStates
  <2>3. sweep' \in SweepType \cup {NoSweep} /\ sweep'.pc # "write"
    BY <1>5, <2>1, SweepToType DEF SweepCancelled
  <2> QED BY <1>5, <2>2, <2>3 DEF SweepCancelled, TypeOK, ReadInv
<1>6. CASE SweepExpire
  <2>1. sweep.p \in Purchases /\ sweep.pc = "expire"
    BY <1>6, SweepFields DEF SweepExpire
  <2>2. row' \in [Purchases -> RowType]
    BY <1>6, <2>1, MoveType DEF SweepExpire, TypeOK
  <2>3. sweep' \in SweepType \cup {NoSweep} /\ sweep'.pc # "write"
    BY <1>6, <2>1, SweepToType DEF SweepExpire
  <2> QED BY <1>6, <2>2, <2>3 DEF SweepExpire, TypeOK, ReadInv
<1>7. CASE SweepHold
  <2>1. sweep.p \in Purchases /\ sweep.pc = "hold"
    BY <1>7, SweepFields DEF SweepHold
  <2>2. row' \in [Purchases -> RowType]
    BY <1>7, <2>1, ConfirmType DEF SweepHold
  <2>3. sweep' \in SweepType \cup {NoSweep} /\ sweep'.pc # "write"
    BY <1>7, <2>1, SweepToType DEF SweepHold
  <2> QED BY <1>7, <2>2, <2>3 DEF SweepHold, TypeOK, ReadInv
<1>8. CASE SweepDies
  <2>1. faults' \in 0 .. MaxFaults
    BY <1>8, BoundsAssumption DEF SweepDies, TypeOK
  <2> QED BY <1>8, <2>1 DEF SweepDies, SweepDone, NoSweep, TypeOK, ReadInv
<1> QED BY <1>1, <1>2, <1>3, <1>4, <1>5, <1>6, <1>7, <1>8 DEF SweepStep

LEMMA TypeIngest ==
  ASSUME TypeOK, ReadInv, NEW t \in Transfers,
         IngestMatch(t) \/ IngestConfirm(t) \/ IngestDies(t)
  PROVE  TypeOK' /\ ReadInv'
<1>1. CASE IngestMatch(t)
  BY <1>1 DEF IngestMatch, TypeOK, ReadInv
<1>2. CASE IngestConfirm(t)
  <2>1. row' \in [Purchases -> RowType]
    BY <1>2, ConfirmType, Purchase1 DEF IngestConfirm
  <2> QED BY <1>2, <2>1 DEF IngestConfirm, TypeOK, ReadInv
<1>3. CASE IngestDies(t)
  <2>1. faults' \in 0 .. MaxFaults
    BY <1>3, BoundsAssumption DEF IngestDies, TypeOK
  <2> QED BY <1>3, <2>1 DEF IngestDies, TypeOK, ReadInv
<1> QED BY <1>1, <1>2, <1>3

LEMMA TypeNext == TypeOK /\ ReadInv /\ [Next]_vars => TypeOK' /\ ReadInv'
<1> SUFFICES ASSUME TypeOK, ReadInv, [Next]_vars PROVE TypeOK' /\ ReadInv'
  OBVIOUS
<1>1. CASE UNCHANGED vars
  BY <1>1 DEF vars, TypeOK, ReadInv
<1>2. CASE Next
  BY <1>2, TypeLearner, TypeRequest, TypePurchase, TypeSweep, TypeIngest DEF Next
<1> QED BY <1>1, <1>2

\* Every row, order and request keeps its type.
THEOREM TypeCorrect == Spec => []TypeOK
<1> QED BY TypeInit, TypeNext, PTL DEF Spec

-----------------------------------------------------------------------------
(* The rows.                                                                 *)

\* A step that rewrites at most the row of p, which was made, keeps the
\* invariant of the rows if what it writes agrees and reopens nothing.
LEMMA OneRow ==
  ASSUME TypeOK, RowInv, NEW p \in Purchases, NEW x \in RowType,
         row' = [row EXCEPT ![p] = x],
         <<x.status, x.payment>> \in Pairs, x.status # "none", row[p].status # "none",
         x.status = "PENDING_PAYMENT" => Unpaid(p),
         x.by # "none" => x.status = "COMPLETED"
  PROVE  RowInv'
<1>1. row \in [Purchases -> RowType] /\ row' \in [Purchases -> RowType]
  BY DEF TypeOK
<1>2. Made' = Made
  BY <1>1 DEF Made
<1>3. RowsAgree'
  BY <1>1 DEF RowInv, RowsAgree
<1>4. OneOpen'
  BY <1>1 DEF RowInv, OneOpen, Unpaid
<1>5. SourceInv'
  BY <1>1 DEF RowInv, SourceInv
<1> QED BY <1>2, <1>3, <1>4, <1>5 DEF RowInv, Dense

LEMMA SameRows == RowInv /\ UNCHANGED row => RowInv'
  BY DEF RowInv, RowsAgree, OneOpen, Dense, SourceInv, Made, Unpaid

\* What the transactions that rewrite one row do to it.
LEMMA GrantRows ==
  ASSUME TypeOK, RowInv, NEW p \in Purchases, NEW by \in {"ADMIN", "AUTO_WEBHOOK"},
         Grant(p, by), row[p].status # "none"
  PROVE  /\ RowInv'
         /\ row'[p].status = "COMPLETED" /\ row'[p].payment = "CONFIRMED" /\ row'[p].by = by
         /\ \A q \in Purchases : q # p => row'[q] = row[q]
<1> DEFINE x == [row[p] EXCEPT !.status = "COMPLETED", !.payment = "CONFIRMED", !.by = by]
<1>1. row \in [Purchases -> RowType]
  BY DEF TypeOK
<1>2. x \in RowType
  BY <1>1, RowEdits
<1>3. x.status = "COMPLETED" /\ x.payment = "CONFIRMED" /\ x.by = by
  BY <1>1 DEF RowType
<1>4. row' = [row EXCEPT ![p] = x]
  BY <1>1 DEF Grant
<1> HIDE DEF x
<1>5. RowInv'
  BY <1>2, <1>3, <1>4, OneRow DEF Pairs
<1> QED BY <1>1, <1>3, <1>4, <1>5

LEMMA MoveRows ==
  ASSUME TypeOK, RowInv, NEW p \in Purchases,
         NEW s \in {"EXPIRED", "REJECTED"}, NEW y \in {"EXPIRED", "REVIEW_REQUIRED", "REJECTED"},
         <<s, y>> \in Pairs, row' = Move(p, s, y),
         row[p].status # "none", row[p].status # "COMPLETED"
  PROVE  /\ RowInv'
         /\ row'[p].status = s /\ row'[p].payment = y /\ row'[p].by = "none"
         /\ \A q \in Purchases : q # p => row'[q] = row[q]
<1> DEFINE x == [row[p] EXCEPT !.status = s, !.payment = y]
<1>1. row \in [Purchases -> RowType]
  BY DEF TypeOK
<1>2. x \in RowType
  BY <1>1, RowEdits
<1>3. x.status = s /\ x.payment = y /\ x.by = row[p].by
  BY <1>1 DEF RowType
<1>4. row' = [row EXCEPT ![p] = x]
  BY <1>1 DEF Move
<1>5. row[p].by = "none"
  BY DEF RowInv, SourceInv
<1> HIDE DEF x
<1>6. RowInv'
  BY <1>2, <1>3, <1>4, <1>5, OneRow
<1> QED BY <1>1, <1>3, <1>4, <1>5, <1>6

\* What every step may do to the rows: nothing; make a purchase, closing the
\* open one; report one; grant one; hold, expire or reject one that is not
\* granted. The guards that matter later are part of the case.
MakesOne ==
  /\ NewId \in Purchases
  /\ row'[NewId] \in {KeyedRow, NewRow}
  /\ \A q \in Purchases \ {NewId} :
       IF Unpaid(q) THEN /\ row'[q].status \in {"EXPIRED", "SUPERSEDED"}
                         /\ row'[q].payment = row'[q].status /\ row'[q].by = "none"
                    ELSE row'[q] = row[q]

ReportsOne ==
  \E p \in Purchases : Unpaid(p) /\ row[p].payment = "PENDING"
    /\ row' = [row EXCEPT ![p].payment = "REPORTED"]

GrantsOne ==
  \E p \in Purchases :
    \/ AutoConfirmable(p) /\ Grant(p, "AUTO_WEBHOOK")
         /\ (link'[p] = "PAID" \/ (p = 1 /\ \E t \in Transfers : bank'[t] = "MATCHED"))
    \/ AdminConfirmable(p) /\ Grant(p, "ADMIN")

HoldsOne == \E p \in Purchases : Holdable(p) /\ row' = Move(p, "EXPIRED", "REVIEW_REQUIRED")

ExpiresOne ==
  \E p \in Purchases : Unpaid(p) /\ row[p].payment = "PENDING" /\ row' = Move(p, "EXPIRED", "EXPIRED")

RejectsOne ==
  \E p \in Purchases : row[p].payment \in {"REPORTED", "REVIEW_REQUIRED"}
    /\ row' = Move(p, "REJECTED", "REJECTED")

RowStep ==
  UNCHANGED row \/ MakesOne \/ ReportsOne \/ GrantsOne \/ HoldsOne \/ ExpiresOne \/ RejectsOne

LEMMA MakeRows ==
  ASSUME TypeOK, TypeOK', RowInv, MakesOne
  PROVE  RowInv'
<1>1. row \in [Purchases -> RowType] /\ row' \in [Purchases -> RowType]
  BY DEF TypeOK
<1>2. row[NewId].status = "none" /\ Made = 1 .. NewId - 1
  BY NewIdFree DEF RowInv, MakesOne
<1>3. /\ row'[NewId].status = "PENDING_PAYMENT" /\ row'[NewId].payment = "PENDING"
      /\ row'[NewId].by = "none"
  BY RowFacts DEF MakesOne
<1>4. \A q \in Purchases : q # NewId =>
        \/ /\ Unpaid(q) /\ row'[q].status \in {"EXPIRED", "SUPERSEDED"}
           /\ row'[q].payment = row'[q].status /\ row'[q].by = "none"
        \/ ~Unpaid(q) /\ row'[q] = row[q]
  BY DEF MakesOne
<1> DEFINE n == NewId
<1>5. n \in Purchases
  BY DEF MakesOne
<1> HIDE DEF n
<1>6. RowsAgree'
  BY <1>3, <1>4 DEF RowInv, RowsAgree, Pairs, n
<1>7. OneOpen'
  BY <1>3, <1>4 DEF RowInv, OneOpen, Unpaid, n
<1>8. SourceInv'
  BY <1>3, <1>4 DEF RowInv, SourceInv, n
<1>9. Dense'
  <2>1. Made' = Made \cup {n}
    BY <1>2, <1>3, <1>4, <1>5 DEF Made, Unpaid, n
  <2>2. n \in Nat \ {0} /\ n \in 0 .. MaxPurchases
    BY <1>5, BoundsAssumption DEF Purchases
  <2>3. Made = 1 .. n - 1
    BY <1>2 DEF n
  <2>4. Made' = 1 .. n
    BY <2>1, <2>2, <2>3
  <2> QED BY <2>2, <2>4 DEF Dense
<1> QED BY <1>6, <1>7, <1>8, <1>9 DEF RowInv

LEMMA ReportRows ==
  ASSUME TypeOK, RowInv, NEW p \in Purchases, Unpaid(p),
         row' = [row EXCEPT ![p].payment = "REPORTED"]
  PROVE  /\ RowInv'
         /\ row'[p].status = "PENDING_PAYMENT" /\ row'[p].payment = "REPORTED"
         /\ row'[p].by = "none" /\ \A q \in Purchases : q # p => row'[q] = row[q]
<1> DEFINE x == [row[p] EXCEPT !.payment = "REPORTED"]
<1>1. row \in [Purchases -> RowType]
  BY DEF TypeOK
<1>2. x \in RowType
  BY <1>1, RowEdits
<1>3. x.status = row[p].status /\ x.payment = "REPORTED" /\ x.by = row[p].by
  BY <1>1 DEF RowType
<1>4. row' = [row EXCEPT ![p] = x]
  BY <1>1
<1>5. row[p].status = "PENDING_PAYMENT" /\ row[p].by = "none"
  BY DEF RowInv, SourceInv, Unpaid
<1> HIDE DEF x
<1>6. RowInv'
  BY <1>2, <1>3, <1>4, <1>5, OneRow DEF Pairs, Unpaid
<1> QED BY <1>1, <1>3, <1>4, <1>5, <1>6

\* A decided payment stays decided, and a grant stands as it was made.
Keeps ==
  \A p \in Purchases :
    /\ Decided(p) => Decided(p)'
    /\ row[p].status = "COMPLETED" => row'[p] = row[p]

LEMMA RowNext ==
  ASSUME TypeOK, TypeOK', RowInv, RowStep
  PROVE  RowInv' /\ Keeps
<1>0. /\ \A p \in Purchases : <<row[p].status, row[p].payment>> \in Pairs
      /\ row \in [Purchases -> RowType]
  BY DEF RowInv, RowsAgree, TypeOK
<1>1. CASE UNCHANGED row
  BY <1>1, SameRows DEF Keeps, Decided
<1>2. CASE MakesOne
  <2>1. row[NewId].status = "none" /\ row[NewId].payment = "none"
    BY <1>0, <1>2, NewIdFree DEF RowInv, MakesOne, Pairs
  <2>2. Keeps
    BY <1>0, <1>2, <2>1 DEF MakesOne, Keeps, Decided, Unpaid, Pairs
  <2> QED BY <1>2, <2>2, MakeRows
<1>3. CASE ReportsOne
  <2>1. PICK p \in Purchases : Unpaid(p) /\ row[p].payment = "PENDING"
               /\ row' = [row EXCEPT ![p].payment = "REPORTED"]
    BY <1>3 DEF ReportsOne
  <2>2. RowInv' /\ \A q \in Purchases : q # p => row'[q] = row[q]
    BY <2>1, ReportRows
  <2> QED BY <2>1, <2>2 DEF Keeps, Decided, Unpaid
<1>4. CASE GrantsOne
  <2>1. PICK p \in Purchases, by \in {"ADMIN", "AUTO_WEBHOOK"} :
          (AutoConfirmable(p) \/ AdminConfirmable(p)) /\ Grant(p, by)
    BY <1>4 DEF GrantsOne
  <2>2. row[p].status \in {"PENDING_PAYMENT", "EXPIRED"}
    BY <2>1 DEF AutoConfirmable, AdminConfirmable, Unpaid
  <2>3. /\ RowInv' /\ row'[p].payment = "CONFIRMED"
        /\ \A q \in Purchases : q # p => row'[q] = row[q]
    BY <2>1, <2>2, GrantRows
  <2> QED BY <2>2, <2>3 DEF Keeps, Decided
<1>5. CASE HoldsOne
  <2>1. PICK p \in Purchases : Holdable(p) /\ row' = Move(p, "EXPIRED", "REVIEW_REQUIRED")
    BY <1>5 DEF HoldsOne
  <2>2. row[p].status \in {"PENDING_PAYMENT", "EXPIRED"}
    BY <2>1 DEF Holdable
  <2>3. /\ RowInv' /\ row'[p].payment = "REVIEW_REQUIRED"
        /\ \A q \in Purchases : q # p => row'[q] = row[q]
    BY <2>1, <2>2, MoveRows DEF Pairs
  <2> QED BY <2>2, <2>3 DEF Keeps, Decided
<1>6. CASE ExpiresOne
  <2>1. PICK p \in Purchases :
          Unpaid(p) /\ row[p].payment = "PENDING" /\ row' = Move(p, "EXPIRED", "EXPIRED")
    BY <1>6 DEF ExpiresOne
  <2>2. RowInv' /\ \A q \in Purchases : q # p => row'[q] = row[q]
    BY <2>1, MoveRows DEF Pairs, Unpaid
  <2> QED BY <2>1, <2>2 DEF Keeps, Decided, Unpaid
<1>7. CASE RejectsOne
  <2>1. PICK p \in Purchases :
          row[p].payment \in {"REPORTED", "REVIEW_REQUIRED"} /\ row' = Move(p, "REJECTED", "REJECTED")
    BY <1>7 DEF RejectsOne
  <2>2. row[p].status \in {"PENDING_PAYMENT", "EXPIRED"}
    BY <1>0, <2>1 DEF Pairs
  <2>3. /\ RowInv' /\ row'[p].payment = "REJECTED"
        /\ \A q \in Purchases : q # p => row'[q] = row[q]
    BY <2>1, <2>2, MoveRows DEF Pairs
  <2> QED BY <2>2, <2>3 DEF Keeps, Decided
<1> QED BY <1>1, <1>2, <1>3, <1>4, <1>5, <1>6, <1>7 DEF RowStep

\* Every step of the system is one of these.
LEMMA StepsRows == IInv /\ [Next]_vars => RowStep
<1> SUFFICES ASSUME IInv, [Next]_vars PROVE RowStep
  OBVIOUS
<1>0. TypeOK /\ RowInv /\ HookInv /\ row \in [Purchases -> RowType] /\ Made \subseteq Purchases
  BY DEF IInv, TypeOK, Made
<1>1. ASSUME NEW r \in Requests, Create(r) PROVE MakesOne
  <2>1. \A q \in Purchases : Unpaid(q) => row[q].by = "none"
    BY <1>0 DEF RowInv, SourceInv, Unpaid
  <2>2. \A q \in Purchases \ {NewId} : Unpaid(q) =>
          row'[q] = [row[q] EXCEPT !.status = "EXPIRED", !.payment = "EXPIRED"]
    BY <1>1 DEF Create
  <2>3. ASSUME NEW q \in Purchases \ {NewId}, Unpaid(q)
        PROVE  row'[q].status = "EXPIRED" /\ row'[q].payment = "EXPIRED" /\ row'[q].by = "none"
    <3>1. row[q] \in RowType /\ row[q].by = "none"
      BY <1>0, <2>1, <2>3
    <3>2. row'[q] = [row[q] EXCEPT !.status = "EXPIRED", !.payment = "EXPIRED"]
      BY <2>2, <2>3
    <3> QED BY <3>1, <3>2 DEF RowType
  <2> QED BY <1>0, <1>1, <2>3 DEF Create, MakesOne
<1>2. ASSUME NEW r \in Requests, NEW p \in Made, Replace(r, p) PROVE MakesOne
  <2>1. p \in Purchases /\ Unpaid(p) /\ NewId \in Purchases
    BY <1>0, <1>2 DEF Replace, Active
  <2>2. row[NewId].status = "none" /\ row[p].by = "none"
    BY <1>0, <2>1, NewIdFree DEF RowInv, SourceInv, Unpaid
  <2>3. p # NewId
    BY <2>1, <2>2 DEF Unpaid
  <2>4. /\ row'[NewId] = NewRow
        /\ row'[p] = [row[p] EXCEPT !.status = "SUPERSEDED", !.payment = "SUPERSEDED",
                                    !.next = NewId]
        /\ \A q \in Purchases : q # p /\ q # NewId => row'[q] = row[q]
    BY <1>0, <1>2, <2>1, <2>3 DEF Replace
  <2>5. row'[p].status = "SUPERSEDED" /\ row'[p].payment = "SUPERSEDED" /\ row'[p].by = "none"
    BY <1>0, <2>1, <2>2, <2>4 DEF RowType
  <2>6. \A q \in Purchases : Unpaid(q) => q = p
    BY <1>0, <2>1 DEF RowInv, OneOpen
  <2> QED BY <2>1, <2>4, <2>5, <2>6 DEF MakesOne
<1>3. ASSUME NEW p \in Purchases, Confirm(p), link'[p] = "PAID" PROVE UNCHANGED row \/ GrantsOne
  BY <1>3 DEF Confirm, GrantsOne
<1>4. ASSUME NEW p \in Purchases, HoldForReview(p) PROVE UNCHANGED row \/ HoldsOne
  BY <1>4 DEF HoldForReview, HoldsOne
<1>5. ASSUME NEW r \in Requests, LearnerActs(r) PROVE RowStep
  <2>1. ASSUME NEW p \in Made, SyncFetch(r, p) PROVE RowStep
    BY <1>0, <1>3, <2>1 DEF SyncFetch, Fulfils, Remote, RowStep
  <2> QED BY <1>1, <1>2, <1>5, <2>1 DEF LearnerActs, Resume, ReplaceAgain, CancelOrder, RowStep
<1>6. ASSUME NEW r \in Requests, RequestStep(r) \/ RequestDies(r) PROVE UNCHANGED row
  BY <1>6 DEF RequestStep, CheckoutIntent, CheckoutLink, CheckoutStore, SyncWrite, CancelWrite,
              RequestDies
<1>7. ASSUME NEW p \in Purchases, WebhookStep(p) \/ WebhookDies(p) PROVE RowStep
  <2>1. CASE WebhookConfirm(p)
    <3>1. link'[p] = "PAID"
      BY <1>0, <2>1 DEF WebhookConfirm, HookInv
    <3> QED BY <1>3, <2>1, <3>1 DEF WebhookConfirm, Conflict, RowStep
  <2>2. CASE WebhookHold(p)
    BY <1>4, <2>2 DEF WebhookHold, RowStep
  <2> QED BY <1>7, <2>1, <2>2 DEF WebhookStep, WebhookMark, WebhookDies, RowStep
<1>8. ASSUME NEW p \in Purchases,
             ProviderActs(p) \/ Report(p) \/ AdminConfirm(p) \/ AdminReject(p) \/ Elapse(p)
      PROVE  RowStep
  BY <1>8 DEF ProviderActs, Pay, PayPart, PayBegins, PaySettles, OrderExpires, ProviderMoves,
              Report, AdminConfirm, AdminReject, Elapse, RowStep, ReportsOne, GrantsOne, RejectsOne
<1>9. ASSUME SweepStep \/ SweepDies PROVE RowStep
  <2>1. CASE SweepFetch
    <3>1. sweep.p \in Purchases
      BY <1>0, <2>1, SweepFields DEF SweepFetch
    <3> QED BY <1>3, <2>1, <3>1 DEF SweepFetch, Fulfils, Remote, Conflict, RowStep
  <2>2. CASE SweepExpire
    <3>1. sweep.p \in Purchases
      BY <1>0, <2>2, SweepFields DEF SweepExpire
    <3> QED BY <2>2, <3>1 DEF SweepExpire, RowStep, ExpiresOne
  <2>3. CASE SweepHold
    <3>1. sweep.p \in Purchases
      BY <1>0, <2>3, SweepFields DEF SweepHold
    <3> QED BY <1>4, <2>3, <3>1 DEF SweepHold, RowStep
  <2> QED BY <1>9, <2>1, <2>2, <2>3
          DEF SweepStep, SweepStart, SweepWrite, SweepCancel, SweepCancelled, SweepDies, RowStep
<1>10. ASSUME NEW t \in Transfers, IngestMatch(t) \/ IngestConfirm(t) \/ IngestDies(t)
       PROVE  RowStep
  <2>1. CASE IngestConfirm(t) /\ Confirm(1)
    <3>1. CASE row[1].status = "COMPLETED"
      BY <2>1, <3>1 DEF Confirm, AutoConfirmable, Unpaid, RowStep
    <3>2. CASE row[1].status # "COMPLETED"
      <4>1. AutoConfirmable(1) /\ Grant(1, "AUTO_WEBHOOK")
        BY <2>1, <3>2 DEF Confirm
      <4>2. row'[1].status = "COMPLETED"
        BY <1>0, <4>1, Purchase1, GrantRows DEF AutoConfirmable, Unpaid
      <4>3. bank' = [bank EXCEPT ![t] = "MATCHED"]
        BY <2>1, <3>2, <4>2 DEF IngestConfirm, Conflict
      <4>4. bank'[t] = "MATCHED"
        BY <1>0, <4>3 DEF TypeOK
      <4> QED BY <4>1, <4>4, Purchase1 DEF RowStep, GrantsOne
    <3> QED BY <3>1, <3>2
  <2> QED BY <1>10, <2>1 DEF IngestMatch, IngestConfirm, IngestDies, Conflict, RowStep
<1> QED
  BY <1>5, <1>6, <1>7, <1>8, <1>9, <1>10 DEF Next, vars, RowStep
-----------------------------------------------------------------------------
(* The orders, the webhooks, the transfers and the sweep.                    *)

\* PayOS never reopens an order.
LinkFinal ==
  \A p \in Purchases : link[p] \in {"PAID", "CANCELLED"} => link'[p] = link[p]

LEMMA LinkNext == TypeOK /\ [Next]_vars => LinkFinal
<1> SUFFICES ASSUME TypeOK, [Next]_vars PROVE LinkFinal
  OBVIOUS
<1>0. link \in [Purchases -> OrderStates \cup {"none"}] /\ Made \subseteq Purchases
  BY DEF TypeOK, Made
<1>1. ASSUME NEW r \in Requests, LearnerActs(r) PROVE LinkFinal
  <2>1. ASSUME NEW p \in Made, CancelOrder(r, p) PROVE LinkFinal
    BY <1>0, <2>1 DEF CancelOrder, LinkFinal
  <2> QED BY <1>1, <2>1 DEF LearnerActs, Create, Resume, Replace, ReplaceAgain, SyncFetch, LinkFinal
<1>2. ASSUME NEW r \in Requests, RequestStep(r) \/ RequestDies(r) PROVE LinkFinal
  <2>1. CASE CheckoutLink(r)
    BY <1>0, <2>1 DEF CheckoutLink, LinkFinal
  <2> QED BY <1>2, <2>1 DEF RequestStep, CheckoutIntent, CheckoutStore, SyncWrite, CancelWrite,
                            RequestDies, LinkFinal
<1>3. ASSUME NEW p \in Purchases, ProviderActs(p) PROVE LinkFinal
  BY <1>0, <1>3 DEF ProviderActs, Pay, PayPart, PayBegins, PaySettles, OrderExpires,
                    ProviderMoves, LinkFinal
<1>4. ASSUME NEW p \in Purchases,
             \/ WebhookStep(p) \/ WebhookDies(p)
             \/ Report(p) \/ AdminConfirm(p) \/ AdminReject(p) \/ Elapse(p)
      PROVE  LinkFinal
  BY <1>4 DEF WebhookStep, WebhookConfirm, WebhookHold, WebhookMark, WebhookDies, Report,
              AdminConfirm, AdminReject, Elapse, LinkFinal
<1>5. ASSUME SweepStep \/ SweepDies PROVE LinkFinal
  <2>1. CASE SweepCancel
    BY <1>0, <2>1 DEF SweepCancel, LinkFinal
  <2> QED BY <1>5, <2>1 DEF SweepStep, SweepStart, SweepFetch, SweepWrite, SweepCancelled,
                            SweepExpire, SweepHold, SweepDies, LinkFinal
<1>6. ASSUME NEW t \in Transfers, IngestMatch(t) \/ IngestConfirm(t) \/ IngestDies(t)
      PROVE  LinkFinal
  BY <1>6 DEF IngestMatch, IngestConfirm, IngestDies, LinkFinal
<1>7. CASE UNCHANGED vars
  BY <1>7 DEF vars, LinkFinal
<1> QED BY <1>1, <1>2, <1>3, <1>4, <1>5, <1>6, <1>7 DEF Next

\* A transfer moves alone. It is matched with the grant of purchase 1, and a
\* matched one does not move again.
Untouched == UNCHANGED bank
MovesOne  ==
  \E t \in Transfers, s \in {"none", "matching", "RECEIVED", "REVIEW_REQUIRED", "DUPLICATE"} :
    bank[t] # "MATCHED" /\ bank' = [bank EXCEPT ![t] = s]
MatchesOne ==
  /\ AutoConfirmable(1) /\ Grant(1, "AUTO_WEBHOOK")
  /\ \E t \in Transfers : bank[t] # "MATCHED" /\ bank' = [bank EXCEPT ![t] = "MATCHED"]

LEMMA BankNext == TypeOK /\ [Next]_vars => Untouched \/ MovesOne \/ MatchesOne
<1> SUFFICES ASSUME TypeOK, [Next]_vars PROVE Untouched \/ MovesOne \/ MatchesOne
  OBVIOUS
<1>1. ASSUME NEW r \in Requests, LearnerActs(r) \/ RequestStep(r) \/ RequestDies(r)
      PROVE  Untouched
  BY <1>1 DEF LearnerActs, Create, Resume, Replace, ReplaceAgain, SyncFetch, CancelOrder,
              RequestStep, CheckoutIntent, CheckoutLink, CheckoutStore, SyncWrite, CancelWrite,
              RequestDies, Untouched
<1>2. ASSUME NEW p \in Purchases, ProviderActs(p) PROVE Untouched
  BY <1>2 DEF ProviderActs, Pay, PayPart, PayBegins, PaySettles, OrderExpires, ProviderMoves,
              Untouched
<1>3. ASSUME NEW p \in Purchases,
             \/ WebhookStep(p) \/ WebhookDies(p)
             \/ Report(p) \/ AdminConfirm(p) \/ AdminReject(p) \/ Elapse(p)
      PROVE  Untouched
  BY <1>3 DEF WebhookStep, WebhookConfirm, WebhookHold, WebhookMark, WebhookDies, Report,
              AdminConfirm, AdminReject, Elapse, Untouched
<1>4. ASSUME SweepStep \/ SweepDies PROVE Untouched
  BY <1>4 DEF SweepStep, SweepStart, SweepFetch, SweepWrite, SweepCancel, SweepCancelled,
              SweepExpire, SweepHold, SweepDies, Untouched
<1>5. ASSUME NEW t \in Transfers, IngestMatch(t) \/ IngestDies(t) PROVE MovesOne
  BY <1>5 DEF IngestMatch, IngestDies, MovesOne
<1>6. ASSUME NEW t \in Transfers, IngestConfirm(t) PROVE MovesOne \/ MatchesOne
  <2>1. bank[t] # "MATCHED"
    BY <1>6 DEF IngestConfirm
  <2>2. CASE Conflict(1) /\ bank' = [bank EXCEPT ![t] = "REVIEW_REQUIRED"]
    BY <2>1, <2>2 DEF MovesOne
  <2>3. CASE row[1].status = "COMPLETED" /\ bank' = [bank EXCEPT ![t] = "RECEIVED"]
    BY <2>1, <2>3 DEF MovesOne
  <2>4. CASE row[1].status # "COMPLETED" /\ Confirm(1) /\ bank' = [bank EXCEPT ![t] = "MATCHED"]
    BY <2>1, <2>4 DEF MatchesOne, Confirm
  <2> QED BY <1>6, <2>2, <2>3, <2>4 DEF IngestConfirm
<1>7. CASE UNCHANGED vars
  BY <1>7 DEF vars, Untouched
<1> QED BY <1>1, <1>2, <1>3, <1>4, <1>5, <1>6, <1>7 DEF Next

LEMMA GrantNext ==
  ASSUME IInv, [Next]_vars, RowStep, TypeOK', RowInv', Keeps
  PROVE  AutoGrantIsPaid'
<1>0. /\ TypeOK /\ RowInv /\ AutoGrantIsPaid /\ LinkFinal
      /\ Untouched \/ MovesOne \/ MatchesOne
  BY LinkNext, BankNext DEF IInv
<1>1. \A t \in Transfers : bank[t] = "MATCHED" => bank'[t] = "MATCHED"
  BY <1>0 DEF Untouched, MovesOne, MatchesOne, TypeOK
<1>2. ASSUME NEW p \in Purchases, row'[p].by = "AUTO_WEBHOOK", row[p].by # "AUTO_WEBHOOK"
      PROVE  link'[p] = "PAID" \/ (p = 1 /\ \E t \in Transfers : bank'[t] = "MATCHED")
  <2>1. row'[p] # row[p] /\ row'[p].status = "COMPLETED"
    BY <1>2 DEF RowInv, SourceInv
  <2>2. CASE GrantsOne
    <3>1. PICK q \in Purchases :
            \/ AutoConfirmable(q) /\ Grant(q, "AUTO_WEBHOOK")
                 /\ (link'[q] = "PAID" \/ (q = 1 /\ \E t \in Transfers : bank'[t] = "MATCHED"))
            \/ AdminConfirmable(q) /\ Grant(q, "ADMIN")
      BY <2>2 DEF GrantsOne
    <3>2. q = p
      BY <1>0, <2>1, <3>1 DEF Grant, TypeOK
    <3>3. row[p] \in RowType /\ row \in [Purchases -> RowType]
      BY <1>0 DEF TypeOK
    <3>4. ~ Grant(q, "ADMIN")
      BY <1>2, <3>2, <3>3 DEF Grant, RowType
    <3> QED BY <3>1, <3>2, <3>4
  <2>3. CASE ~ GrantsOne
    <3>1. \A q \in Purchases : row[q] \in RowType /\ row \in [Purchases -> RowType]
      BY <1>0 DEF TypeOK
    <3>2. UNCHANGED row \/ MakesOne \/ ReportsOne \/ HoldsOne \/ ExpiresOne \/ RejectsOne
      BY <2>3 DEF RowStep
    <3>3. ~ MakesOne
      BY <2>1, RowFacts DEF MakesOne
    <3>4. ASSUME NEW q \in Purchases, NEW s \in {"EXPIRED", "REJECTED"},
                 NEW y \in {"EXPIRED", "REVIEW_REQUIRED", "REJECTED"}, row' = Move(q, s, y)
          PROVE  FALSE
      BY <2>1, <3>1, <3>4 DEF Move, RowType
    <3>5. ~ ReportsOne
      BY <2>1, <3>1 DEF ReportsOne, Unpaid, RowType
    <3>6. ~ HoldsOne /\ ~ ExpiresOne /\ ~ RejectsOne
      BY <3>4 DEF HoldsOne, ExpiresOne, RejectsOne
    <3> QED BY <2>1, <3>2, <3>3, <3>5, <3>6
  <2> QED BY <2>2, <2>3
<1>3. ASSUME NEW p \in Purchases, row'[p].by = "AUTO_WEBHOOK"
      PROVE  link'[p] = "PAID" \/ (p = 1 /\ \E t \in Transfers : bank'[t] = "MATCHED")
  BY <1>0, <1>1, <1>2, <1>3 DEF AutoGrantIsPaid, LinkFinal
<1>4. CASE MatchesOne
  <2>1. PICK t \in Transfers : bank[t] # "MATCHED" /\ bank' = [bank EXCEPT ![t] = "MATCHED"]
    BY <1>4 DEF MatchesOne
  <2>2. row[1].status = "PENDING_PAYMENT" /\ row[1].by # "AUTO_WEBHOOK"
    BY <1>0, <1>4, Purchase1 DEF MatchesOne, AutoConfirmable, Unpaid, RowInv, SourceInv
  <2>3. \A u \in Transfers : bank[u] # "MATCHED"
    BY <1>0, <2>2 DEF AutoGrantIsPaid
  <2>4. row'[1].by = "AUTO_WEBHOOK"
    BY <1>0, <1>4, <2>2, Purchase1, GrantRows DEF MatchesOne
  <2>5. \A u \in Transfers : bank'[u] = "MATCHED" => u = t
    BY <1>0, <2>1, <2>3 DEF TypeOK
  <2> QED BY <1>3, <2>4, <2>5 DEF AutoGrantIsPaid
<1>5. CASE Untouched \/ MovesOne
  <2>1. \A u \in Transfers : bank'[u] = "MATCHED" => bank[u] = "MATCHED"
    BY <1>0, <1>5 DEF Untouched, MovesOne, TypeOK
  <2>2. \A u \in Transfers : bank'[u] = "MATCHED" => row'[1].by = "AUTO_WEBHOOK"
    BY <1>0, <2>1, Purchase1 DEF AutoGrantIsPaid, Keeps, RowInv, SourceInv
  <2> QED BY <1>0, <1>3, <2>1, <2>2 DEF AutoGrantIsPaid
<1> QED BY <1>0, <1>4, <1>5

LEMMA HookNext ==
  ASSUME IInv, [Next]_vars, TypeOK', RowInv', Keeps
  PROVE  HookInv'
<1>0. /\ TypeOK /\ RowInv /\ HookInv /\ LinkFinal
      /\ hook \in [Purchases -> {"none", "sent", "hold", "mark", "accepted"}]
      /\ link \in [Purchases -> OrderStates \cup {"none"}]
      /\ row \in [Purchases -> RowType]
      /\ Made \subseteq Purchases
  BY LinkNext DEF IInv, TypeOK, Made
<1>1. ASSUME UNCHANGED hook PROVE HookInv'
  BY <1>0, <1>1 DEF HookInv, LinkFinal, Keeps
<1>2. ASSUME NEW p \in Purchases, NEW h \in {"sent", "hold", "mark", "accepted"},
             hook' = [hook EXCEPT ![p] = h], link'[p] = "PAID",
             h \in {"mark", "accepted"} => Decided(p)'
      PROVE  HookInv'
  BY <1>0, <1>2 DEF HookInv, LinkFinal, Keeps
<1>3. ASSUME NEW p \in Purchases, ProviderActs(p) PROVE HookInv'
  <2>1. \/ link' = [link EXCEPT ![p] = "PAID"] /\ hook' = [hook EXCEPT ![p] = "sent"]
        \/ hook' = [hook EXCEPT ![p] = hook[p]]
    BY <1>3 DEF ProviderActs, Pay, PayPart, PayBegins, PaySettles, OrderExpires, ProviderMoves
  <2>2. CASE hook' = [hook EXCEPT ![p] = hook[p]]
    BY <1>0, <1>1, <2>2
  <2>3. CASE link' = [link EXCEPT ![p] = "PAID"] /\ hook' = [hook EXCEPT ![p] = "sent"]
    BY <1>0, <1>2, <2>3
  <2> QED BY <2>1, <2>2, <2>3
<1>4. ASSUME NEW p \in Purchases, WebhookStep(p) \/ WebhookDies(p) PROVE HookInv'
  <2>0. hook[p] # "none" /\ link'[p] = "PAID"
    BY <1>0, <1>4 DEF WebhookStep, WebhookConfirm, WebhookHold, WebhookMark, WebhookDies, HookInv
  <2>1. CASE WebhookConfirm(p)
    <3>1. CASE Confirm(p) /\ hook' = [hook EXCEPT ![p] = "mark"]
      <4>1. row'[p].status = "COMPLETED"
        BY <1>0, <3>1, GrantRows DEF Confirm, AutoConfirmable, Unpaid
      <4>2. Decided(p)'
        BY <4>1 DEF RowInv, RowsAgree, Pairs, Decided
      <4> QED BY <1>2, <2>0, <3>1, <4>2
    <3>2. CASE hook' = [hook EXCEPT ![p] = "hold"]
      BY <1>2, <2>0, <3>2
    <3> QED BY <2>1, <3>1, <3>2 DEF WebhookConfirm
  <2>2. CASE WebhookHold(p)
    <3>1. CASE Holdable(p)
      <4>1. row' = Move(p, "EXPIRED", "REVIEW_REQUIRED") /\ hook' = [hook EXCEPT ![p] = "mark"]
        BY <2>2, <3>1 DEF WebhookHold, HoldForReview
      <4>2. Decided(p)'
        BY <1>0, <3>1, <4>1, MoveRows DEF Decided, Holdable, Pairs
      <4> QED BY <1>2, <2>0, <4>1, <4>2
    <3>2. CASE ~ Holdable(p)
      BY <1>2, <2>0, <2>2, <3>2 DEF WebhookHold
    <3> QED BY <3>1, <3>2
  <2>3. CASE WebhookMark(p)
    <3>1. Decided(p)'
      BY <1>0, <2>3 DEF WebhookMark, HookInv, Keeps
    <3> QED BY <1>2, <2>0, <2>3, <3>1 DEF WebhookMark
  <2>4. CASE WebhookDies(p)
    BY <1>2, <2>0, <2>4 DEF WebhookDies
  <2> QED BY <1>4, <2>1, <2>2, <2>3, <2>4 DEF WebhookStep
<1>5. ASSUME NEW r \in Requests, LearnerActs(r) \/ RequestStep(r) \/ RequestDies(r)
      PROVE  HookInv'
  BY <1>1, <1>5 DEF LearnerActs, Create, Resume, Replace, ReplaceAgain, SyncFetch, CancelOrder,
              RequestStep, CheckoutIntent, CheckoutLink, CheckoutStore, SyncWrite, CancelWrite,
              RequestDies
<1>6. ASSUME NEW p \in Purchases, Report(p) \/ AdminConfirm(p) \/ AdminReject(p) \/ Elapse(p)
      PROVE  HookInv'
  BY <1>1, <1>6 DEF Report, AdminConfirm, AdminReject, Elapse
<1>7. ASSUME SweepStep \/ SweepDies PROVE HookInv'
  BY <1>1, <1>7 DEF SweepStep, SweepStart, SweepFetch, SweepWrite, SweepCancel, SweepCancelled,
              SweepExpire, SweepHold, SweepDies
<1>8. ASSUME NEW t \in Transfers, IngestMatch(t) \/ IngestConfirm(t) \/ IngestDies(t)
      PROVE  HookInv'
  BY <1>1, <1>8 DEF IngestMatch, IngestConfirm, IngestDies
<1>9. CASE UNCHANGED vars
  BY <1>1, <1>9 DEF vars
<1> QED BY <1>3, <1>4, <1>5, <1>6, <1>7, <1>8, <1>9 DEF Next

LEMMA SweepNext == IInv /\ [Next]_vars => SweepInv'
<1> SUFFICES ASSUME IInv, [Next]_vars PROVE SweepInv'
  OBVIOUS
<1>0. /\ TypeOK /\ SweepInv /\ LinkFinal
      /\ link \in [Purchases -> OrderStates \cup {"none"}]
      /\ sweep # NoSweep => sweep.pc \in {"fetch", "write", "cancel", "cancelled", "expire", "hold"}
                            /\ sweep.p \in Purchases
      /\ NoSweep.pc = "idle"
  BY LinkNext, SweepFields DEF IInv, TypeOK, SweepType, NoSweep
<1>1. ASSUME UNCHANGED sweep PROVE SweepInv'
  <2>1. CASE sweep = NoSweep
    BY <1>0, <1>1, <2>1 DEF SweepInv
  <2>2. CASE sweep # NoSweep
    BY <1>0, <1>1, <2>2 DEF SweepInv, LinkFinal
  <2> QED BY <2>1, <2>2
<1>2. ASSUME sweep' = NoSweep PROVE SweepInv'
  BY <1>0, <1>2 DEF SweepInv
<1>3. CASE SweepStart
  BY <1>3 DEF SweepStart, SweepInv, NoSweep
<1>4. CASE SweepFetch
  <2>1. sweep # NoSweep /\ sweep.p \in Purchases /\ sweep \in SweepType
    BY <1>0, <1>4 DEF SweepFetch, TypeOK
  <2>2. CASE sweep' = NoSweep
    BY <1>2, <2>2
  <2>3. CASE sweep' = [sweep EXCEPT !.pc = "write", !.val = ToWrite(sweep.p)]
    <3>1. sweep'.pc = "write" /\ sweep'.val = ToWrite(sweep.p) /\ sweep'.p = sweep.p
      BY <2>1, <2>3 DEF SweepType
    <3>2. link' = link
      BY <1>4 DEF SweepFetch
    <3> QED BY <3>1, <3>2 DEF SweepInv, ToWrite, Remote
  <2>4. CASE sweep' = [sweep EXCEPT !.pc = "hold"]
    BY <2>1, <2>4 DEF SweepInv, SweepType
  <2> QED BY <1>4, <2>2, <2>3, <2>4 DEF SweepFetch, SweepTo, SweepDone
<1>5. CASE SweepWrite
  <2>1. sweep # NoSweep /\ sweep.p \in Purchases /\ sweep \in SweepType /\ sweep.pc = "write"
    BY <1>0, <1>5 DEF SweepWrite, TypeOK
  <2>2. \/ sweep' = NoSweep
        \/ sweep' = [sweep EXCEPT !.pc = "hold"]
        \/ sweep' = [sweep EXCEPT !.pc = "cancel"]
        \/ sweep' = [sweep EXCEPT !.pc = "expire"] /\ sweep.val = "CANCELLED"
    <3>1. sweep.val \in OrderStates
      BY <2>1 DEF IInv, ReadInv
    <3> QED BY <1>5, <3>1 DEF SweepWrite, SweepTo, SweepDone, OrderStates
  <2>3. link' = link
    BY <1>5 DEF SweepWrite
  <2> QED BY <1>0, <1>2, <2>1, <2>2, <2>3 DEF SweepInv, SweepType
<1>6. CASE SweepCancel
  <2>1. sweep # NoSweep /\ sweep.p \in Purchases /\ sweep \in SweepType
    BY <1>0, <1>6 DEF SweepCancel, TypeOK
  <2> QED BY <1>0, <1>2, <1>6, <2>1 DEF SweepCancel, SweepTo, SweepDone, SweepInv, SweepType
<1>7. CASE SweepCancelled
  <2>1. sweep # NoSweep /\ sweep.p \in Purchases /\ sweep \in SweepType
    BY <1>0, <1>7 DEF SweepCancelled, TypeOK
  <2> QED BY <1>0, <1>7, <2>1 DEF SweepCancelled, SweepTo, SweepInv, SweepType
<1>8. ASSUME NEW r \in Requests, LearnerActs(r) \/ RequestStep(r) \/ RequestDies(r)
      PROVE  UNCHANGED sweep
  BY <1>8 DEF LearnerActs, Create, Resume, Replace, ReplaceAgain, SyncFetch, CancelOrder,
              RequestStep, CheckoutIntent, CheckoutLink, CheckoutStore, SyncWrite, CancelWrite,
              RequestDies
<1>9. ASSUME NEW p \in Purchases,
             \/ ProviderActs(p) \/ WebhookStep(p) \/ WebhookDies(p)
             \/ Report(p) \/ AdminConfirm(p) \/ AdminReject(p) \/ Elapse(p)
      PROVE  UNCHANGED sweep
  BY <1>9 DEF ProviderActs, Pay, PayPart, PayBegins, PaySettles, OrderExpires, ProviderMoves,
              WebhookStep, WebhookConfirm, WebhookHold, WebhookMark, WebhookDies, Report,
              AdminConfirm, AdminReject, Elapse
<1>10. ASSUME NEW t \in Transfers, IngestMatch(t) \/ IngestConfirm(t) \/ IngestDies(t)
       PROVE  UNCHANGED sweep
  BY <1>10 DEF IngestMatch, IngestConfirm, IngestDies
<1>11. CASE SweepExpire \/ SweepHold \/ SweepDies
  BY <1>2, <1>11 DEF SweepExpire, SweepHold, SweepDies, SweepDone
<1>12. CASE UNCHANGED vars
  BY <1>1, <1>12 DEF vars
<1> QED
  BY <1>1, <1>3, <1>4, <1>5, <1>6, <1>7, <1>8, <1>9, <1>10, <1>11, <1>12 DEF Next, SweepStep

-----------------------------------------------------------------------------
(* The invariant is inductive.                                               *)

LEMMA InitInv == Init => IInv
<1> SUFFICES ASSUME Init PROVE IInv
  OBVIOUS
<1>1. TypeOK /\ ReadInv
  BY TypeInit
<1>2. \A p \in Purchases : row[p] = NoRow \/ (p = 1 /\ row[p] = LegacyRow)
  BY DEF Init
<1>3. RowsAgree /\ OneOpen /\ SourceInv
  BY <1>2, RowFacts DEF RowsAgree, OneOpen, SourceInv, Pairs, Unpaid
<1>4. Dense
  <2>1. CASE row = [p \in Purchases |-> NoRow]
    <3>1. Made = 1 .. 0
      BY <2>1, RowFacts DEF Made
    <3>2. 0 \in 0 .. MaxPurchases
      BY BoundsAssumption
    <3> QED BY <3>1, <3>2 DEF Dense
  <2>2. CASE row = [p \in Purchases |-> IF p = 1 THEN LegacyRow ELSE NoRow]
    <3>1. Made = 1 .. 1
      BY <2>2, RowFacts, Purchase1 DEF Made
    <3>2. 1 \in 0 .. MaxPurchases
      BY BoundsAssumption
    <3> QED BY <3>1, <3>2 DEF Dense
  <2> QED BY <2>1, <2>2 DEF Init
<1>5. HookInv
  BY DEF Init, HookInv
<1>6. AutoGrantIsPaid
  BY <1>2, RowFacts DEF Init, AutoGrantIsPaid
<1>7. SweepInv
  BY DEF Init, SweepInv, NoSweep
<1> QED BY <1>1, <1>3, <1>4, <1>5, <1>6, <1>7 DEF IInv, RowInv

LEMMA StepInv == IInv /\ [Next]_vars => IInv' /\ RowStep /\ Keeps
<1> SUFFICES ASSUME IInv, [Next]_vars PROVE IInv' /\ RowStep /\ Keeps
  OBVIOUS
<1>1. TypeOK' /\ ReadInv'
  BY TypeNext DEF IInv
<1>2. RowStep
  BY StepsRows
<1>3. RowInv' /\ Keeps
  BY <1>1, <1>2, RowNext DEF IInv
<1>4. AutoGrantIsPaid' /\ HookInv' /\ SweepInv'
  BY <1>1, <1>2, <1>3, GrantNext, HookNext, SweepNext
<1> QED BY <1>1, <1>2, <1>3, <1>4 DEF IInv

\* The two statuses of every purchase tell one story, for every number of
\* purchases, requests and transfers.
THEOREM StatusesAgree == Spec => []RowsAgree
<1>1. IInv => RowsAgree
  BY DEF IInv, RowInv
<1> QED BY <1>1, InitInv, StepInv, PTL DEF Spec

\* At most one purchase of the learner can be paid.
THEOREM OnlyOneOpen == Spec => []OneOpen
<1>1. IInv => OneOpen
  BY DEF IInv, RowInv
<1> QED BY <1>1, InitInv, StepInv, PTL DEF Spec

\* A payment that PayOS was told is taken has its purchase granted, in review or
\* decided by an admin, and keeps it so.
THEOREM AcceptedKept == Spec => []AcceptedIsKept
<1>1. IInv => AcceptedIsKept
  BY DEF IInv, HookInv, AcceptedIsKept, Accepted, Decided
<1> QED BY <1>1, InitInv, StepInv, PTL DEF Spec

\* No plan is granted automatically without a paid order or a matched transfer,
\* and no two transfers are matched to one purchase.
THEOREM GrantsArePaid == Spec => []AutoGrantIsPaid
<1>1. IInv => AutoGrantIsPaid
  BY DEF IInv
<1> QED BY <1>1, InitInv, StepInv, PTL DEF Spec

\* What the sweep expires has a closed order, or never had one.
THEOREM SweptIsClosed == Spec => []SweepClosesFirst
<1>1. IInv => SweepClosesFirst
  BY DEF IInv, SweepInv, SweepClosesFirst
<1> QED BY <1>1, InitInv, StepInv, PTL DEF Spec

-----------------------------------------------------------------------------
(* The purchases keep PaymentContract.                                       *)

\* What the contract sees of the purchases.
Stages == [p \in Purchases |-> Stage(p)]

LEMMA StageOf ==
  ASSUME RowsAgree, NEW p \in Purchases
  PROVE  /\ Stage(p) = "none" <=> row[p].status = "none"
         /\ Stage(p) = "open" <=> Unpaid(p)
         /\ Stage(p) = "granted" <=> row[p].payment = "CONFIRMED"
         /\ Stage(p) = "refused" <=> row[p].payment = "REJECTED"
         /\ Stage(p) = "review" <=> row[p].payment = "REVIEW_REQUIRED"
         /\ Stage(p) = "closed" <=> row[p].payment \in {"EXPIRED", "SUPERSEDED"}
  BY DEF RowsAgree, Pairs, Stage, Unpaid

LEMMA StagePrime ==
  ASSUME RowsAgree', NEW p \in Purchases
  PROVE  /\ Stage(p)' = "none" <=> row'[p].status = "none"
         /\ Stage(p)' = "open" <=> row'[p].status = "PENDING_PAYMENT"
         /\ Stage(p)' = "granted" <=> row'[p].payment = "CONFIRMED"
         /\ Stage(p)' = "refused" <=> row'[p].payment = "REJECTED"
         /\ Stage(p)' = "review" <=> row'[p].payment = "REVIEW_REQUIRED"
         /\ Stage(p)' = "closed" <=> row'[p].payment \in {"EXPIRED", "SUPERSEDED"}
  BY DEF RowsAgree, Pairs, Stage

LEMMA ContractInit == Init => Contract!Init
<1> SUFFICES ASSUME Init PROVE Contract!Init
  OBVIOUS
<1>1. RowsAgree
  BY InitInv DEF IInv, RowInv
<1>2. \A p \in Purchases :
        /\ row[p].status \in {"none", "PENDING_PAYMENT"}
        /\ row[p].status = "PENDING_PAYMENT" => p = 1
  BY RowFacts DEF Init
<1>3. \A p \in Purchases : Stage(p) \in {"none", "open"} /\ (Stage(p) = "open" => p = 1)
  BY <1>2 DEF Stage
<1>4. Accepted = {}
  BY DEF Init, Accepted
<1> QED BY <1>3, <1>4 DEF Contract!Init

\* Only a webhook whose purchase is decided is accepted, and it stays so.
LEMMA AcceptedNext ==
  ASSUME TypeOK, HookInv, [Next]_vars
  PROVE  \/ Accepted' = Accepted
         \/ UNCHANGED row /\ \E p \in Purchases : Decided(p) /\ Accepted' = Accepted \cup {p}
<1>0. hook \in [Purchases -> {"none", "sent", "hold", "mark", "accepted"}]
  BY DEF TypeOK
<1>1. ASSUME UNCHANGED hook PROVE Accepted' = Accepted
  BY <1>1 DEF Accepted
<1>2. ASSUME NEW p \in Purchases, hook[p] # "accepted", NEW h \in {"sent", "hold", "mark"},
             hook' = [hook EXCEPT ![p] = h]
      PROVE  Accepted' = Accepted
  BY <1>0, <1>2 DEF Accepted
<1>3. ASSUME NEW p \in Purchases, ProviderActs(p) PROVE Accepted' = Accepted
  <2>1. \/ link[p] # "PAID" /\ hook' = [hook EXCEPT ![p] = "sent"]
        \/ hook' = [hook EXCEPT ![p] = hook[p]]
    BY <1>3 DEF ProviderActs, Pay, PayPart, PayBegins, PaySettles, OrderExpires, ProviderMoves
  <2>2. CASE hook' = [hook EXCEPT ![p] = hook[p]]
    BY <1>0, <1>1, <2>2
  <2>3. CASE link[p] # "PAID" /\ hook' = [hook EXCEPT ![p] = "sent"]
    BY <1>2, <2>3 DEF HookInv
  <2> QED BY <2>1, <2>2, <2>3
<1>4. ASSUME NEW p \in Purchases, WebhookMark(p)
      PROVE  UNCHANGED row /\ Decided(p) /\ Accepted' = Accepted \cup {p}
  BY <1>0, <1>4 DEF WebhookMark, HookInv, Accepted
<1>5. ASSUME NEW p \in Purchases, WebhookConfirm(p) \/ WebhookHold(p) \/ WebhookDies(p)
      PROVE  Accepted' = Accepted
  BY <1>2, <1>5 DEF WebhookConfirm, WebhookHold, WebhookDies
<1>6. ASSUME NEW r \in Requests, LearnerActs(r) \/ RequestStep(r) \/ RequestDies(r)
      PROVE  Accepted' = Accepted
  BY <1>1, <1>6 DEF LearnerActs, Create, Resume, Replace, ReplaceAgain, SyncFetch, CancelOrder,
              RequestStep, CheckoutIntent, CheckoutLink, CheckoutStore, SyncWrite, CancelWrite,
              RequestDies
<1>7. ASSUME NEW p \in Purchases, Report(p) \/ AdminConfirm(p) \/ AdminReject(p) \/ Elapse(p)
      PROVE  Accepted' = Accepted
  BY <1>1, <1>7 DEF Report, AdminConfirm, AdminReject, Elapse
<1>8. ASSUME SweepStep \/ SweepDies PROVE Accepted' = Accepted
  BY <1>1, <1>8 DEF SweepStep, SweepStart, SweepFetch, SweepWrite, SweepCancel, SweepCancelled,
              SweepExpire, SweepHold, SweepDies
<1>9. ASSUME NEW t \in Transfers, IngestMatch(t) \/ IngestConfirm(t) \/ IngestDies(t)
      PROVE  Accepted' = Accepted
  BY <1>1, <1>9 DEF IngestMatch, IngestConfirm, IngestDies
<1>10. CASE UNCHANGED vars
  BY <1>1, <1>10 DEF vars
<1> QED
  BY <1>3, <1>4, <1>5, <1>6, <1>7, <1>8, <1>9, <1>10 DEF Next, WebhookStep

\* Every change of the rows is a step of the contract, or one it does not see.
LEMMA StageNext ==
  ASSUME IInv, IInv', RowStep
  PROVE  \/ Stages' = Stages
         \/ \E p \in Purchases :
              \/ /\ Stage(p) = "none"
                 /\ Stages' = [q \in Purchases |->
                      IF q = p THEN "open" ELSE IF Stage(q) = "open" THEN "closed" ELSE Stage(q)]
              \/ Stage(p) = "open" /\ Stages' = [Stages EXCEPT ![p] = "closed"]
              \/ Stage(p) \in {"open", "closed"} /\ Stages' = [Stages EXCEPT ![p] = "review"]
              \/ Stage(p) \in {"open", "review"} /\ Stages' = [Stages EXCEPT ![p] = "granted"]
              \/ Stage(p) \in {"open", "review"} /\ Stages' = [Stages EXCEPT ![p] = "refused"]
<1>0. TypeOK /\ RowInv /\ RowsAgree /\ RowsAgree'
  BY DEF IInv, RowInv
<1>1. ASSUME NEW p \in Purchases, NEW s, Stage(p)' = s,
             \A q \in Purchases : q # p => row'[q] = row[q]
      PROVE  Stages' = [Stages EXCEPT ![p] = s]
  <2>1. \A q \in Purchases : q # p => Stage(q)' = Stage(q)
    BY <1>1 DEF Stage
  <2> QED BY <1>1, <2>1 DEF Stages
<1>2. CASE UNCHANGED row
  BY <1>2 DEF Stages, Stage
<1>3. CASE MakesOne
  <2>0. PICK n \in Purchases : n = NewId
    BY <1>3 DEF MakesOne
  <2>1. row[n].status = "none"
    BY <1>0, <1>3, <2>0, NewIdFree DEF RowInv, MakesOne
  <2>2. Stage(n) = "none"
    BY <2>1 DEF Stage
  <2>3. row'[n].status = "PENDING_PAYMENT"
    BY <1>3, <2>0, RowFacts DEF MakesOne
  <2>4. Stage(n)' = "open"
    BY <2>3 DEF Stage
  <2>5. ASSUME NEW q \in Purchases, q # n, Unpaid(q)
        PROVE  Stage(q) = "open" /\ Stage(q)' = "closed"
    <3>1. row'[q].payment \in {"EXPIRED", "SUPERSEDED"}
      BY <1>3, <2>0, <2>5 DEF MakesOne
    <3> QED BY <1>0, <2>5, <3>1, StageOf, StagePrime
  <2>6. ASSUME NEW q \in Purchases, q # n, ~ Unpaid(q)
        PROVE  Stage(q) # "open" /\ Stage(q)' = Stage(q)
    <3>1. row'[q] = row[q]
      BY <1>3, <2>0, <2>6 DEF MakesOne
    <3>2. Stage(q)' = Stage(q)
      BY <3>1 DEF Stage
    <3> QED BY <1>0, <2>6, <3>2, StageOf
  <2>7. \A q \in Purchases : Stage(q)' =
          IF q = n THEN "open" ELSE IF Stage(q) = "open" THEN "closed" ELSE Stage(q)
    BY <2>4, <2>5, <2>6
  <2>8. Stages' = [q \in Purchases |->
          IF q = n THEN "open" ELSE IF Stage(q) = "open" THEN "closed" ELSE Stage(q)]
    BY <2>7 DEF Stages
  <2> QED BY <2>2, <2>8
<1>4. CASE ReportsOne
  <2>1. PICK p \in Purchases : Unpaid(p) /\ row' = [row EXCEPT ![p].payment = "REPORTED"]
    BY <1>4 DEF ReportsOne
  <2>2. row'[p].status = "PENDING_PAYMENT" /\ \A q \in Purchases : q # p => row'[q] = row[q]
    BY <1>0, <2>1, ReportRows
  <2>3. \A q \in Purchases : Stage(q)' = Stage(q)
    BY <2>1, <2>2 DEF Stage, Unpaid
  <2> QED BY <2>3 DEF Stages
<1>5. CASE GrantsOne
  <2>1. PICK p \in Purchases, by \in {"ADMIN", "AUTO_WEBHOOK"} :
          (AutoConfirmable(p) \/ AdminConfirmable(p)) /\ Grant(p, by)
    BY <1>5 DEF GrantsOne
  <2>2. row[p].status # "none" /\ Stage(p) \in {"open", "review"}
    BY <1>0, <2>1, StageOf DEF AutoConfirmable, AdminConfirmable, Unpaid
  <2>3. row'[p].payment = "CONFIRMED" /\ \A q \in Purchases : q # p => row'[q] = row[q]
    BY <1>0, <2>1, <2>2, GrantRows
  <2>4. Stage(p)' = "granted"
    BY <1>0, <2>3, StagePrime
  <2> QED BY <1>1, <2>2, <2>3, <2>4
<1>6. CASE HoldsOne
  <2>1. PICK p \in Purchases : Holdable(p) /\ row' = Move(p, "EXPIRED", "REVIEW_REQUIRED")
    BY <1>6 DEF HoldsOne
  <2>2. row[p].status \in {"PENDING_PAYMENT", "EXPIRED"} /\ Stage(p) \in {"open", "closed"}
    BY <1>0, <2>1, StageOf DEF Holdable, Unpaid, RowsAgree, Pairs
  <2>3. /\ row'[p].payment = "REVIEW_REQUIRED"
        /\ \A q \in Purchases : q # p => row'[q] = row[q]
    BY <1>0, <2>1, <2>2, MoveRows DEF Pairs
  <2>4. Stage(p)' = "review"
    BY <1>0, <2>3, StagePrime
  <2> QED BY <1>1, <2>2, <2>3, <2>4
<1>7. CASE ExpiresOne
  <2>1. PICK p \in Purchases : Unpaid(p) /\ row' = Move(p, "EXPIRED", "EXPIRED")
    BY <1>7 DEF ExpiresOne
  <2>2. row[p].status = "PENDING_PAYMENT" /\ Stage(p) = "open"
    BY <1>0, <2>1, StageOf DEF Unpaid
  <2>3. row'[p].payment = "EXPIRED" /\ \A q \in Purchases : q # p => row'[q] = row[q]
    BY <1>0, <2>1, <2>2, MoveRows DEF Pairs
  <2>4. Stage(p)' = "closed"
    BY <1>0, <2>3, StagePrime
  <2> QED BY <1>1, <2>2, <2>3, <2>4
<1>8. CASE RejectsOne
  <2>1. PICK p \in Purchases : row[p].payment \in {"REPORTED", "REVIEW_REQUIRED"}
                              /\ row' = Move(p, "REJECTED", "REJECTED")
    BY <1>8 DEF RejectsOne
  <2>2. row[p].status \in {"PENDING_PAYMENT", "EXPIRED"} /\ Stage(p) \in {"open", "review"}
    BY <1>0, <2>1, StageOf DEF RowsAgree, Pairs, Unpaid
  <2>3. row'[p].payment = "REJECTED" /\ \A q \in Purchases : q # p => row'[q] = row[q]
    BY <1>0, <2>1, <2>2, MoveRows DEF Pairs
  <2>4. Stage(p)' = "refused"
    BY <1>0, <2>3, StagePrime
  <2> QED BY <1>1, <2>2, <2>3, <2>4
<1> QED BY <1>2, <1>3, <1>4, <1>5, <1>6, <1>7, <1>8 DEF RowStep

LEMMA ContractNext ==
  IInv /\ IInv' /\ [Next]_vars => [Contract!Next]_<<Stages, Accepted>>
<1> SUFFICES ASSUME IInv, IInv', [Next]_vars PROVE [Contract!Next]_<<Stages, Accepted>>
  OBVIOUS
<1>0. TypeOK /\ HookInv /\ RowsAgree /\ RowStep
  BY StepsRows DEF IInv, RowInv
<1>1. \A p \in Purchases : Stages[p] = Stage(p)
  BY DEF Stages
<1>2. CASE UNCHANGED row /\ \E p \in Purchases : Decided(p) /\ Accepted' = Accepted \cup {p}
  <2>1. PICK p \in Purchases : Decided(p) /\ Accepted' = Accepted \cup {p}
    BY <1>2
  <2>2. Stages' = Stages
    BY <1>2 DEF Stages, Stage
  <2>3. Stage(p) \in {"granted", "review", "refused"}
    BY <1>0, <2>1, StageOf DEF Decided
  <2> QED BY <1>1, <2>1, <2>2, <2>3 DEF Contract!Next, Contract!Acknowledge, Stages
<1>3. CASE Accepted' = Accepted
  <2>1. CASE Stages' = Stages
    BY <1>3, <2>1
  <2>2. CASE Stages' # Stages
    <3>1. PICK p \in Purchases :
              \/ /\ Stage(p) = "none"
                 /\ Stages' = [q \in Purchases |->
                      IF q = p THEN "open" ELSE IF Stage(q) = "open" THEN "closed" ELSE Stage(q)]
              \/ Stage(p) = "open" /\ Stages' = [Stages EXCEPT ![p] = "closed"]
              \/ Stage(p) \in {"open", "closed"} /\ Stages' = [Stages EXCEPT ![p] = "review"]
              \/ Stage(p) \in {"open", "review"} /\ Stages' = [Stages EXCEPT ![p] = "granted"]
              \/ Stage(p) \in {"open", "review"} /\ Stages' = [Stages EXCEPT ![p] = "refused"]
      BY <1>0, <2>2, StageNext
    <3>2. \/ Contract!Open(p) \/ Contract!Close(p) \/ Contract!Hold(p) \/ Contract!Grant(p)
          \/ Contract!Refuse(p)
      BY <1>1, <1>3, <3>1 DEF Contract!Open, Contract!Close, Contract!Hold, Contract!Grant,
           Contract!Refuse, Contract!Becomes, Stages
    <3> QED BY <3>2 DEF Contract!Next
  <2> QED BY <2>1, <2>2
<1> QED BY <1>0, <1>2, <1>3, AcceptedNext

\* The shop keeps the payment contract with every learner: no second open
\* purchase, no grant taken back, late money held for review, and nothing
\* acknowledged that is not kept.
THEOREM PurchasesHonourContract == Spec => HonoursContract
<1> QED BY InitInv, StepInv, ContractInit, ContractNext, PTL
     DEF Spec, HonoursContract, Contract!Spec, Stages

=============================================================================
