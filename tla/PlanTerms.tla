------------------------------ MODULE PlanTerms ------------------------------
(* The plans learners hold over time: what a confirmed purchase, a trial, an   *)
(* admin or a referral reward adds to them, shortens or ends.                  *)
(*                                                                             *)
(* Every operation locks the User row of the learner it is about and is one    *)
(* transaction. One of them reaches further: the confirmation of an invited    *)
(* learner's first purchase also rewards the friend, whose row it does not     *)
(* lock. A confirmation is therefore three steps: what it reads first, what it *)
(* reads last, and the commit that makes its writes visible. The others are    *)
(* one action each. A transaction is short against the unit of time.           *)
EXTENDS Integers, FiniteSets

CONSTANTS
  Learners,
  Friends,      \* pairs <<l, m>>: l was given the invite code of m
  Purchases,
  Owner,        \* the learner of each purchase
  AdminKeys,    \* idempotency keys of the admins' requests
  PlanDays,     \* length of a sold or granted plan
  RewardDays,   \* REFERRAL_REWARD_DAYS
  TrialDays,    \* TRIAL_DAYS
  Ratio,        \* the daily price of PRO over that of PLUS
  MaxDay        \* last day of the model (bound)

ASSUME LengthsAssumption ==
  /\ PlanDays \in Nat \ {0} /\ RewardDays \in Nat \ {0} /\ TrialDays \in Nat \ {0}
  /\ Ratio \in Nat \ {0} /\ MaxDay \in Nat
ASSUME OwnerAssumption == Owner \in [Purchases -> Learners]
ASSUME FriendsAssumption ==
  Friends \subseteq Learners \X Learners /\ \A l \in Learners : <<l, l>> \notin Friends

VARIABLES
  day,       \* today
  term,      \* the Subscription made for each cause
  sold,      \* purchases that are COMPLETED
  referral,  \* what the Referral of each invited learner says
  rewards,   \* the REFERRAL_REWARD events
  used,      \* idempotency keys with an event
  tx         \* the confirmation under way for each learner

vars == <<day, term, sold, referral, rewards, used, tx>>

-----------------------------------------------------------------------------
(* Data.                                                                     *)

\* A Subscription is known by what it was made for: a purchase (planPurchaseId is
\* unique), an admin's request, the trial of a learner, or the week a friend is
\* given for the learner he invited.
Causes ==
  ({"sale"} \X Purchases) \cup ({"grant"} \X AdminKeys)
    \cup ({"trial"} \X Learners) \cup ({"week"} \X Learners)

Plans   == {"PLUS", "PRO"}
NoOne   == "no one"
ASSUME NoOneAssumption == NoOne \notin Learners
NoTerm  == [owner |-> NoOne, plan |-> "PLUS", status |-> "none", from |-> 0, to |-> 0,
            grown |-> FALSE]
\* grown: an ADMIN_EXTENDED or REFERRAL_REWARD event moved its end.
TermType ==
  [owner : Learners, plan : Plans, status : {"ACTIVE", "REVOKED"}, from : Nat, to : Nat,
   grown : BOOLEAN]

NewTerm(l, plan, from, to) ==
  [owner |-> l, plan |-> plan, status |-> "ACTIVE", from |-> from, to |-> to, grown |-> FALSE]

NoReferral   == [by |-> NoOne, status |-> "none"]
ReferralType == [by : Learners, status : {"PENDING", "REWARDED"}]

RewardType == [of : Learners, for : Learners, cause : Causes, end : Nat]

\* ends: the plan an upgrade ends; gift: where the friend's days go; quits: his
\* running trial, which his week ends. An admin's extension is the other kind.
Nowhere    == <<"nowhere", NoOne>>
NoTx       == [pc |-> "idle"]
SaleTxType ==
  [pc : {"check", "commit"}, p : Purchases, plan : Plans, from : Nat, to : Nat,
   ends : Causes \cup {Nowhere}, gift : Causes \cup {Nowhere}, until : Nat,
   quits : Causes \cup {Nowhere}]
GrowTxType == [pc : {"extend"}, cause : Causes, until : Nat]

Init ==
  /\ day = 0
  /\ term = [k \in Causes |-> NoTerm]
  /\ sold = {} /\ referral = [l \in Learners |-> NoReferral] /\ rewards = {}
  /\ used = {} /\ tx = [l \in Learners |-> NoTx]

-----------------------------------------------------------------------------
(* Reading the plans of a learner.                                           *)

Of(l)      == {k \in Causes : term[k].owner = l}
Lasting(l) == {k \in Of(l) : term[k].status = "ACTIVE" /\ term[k].to > day}

\* paidTerms, and the terms rewardPlacement looks at: a trial is not a paid plan.
Paid(l)    == {k \in Lasting(l) : k[1] # "trial"}
Running(l) == {k \in Paid(l) : term[k].from <= day}
Queued(l)  == {k \in Paid(l) : term[k].from > day}

Rank == [PLUS |-> 1, PRO |-> 2]
Converted(days) == days \div Ratio   \* upgradeConversionMs

\* A place in time for a purchase: from, to, and the plan that it ends.
Place(from, to, ends) == [from |-> from, to |-> to, ends |-> ends]

Fresh == Place(day, day + PlanDays, Nowhere)

\* One plan k runs: the same plan is queued after it, a higher one takes its place
\* and its days, a lower one is refused.
Beside(k, plan) ==
  IF term[k].plan = plan THEN {Place(term[k].to, term[k].to + PlanDays, Nowhere)}
  ELSE IF Rank[plan] > Rank[term[k].plan]
    THEN {Place(day, day + PlanDays + Converted(term[k].to - day), k)}
  ELSE {}

\* MUTANT of Placements: queued plans are not looked at.
PlacementsAgain(l, plan) ==
  IF Cardinality(Running(l)) > 1 THEN {}
  ELSE IF Running(l) = {} THEN {Fresh} ELSE UNION {Beside(k, plan) : k \in Running(l)}

\* decideRenewal: the place it gives, or none when it refuses.
Placements(l, plan) ==
  IF Queued(l) # {} \/ Cardinality(Running(l)) > 1 THEN {}
  ELSE IF Running(l) = {} THEN {Fresh} ELSE UNION {Beside(k, plan) : k \in Running(l)}

-----------------------------------------------------------------------------
(* confirmPurchaseInTransaction and ReferralService.                         *)

Unlocked(l) == tx[l] = NoTx

\* A learner enters the code of the friend who invited her: once, and before she
\* has paid.
Claim(l, m) ==
  /\ Unlocked(l) /\ <<l, m>> \in Friends
  /\ referral[l] = NoReferral /\ \A p \in sold : Owner[p] # l
  /\ referral' = [referral EXCEPT ![l] = [by |-> m, status |-> "PENDING"]]
  /\ UNCHANGED <<day, term, sold, rewards, used, tx>>

\* The plans are decided again at confirmation.
ConfirmStart(p, plan) ==
  /\ Unlocked(Owner[p]) /\ p \notin sold
  /\ \E x \in Placements(Owner[p], plan) :
       tx' = [tx EXCEPT ![Owner[p]] =
               [pc |-> "check", p |-> p, plan |-> plan, from |-> x.from, to |-> x.to,
                ends |-> x.ends, gift |-> Nowhere, until |-> 0, quits |-> Nowhere]]
  /\ UNCHANGED <<day, term, sold, referral, rewards, used>>

\* existingSubscription, past what the transaction has ended itself.
Overlapped(l) ==
  \E k \in Of(l) \ {tx[l].ends, <<"trial", l>>} :
    term[k].status = "ACTIVE" /\ term[k].from < tx[l].to /\ term[k].to > tx[l].from

\* MUTANT of FirstPayment: it is not asked whether the referral was rewarded.
FirstPaymentAgain(l) == referral[l] # NoReferral

\* rewardOnFirstPayment finds a referral to reward.
FirstPayment(l) == referral[l].status = "PENDING" /\ \A q \in sold : Owner[q] # l

\* rewardPlacement for a friend m: his paid plan that ends last, ...
Last(m) == {k \in Paid(m) : \A j \in Paid(m) : term[j].to <= term[k].to}

\* ... and with no paid plan a week starts, and a running trial ends.
Trial(m) == IF <<"trial", m>> \in Lasting(m) THEN <<"trial", m>> ELSE Nowhere

Ready(l, gift, until, quits) ==
  tx' = [tx EXCEPT ![l].pc = "commit", ![l].gift = gift, ![l].until = until, ![l].quits = quits]

\* The last reads. A plan that overlaps after all aborts the transaction, when a
\* webhook, a poll or an admin confirms.
ConfirmCheck(l) ==
  /\ tx[l].pc = "check"
  /\ LET m == referral[l].by IN
     \/ Overlapped(l) /\ tx' = [tx EXCEPT ![l] = NoTx]
     \/ ~ Overlapped(l) /\ ~ FirstPayment(l) /\ Ready(l, Nowhere, 0, Nowhere)
     \/ /\ ~ Overlapped(l) /\ FirstPayment(l)
        /\ \E k \in Last(m) : Ready(l, k, term[k].to + RewardDays, Nowhere)
     \/ /\ ~ Overlapped(l) /\ FirstPayment(l) /\ Paid(m) = {}
        /\ Ready(l, <<"week", l>>, day + RewardDays, Trial(m))
  /\ UNCHANGED <<day, term, sold, referral, rewards, used>>

\* MUTANT of EndToday: the plan runs on.
RunsOn(k) == term[k]

EndToday(k) == [term[k] EXCEPT !.to = day]

\* What the confirmation of l has ended before it looks for an overlap: the lower
\* plan of an upgrade, and a running trial.
EndedBefore(l, k) == k = tx[l].ends \/ (k = <<"trial", l>> /\ k \in Lasting(l))

\* ingest confirms inside its own transaction, and catches the refusal there: the
\* transfer is put under review, and what was ended is committed without a new plan.
ConfirmRefused(l) ==
  /\ tx[l].pc = "check" /\ Overlapped(l)
  /\ term' = [k \in Causes |-> IF EndedBefore(l, k) THEN EndToday(k) ELSE term[k]]
  /\ tx' = [tx EXCEPT ![l] = NoTx]
  /\ UNCHANGED <<day, sold, referral, rewards, used>>

\* What the commit makes of the term of cause k. The learner's own days go to the
\* plan she bought, which ends last.
Committed(l, k) ==
  LET x == tx[l]
      gifted == x.gift # Nowhere
  IN  IF k = <<"sale", x.p>>
        THEN [NewTerm(l, x.plan, x.from, IF gifted THEN x.to + RewardDays ELSE x.to)
               EXCEPT !.grown = gifted]
      ELSE IF EndedBefore(l, k) \/ k = x.quits THEN EndToday(k)
      ELSE IF k = x.gift /\ k = <<"week", l>>
        THEN NewTerm(referral[l].by, "PLUS", day, x.until)
      ELSE IF k = x.gift
        THEN [term[k] EXCEPT !.to = x.until, !.grown = TRUE]
      ELSE term[k]

Event(l, m, k, end) == [of |-> l, for |-> m, cause |-> k, end |-> end]

ConfirmCommit(l) ==
  /\ tx[l].pc = "commit"
  /\ term' = [k \in Causes |-> Committed(l, k)]
  /\ sold' = sold \cup {tx[l].p}
  /\ IF tx[l].gift = Nowhere THEN UNCHANGED <<referral, rewards>>
     ELSE /\ referral' = [referral EXCEPT ![l].status = "REWARDED"]
          /\ rewards' = rewards \cup
               {Event(l, l, <<"sale", tx[l].p>>, tx[l].to + RewardDays),
                Event(l, referral[l].by, tx[l].gift, tx[l].until)}
  /\ tx' = [tx EXCEPT ![l] = NoTx]
  /\ UNCHANGED <<day, used>>

\* The server stops, or the transaction fails or times out.
Rollback(l) ==
  /\ tx[l] # NoTx
  /\ tx' = [tx EXCEPT ![l] = NoTx]
  /\ UNCHANGED <<day, term, sold, referral, rewards, used>>

-----------------------------------------------------------------------------
(* Trials and admins.                                                        *)

\* grantPlusTrialOnce: only to an account that never had a plan.
GrantTrial(l) ==
  /\ Unlocked(l) /\ Of(l) = {}
  /\ term' = [term EXCEPT ![<<"trial", l>>] = NewTerm(l, "PLUS", day, day + TrialDays)]
  /\ UNCHANGED <<day, sold, referral, rewards, used, tx>>

\* grantSubscription. A key with an event is answered from it, or fails.
AdminGrant(key, l, plan) ==
  /\ Unlocked(l) /\ key \notin used
  /\ Lasting(l) = {}
  /\ term' = [term EXCEPT ![<<"grant", key>>] = NewTerm(l, plan, day, day + PlanDays)]
  /\ used' = used \cup {key}
  /\ UNCHANGED <<day, sold, referral, rewards, tx>>

\* extendSubscription: it reads the end, and writes one that is days later.
AdminExtend(k) ==
  LET l == term[k].owner IN
  /\ l \in Learners /\ Unlocked(l) /\ k \in Lasting(l)
  /\ tx' = [tx EXCEPT ![l] = [pc |-> "extend", cause |-> k, until |-> term[k].to + PlanDays]]
  /\ UNCHANGED <<day, term, sold, referral, rewards, used>>

AdminExtended(l, key) ==
  /\ tx[l].pc = "extend" /\ key \notin used
  /\ term' = [term EXCEPT ![tx[l].cause].to = tx[l].until, ![tx[l].cause].grown = TRUE]
  /\ used' = used \cup {key}
  /\ tx' = [tx EXCEPT ![l] = NoTx]
  /\ UNCHANGED <<day, sold, referral, rewards>>

\* revokeSubscription.
AdminRevoke(k, key) ==
  LET l == term[k].owner IN
  /\ l \in Learners /\ Unlocked(l) /\ key \notin used
  /\ k \in Lasting(l)
  /\ term' = [term EXCEPT ![k].status = "REVOKED"]
  /\ used' = used \cup {key}
  /\ UNCHANGED <<day, sold, referral, rewards, tx>>

Tick ==
  /\ day < MaxDay /\ \A l \in Learners : Unlocked(l)
  /\ day' = day + 1
  /\ UNCHANGED <<term, sold, referral, rewards, used, tx>>

Next ==
  \/ \E l \in Learners :
       \/ ConfirmCheck(l) \/ ConfirmRefused(l) \/ ConfirmCommit(l) \/ Rollback(l)
       \/ GrantTrial(l)
       \/ \E m \in Learners : Claim(l, m)
       \/ \E key \in AdminKeys :
            AdminExtended(l, key) \/ \E plan \in Plans : AdminGrant(key, l, plan)
  \/ \E p \in Purchases, plan \in Plans : ConfirmStart(p, plan)
  \/ \E k \in Causes : AdminExtend(k) \/ \E key \in AdminKeys : AdminRevoke(k, key)
  \/ Tick

Spec == Init /\ [][Next]_vars

-----------------------------------------------------------------------------
(* Properties.                                                               *)

\* Types: the subscriptions, referrals and events, and every transaction under way.
TypeOK ==
  /\ day \in 0 .. MaxDay
  /\ term \in [Causes -> TermType \cup {NoTerm}]
  /\ sold \subseteq Purchases
  /\ referral \in [Learners -> ReferralType \cup {NoReferral}]
  /\ rewards \subseteq RewardType
  /\ used \subseteq AdminKeys
  /\ tx \in [Learners -> SaleTxType \cup GrowTxType \cup {NoTx}]

Active(k)      == term[k].status = "ACTIVE"
Overlap(j, k)  == term[j].from < term[k].to /\ term[k].from < term[j].to
SameOwner(j,k) == j # k /\ term[j].owner = term[k].owner

\* Plans a learner was sold, given or tries never overlap, through renewals,
\* upgrades and revocations, as long as nothing moved their ends later.
SoldWithoutOverlap ==
  \A j, k \in Causes :
    /\ SameOwner(j, k) /\ Active(j) /\ Active(k)
    /\ j[1] # "week" /\ k[1] # "week" /\ ~ term[j].grown /\ ~ term[k].grown
    => ~ Overlap(j, k)

\* At most one plan waits to begin ("one queued plan at most"), rewards or not.
OneQueued ==
  \A l \in Learners : \A j, k \in Queued(l) : j = k

\* A purchase is completed with its plan, in one commit.
SoldIsGiven ==
  \A p \in Purchases : p \in sold <=> term[<<"sale", p>>].owner = Owner[p]

\* A referral rewards each side once, with the first payment ("Runs once per
\* referral"), and both or neither.
RewardedOnce ==
  /\ \A e, f \in rewards : e.of = f.of /\ e.for = f.for => e = f
  /\ \A l \in Learners :
       referral[l].status = "REWARDED" <=>
         \E e, f \in rewards : e.of = l /\ e.for = l /\ f.of = l /\ f.for = referral[l].by

\* REFUTED: every reward moves the end of a plan ("both get 7 more days"): no two
\* rewards put the end of one plan at the same day.
RewardsAdd ==
  \A e, f \in rewards : e.cause = f.cause /\ e.end = f.end => e = f

\* REFUTED: the days of a plan are cut short only for a plan that begins in the same
\* commit.
EndedForAPlan ==
  [][\A k \in Causes : term'[k].to < term[k].to =>
       \E j \in Causes : term[j] = NoTerm /\ term'[j].owner = term[k].owner]_vars

\* REFUTED: at most one plan is in force (resolveEffectivePlan throws otherwise).
OneInForce ==
  \A l \in Learners : \A j, k \in Lasting(l) :
    term[j].from <= day /\ term[k].from <= day => j = k

=============================================================================
