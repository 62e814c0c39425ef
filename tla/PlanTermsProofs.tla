--------------------------- MODULE PlanTermsProofs ---------------------------
(* For any learners, purchases, friends, plan lengths and number of days: what  *)
(* was sold does not overlap, one plan waits at most, a referral pays once.     *)
EXTENDS PlanTerms, TLAPS

-----------------------------------------------------------------------------
(* The inductive invariant.                                                  *)

Made(k)   == term[k] # NoTerm
Waiting(k) == term[k].status = "ACTIVE" /\ k[1] # "trial" /\ term[k].from > day

\* A plan ends no earlier than it begins, and only a sold one begins later.
TermInv ==
  \A k \in Causes : Made(k) =>
    /\ term[k].from <= term[k].to
    /\ k[1] # "sale" => term[k].from <= day

\* A purchase has its plan exactly when it is completed.
SaleInv ==
  \A p \in Purchases :
    IF p \in sold THEN term[<<"sale", p>>].owner = Owner[p] ELSE ~ Made(<<"sale", p>>)

\* OneQueued, told from the beginnings only.
OneWaiting ==
  \A j, k \in Causes :
    Made(j) /\ Made(k) /\ term[j].owner = term[k].owner /\ Waiting(j) /\ Waiting(k) => j = k

\* A cause whose plan begins when it did while the server works with it.
Settled(k) == k \in Causes /\ Made(k) /\ (k[1] = "sale" => k[2] \in sold)

\* A plan that a transaction is about to end.
Ending(k) == Settled(k) /\ term[k].from <= day /\ day <= term[k].to

\* A plan whose end a transaction is about to write.
Moving(k, until) == Settled(k) /\ day < until /\ term[k].from <= until

\* Plans nobody moved the end of.
AsSold(k) == Made(k) /\ Active(k) /\ k[1] # "week" /\ ~ term[k].grown

\* What a confirmation decided is still so, although the friend's row is not locked.
Decided(l) ==
  /\ Owner[tx[l].p] = l /\ tx[l].p \notin sold
  /\ day <= tx[l].from /\ tx[l].from <= tx[l].to
  /\ tx[l].from > day => \A k \in Causes : Made(k) /\ Waiting(k) => term[k].owner # l
  /\ tx[l].ends # Nowhere => Ending(tx[l].ends) /\ tx[l].from = day

\* What it read last: its place is free, and where the days of a first payment go.
Checked(l) ==
  /\ \A k \in Causes \ {tx[l].ends, <<"trial", l>>} :
       AsSold(k) /\ term[k].owner = l => ~ (term[k].from < tx[l].to /\ tx[l].from < term[k].to)
  /\ tx[l].gift # Nowhere =>
       /\ referral[l].status = "PENDING" /\ day < tx[l].until
       /\ tx[l].gift # <<"week", l>> => Moving(tx[l].gift, tx[l].until)
  /\ tx[l].quits # Nowhere => Ending(tx[l].quits) /\ tx[l].quits[1] = "trial"

TxInv ==
  \A l \in Learners :
    /\ tx[l].pc \in {"check", "commit"} => Decided(l)
    /\ tx[l].pc = "commit" => Checked(l)
    /\ tx[l].pc = "extend" => Moving(tx[l].cause, tx[l].until)

\* Events are of a rewarded referral, and for its two sides.
ReferralInv ==
  /\ \A l \in Learners : referral[l] # NoReferral => referral[l].by # l
  /\ \A e \in rewards :
       referral[e.of].status = "REWARDED" /\ e.for \in {e.of, referral[e.of].by}

IInv ==
  /\ TypeOK /\ TermInv /\ SaleInv /\ OneWaiting /\ TxInv /\ ReferralInv
  /\ SoldWithoutOverlap /\ RewardedOnce

-----------------------------------------------------------------------------
(* Causes, plans and transactions.                                           *)

LEMMA CauseFacts ==
  /\ \A p \in Purchases : <<"sale", p>> \in Causes
  /\ \A key \in AdminKeys : <<"grant", key>> \in Causes
  /\ \A l \in Learners : <<"trial", l>> \in Causes /\ <<"week", l>> \in Causes
  /\ Nowhere \notin Causes
  /\ \A k \in Causes : k[1] = "sale" => k[2] \in Purchases /\ k = <<"sale", k[2]>>
<1>1. Nowhere \notin Causes
  BY DEF Causes, Nowhere
<1>2. ASSUME NEW k \in Causes, k[1] = "sale" PROVE k[2] \in Purchases /\ k = <<"sale", k[2]>>
  <2>1. k \in {"sale"} \X Purchases
    BY <1>2 DEF Causes
  <2> QED BY <2>1
<1> QED BY <1>1, <1>2 DEF Causes

LEMMA TermFacts ==
  ASSUME TypeOK, NEW k \in Causes
  PROVE  /\ Made(k) => /\ term[k] \in TermType /\ term[k].owner \in Learners
                       /\ term[k].from \in Nat /\ term[k].to \in Nat /\ term[k].grown \in BOOLEAN
         /\ ~ Made(k) => term[k].owner = NoOne /\ term[k].status = "none"
         /\ Made(k) <=> term[k].owner \in Learners
<1>1. term[k] \in TermType \cup {NoTerm}
  BY DEF TypeOK
<1>2. term[k] \in TermType => term[k].owner \in Learners /\ term[k] # NoTerm
  BY NoOneAssumption DEF TermType, NoTerm
<1>3. NoTerm.owner = NoOne /\ NoTerm.status = "none"
  BY DEF NoTerm
<1>4. CASE term[k] = NoTerm
  BY <1>3, <1>4, NoOneAssumption DEF Made
<1>5. CASE term[k] \in TermType
  BY <1>2, <1>5 DEF Made, TermType
<1> QED BY <1>1, <1>4, <1>5

LEMMA TxFacts ==
  ASSUME TypeOK, NEW l \in Learners
  PROVE  /\ tx[l] = NoTx => tx[l].pc = "idle"
         /\ tx[l].pc \in {"check", "commit"} =>
              /\ tx[l] \in SaleTxType /\ tx[l].p \in Purchases /\ tx[l].plan \in Plans
              /\ tx[l].from \in Nat /\ tx[l].to \in Nat /\ tx[l].until \in Nat
              /\ tx[l].ends \in Causes \cup {Nowhere} /\ tx[l].gift \in Causes \cup {Nowhere}
              /\ tx[l].quits \in Causes \cup {Nowhere}
         /\ tx[l].pc = "extend" =>
              tx[l] \in GrowTxType /\ tx[l].cause \in Causes /\ tx[l].until \in Nat
         /\ tx[l].pc \in {"idle", "check", "commit", "extend"}
<1>1. tx[l] \in SaleTxType \cup GrowTxType \cup {NoTx}
  BY DEF TypeOK
<1>2. tx[l] \in SaleTxType => tx[l].pc \in {"check", "commit"}
  BY DEF SaleTxType
<1>3. tx[l] \in GrowTxType => tx[l].pc = "extend"
  BY DEF GrowTxType
<1>4. NoTx.pc = "idle"
  BY DEF NoTx
<1> QED BY <1>1, <1>2, <1>3, <1>4 DEF SaleTxType, GrowTxType

LEMMA ReferralFacts ==
  ASSUME TypeOK, NEW l \in Learners
  PROVE  /\ referral[l].status \in {"PENDING", "REWARDED"} => referral[l].by \in Learners /\ referral[l] # NoReferral
         /\ referral[l] # NoReferral => referral[l] \in ReferralType
         /\ NoReferral.status = "none"
BY DEF TypeOK, ReferralType, NoReferral

LEMMA DayFacts ==
  ASSUME TypeOK PROVE day \in Nat /\ PlanDays \in Nat /\ RewardDays \in Nat /\ TrialDays \in Nat
                      /\ PlanDays > 0 /\ RewardDays > 0 /\ TrialDays > 0
BY LengthsAssumption DEF TypeOK

LEMMA PlusIsPlan == "PLUS" \in Plans
BY DEF Plans

\* A plan of a learner lasts and is known.
LEMMA LastingFacts ==
  ASSUME TypeOK, SaleInv, NEW l \in Learners, NEW k \in Lasting(l)
  PROVE  k \in Causes /\ Settled(k) /\ term[k].owner = l /\ term[k].to > day /\ Active(k)
<1>1. k \in Causes /\ term[k].owner = l /\ term[k].status = "ACTIVE" /\ term[k].to > day
  BY DEF Lasting, Of
<1>2. Made(k)
  BY <1>1, TermFacts
<1>3. k[1] = "sale" => k[2] \in sold
  BY <1>1, <1>2, CauseFacts DEF SaleInv
<1> QED BY <1>1, <1>2, <1>3 DEF Settled, Active

-----------------------------------------------------------------------------
(* What others' steps leave of a transaction.                                *)

\* A plan that a transaction works with: it stays, begins no later than it did or
\* today, and does not end before today if it did not.
Stays(k) ==
  /\ Made(k)'
  /\ term'[k].from = term[k].from \/ term'[k].from = day
  /\ day <= term[k].to => day <= term'[k].to

\* The plans as sold only shrink, and no plan of m comes to wait.
Shrinks(k, m) ==
  /\ AsSold(k)' /\ term'[k].owner = m =>
       AsSold(k) /\ term[k].owner = m /\ term'[k].from = term[k].from /\ term'[k].to <= term[k].to
  /\ Made(k)' /\ Waiting(k)' /\ term'[k].owner = m => Made(k) /\ Waiting(k) /\ term[k].owner = m

LEMMA TxKept ==
  ASSUME IInv, TypeOK', NEW m \in Learners, tx'[m] = tx[m], UNCHANGED day, sold \subseteq sold',
         \A p \in sold' \ sold : Owner[p] # m,
         referral'[m] = referral[m],
         \A k \in Causes : (Settled(k) => Stays(k)) /\ Shrinks(k, m)
  PROVE  /\ tx'[m].pc \in {"check", "commit"} => Decided(m)'
         /\ tx'[m].pc = "commit" => Checked(m)'
         /\ tx'[m].pc = "extend" => Moving(tx[m].cause, tx[m].until)'
<1>0. /\ TypeOK /\ day \in Nat
      /\ tx[m].pc \in {"check", "commit"} => Decided(m)
      /\ tx[m].pc = "commit" => Checked(m)
      /\ tx[m].pc = "extend" => Moving(tx[m].cause, tx[m].until)
  BY DayFacts DEF IInv, TxInv
<1>1. ASSUME NEW k, Ending(k) PROVE Ending(k)'
  <2>1. k \in Causes /\ Settled(k) /\ Stays(k)
    BY <1>1 DEF Ending, Settled
  <2>2. Settled(k)'
    BY <2>1 DEF Settled, Stays
  <2> QED BY <1>0, <1>1, <2>1, <2>2 DEF Ending, Stays
<1>2. ASSUME NEW k, NEW until \in Nat, Moving(k, until) PROVE Moving(k, until)'
  <2>1. k \in Causes /\ Settled(k) /\ Stays(k)
    BY <1>2 DEF Moving, Settled
  <2>2. Settled(k)'
    BY <2>1 DEF Settled, Stays
  <2> QED BY <1>0, <1>2, <2>1, <2>2 DEF Moving, Stays
<1>3. ASSUME tx[m].pc \in {"check", "commit"} PROVE Decided(m)'
  <2>1. Decided(m)
    BY <1>0, <1>3
  <2>2. tx[m].p \notin sold'
    BY <2>1 DEF Decided
  <2>3. tx[m].from > day => \A k \in Causes : Made(k)' /\ Waiting(k)' => term'[k].owner # m
    BY <2>1 DEF Decided, Shrinks
  <2>4. tx[m].ends # Nowhere => Ending(tx[m].ends)' /\ tx[m].from = day
    BY <1>1, <2>1 DEF Decided
  <2> QED BY <2>1, <2>2, <2>3, <2>4 DEF Decided
<1>4. ASSUME tx[m].pc = "commit" PROVE Checked(m)'
  <2>1. Checked(m) /\ tx[m].until \in Nat /\ tx[m].to \in Nat /\ tx[m].from \in Nat
    BY <1>0, <1>4, TxFacts
  <2>2. ASSUME NEW k \in Causes \ {tx[m].ends, <<"trial", m>>}, AsSold(k)', term'[k].owner = m
        PROVE  ~ (term'[k].from < tx[m].to /\ tx[m].from < term'[k].to)
    <3>1. AsSold(k) /\ term[k].owner = m /\ term'[k].from = term[k].from /\ term'[k].to <= term[k].to
      BY <2>2 DEF Shrinks
    <3>2. ~ (term[k].from < tx[m].to /\ tx[m].from < term[k].to)
      BY <2>1, <2>2, <3>1 DEF Checked
    <3>3. term[k].to \in Nat /\ term'[k].to \in Nat /\ term[k].from \in Nat
      <4>1. TypeOK' /\ Made(k)' /\ Made(k)
        BY <2>2, <3>1 DEF AsSold
      <4>2. term'[k] \in TermType
        BY <4>1 DEF TypeOK, Made
      <4> QED BY <1>0, <4>1, <4>2, TermFacts DEF TermType
    <3> QED BY <2>1, <3>1, <3>2, <3>3
  <2>3. tx[m].gift # Nowhere =>
          /\ referral[m].status = "PENDING" /\ day < tx[m].until
          /\ tx[m].gift # <<"week", m>> => Moving(tx[m].gift, tx[m].until)'
    BY <1>2, <2>1 DEF Checked
  <2>4. tx[m].quits # Nowhere => Ending(tx[m].quits)' /\ tx[m].quits[1] = "trial"
    BY <1>1, <2>1 DEF Checked
  <2> QED BY <2>2, <2>3, <2>4 DEF Checked
<1>5. ASSUME tx[m].pc = "extend" PROVE Moving(tx[m].cause, tx[m].until)'
  BY <1>0, <1>2, <1>5, TxFacts
<1> QED BY <1>3, <1>4, <1>5

\* Terms that do not change stay and do not grow.
LEMMA SameTerm ==
  ASSUME TypeOK, NEW k \in Causes, term'[k] = term[k], UNCHANGED day
  PROVE  (Settled(k) => Stays(k)) /\ \A m : Shrinks(k, m)
<1>1. AsSold(k) => term[k].to \in Nat
  BY TermFacts DEF AsSold
<1> QED BY <1>1 DEF Stays, Shrinks, Settled, Made, AsSold, Active, Waiting

-----------------------------------------------------------------------------
(* Steps that leave the terms alone.                                         *)

LEMMA InitInv == Init => IInv
<1> SUFFICES ASSUME Init PROVE IInv
  OBVIOUS
<1>1. TypeOK
  BY LengthsAssumption DEF Init, TypeOK
<1>2. \A k \in Causes : ~ Made(k) /\ ~ Active(k)
  BY DEF Init, Made, Active, NoTerm
<1>3. TermInv /\ OneWaiting /\ SoldWithoutOverlap
  BY <1>2 DEF TermInv, OneWaiting, SoldWithoutOverlap
<1>4. SaleInv
  BY <1>2, CauseFacts DEF Init, SaleInv
<1>5. TxInv
  BY DEF Init, TxInv, NoTx
<1>6. ReferralInv /\ RewardedOnce
  BY DEF Init, ReferralInv, RewardedOnce, NoReferral
<1> QED BY <1>1, <1>3, <1>4, <1>5, <1>6 DEF IInv

\* The transaction of l goes on; nothing else changes.
LEMMA OnlyTx ==
  ASSUME IInv, NEW l \in Learners, UNCHANGED <<day, term, sold, referral, rewards, used>>,
         tx' \in [Learners -> SaleTxType \cup GrowTxType \cup {NoTx}],
         \A m \in Learners : m # l => tx'[m] = tx[m],
         tx'[l].pc \in {"check", "commit"} => Decided(l)',
         tx'[l].pc = "commit" => Checked(l)',
         tx'[l].pc = "extend" => Moving(tx[l].cause, tx[l].until)'
  PROVE  IInv'
<1>1. TypeOK /\ TypeOK'
  BY DEF IInv, TypeOK
<1>2. \A k \in Causes : (Settled(k) => Stays(k)) /\ \A m : Shrinks(k, m)
  BY <1>1, SameTerm
<1>3. TxInv'
  <2>1. ASSUME NEW m \in Learners, m # l
        PROVE  /\ tx'[m].pc \in {"check", "commit"} => Decided(m)'
               /\ tx'[m].pc = "commit" => Checked(m)'
               /\ tx'[m].pc = "extend" => Moving(tx[m].cause, tx[m].until)'
    BY <1>1, <1>2, <2>1, TxKept
  <2> QED BY <2>1 DEF TxInv
<1>4. TermInv' /\ SaleInv' /\ OneWaiting' /\ ReferralInv' /\ SoldWithoutOverlap' /\ RewardedOnce'
  BY DEF IInv, TermInv, SaleInv, OneWaiting, ReferralInv, SoldWithoutOverlap, RewardedOnce, Made,
         Waiting, Active, SameOwner, Overlap
<1> QED BY <1>1, <1>3, <1>4 DEF IInv

LEMMA RollbackInv == ASSUME IInv, NEW l \in Learners, Rollback(l) PROVE IInv'
<1>1. tx' = [tx EXCEPT ![l] = NoTx] /\ tx \in [Learners -> SaleTxType \cup GrowTxType \cup {NoTx}]
  BY DEF Rollback, IInv, TypeOK
<1>2. tx'[l].pc = "idle"
  BY <1>1 DEF NoTx
<1> QED BY <1>1, <1>2, OnlyTx DEF Rollback

LEMMA ConvertedType == \A n \in Nat : Converted(n) \in Nat
BY LengthsAssumption DEF Converted

LEMMA PlacementFacts ==
  ASSUME IInv, NEW l \in Learners, NEW plan \in Plans, NEW x \in Placements(l, plan)
  PROVE  /\ x.from \in Nat /\ x.to \in Nat /\ day <= x.from /\ x.from <= x.to
         /\ x.ends \in Causes \cup {Nowhere}
         /\ x.from > day => \A k \in Causes : Made(k) /\ Waiting(k) => term[k].owner # l
         /\ x.ends # Nowhere => Ending(x.ends) /\ x.from = day
<1>0. TypeOK /\ SaleInv /\ TermInv /\ day \in Nat /\ PlanDays \in Nat
  BY DayFacts DEF IInv
<1>1. \A k \in Causes : Made(k) /\ Waiting(k) => term[k].owner # l
  <2> SUFFICES ASSUME NEW k \in Causes, Made(k), Waiting(k), term[k].owner = l PROVE FALSE
    OBVIOUS
  <2>1. term[k].from <= term[k].to /\ term[k].from > day /\ term[k].from \in Nat /\ term[k].to \in Nat
    BY <1>0, TermFacts DEF TermInv, Waiting
  <2>2. k \in Queued(l)
    BY <1>0, <2>1 DEF Waiting, Queued, Paid, Lasting, Of
  <2> QED BY <2>2 DEF Placements
<1>2. CASE x = Fresh
  BY <1>0, <1>1, <1>2 DEF Fresh, Place
<1>3. CASE \E k \in Running(l) : x \in Beside(k, plan)
  <2>1. PICK k \in Running(l) : x \in Beside(k, plan)
    BY <1>3
  <2>2. /\ k \in Causes /\ Settled(k) /\ term[k].to > day /\ term[k].from <= day
        /\ term[k].to \in Nat
    BY <1>0, LastingFacts, TermFacts DEF Running, Paid, Settled
  <2>3. Ending(k) /\ Converted(term[k].to - day) \in Nat
    BY <1>0, <2>2, ConvertedType DEF Ending
  <2>4. \/ x = Place(term[k].to, term[k].to + PlanDays, Nowhere)
        \/ x = Place(day, day + PlanDays + Converted(term[k].to - day), k)
    BY <2>1 DEF Beside
  <2> QED BY <1>0, <1>1, <2>2, <2>3, <2>4 DEF Place
<1> QED BY <1>2, <1>3 DEF Placements

LEMMA ConfirmStartInv ==
  ASSUME IInv, NEW p \in Purchases, NEW plan \in Plans, ConfirmStart(p, plan) PROVE IInv'
<1> DEFINE l == Owner[p]
<1>0. l \in Learners /\ tx \in [Learners -> SaleTxType \cup GrowTxType \cup {NoTx}] /\ p \notin sold
  BY OwnerAssumption DEF IInv, TypeOK, ConfirmStart
<1>1. PICK x \in Placements(l, plan) :
        tx' = [tx EXCEPT ![l] = [pc |-> "check", p |-> p, plan |-> plan, from |-> x.from, to |-> x.to,
                                 ends |-> x.ends, gift |-> Nowhere, until |-> 0, quits |-> Nowhere]]
  BY DEF ConfirmStart
<1> DEFINE t == [pc |-> "check", p |-> p, plan |-> plan, from |-> x.from, to |-> x.to,
                 ends |-> x.ends, gift |-> Nowhere, until |-> 0, quits |-> Nowhere]
<1>2. /\ x.from \in Nat /\ x.to \in Nat /\ day <= x.from /\ x.from <= x.to
      /\ x.ends \in Causes \cup {Nowhere}
      /\ x.from > day => \A k \in Causes : Made(k) /\ Waiting(k) => term[k].owner # l
      /\ x.ends # Nowhere => Ending(x.ends) /\ x.from = day
  BY <1>0, PlacementFacts
<1>3. t \in SaleTxType
  BY <1>2 DEF SaleTxType
<1>4. tx' = [tx EXCEPT ![l] = t]
  BY <1>1
<1>5. UNCHANGED <<day, term, sold, referral, rewards, used>>
  BY DEF ConfirmStart
<1>6. tx'[l] = t /\ \A m \in Learners : m # l => tx'[m] = tx[m]
  BY <1>0, <1>4
<1>7. tx' \in [Learners -> SaleTxType \cup GrowTxType \cup {NoTx}]
  BY <1>0, <1>3, <1>4
<1>8. t.pc = "check" /\ t.p = p /\ t.from = x.from /\ t.to = x.to /\ t.ends = x.ends
  OBVIOUS
<1> HIDE DEF t
<1>9. Decided(l)'
  BY <1>0, <1>2, <1>5, <1>6, <1>8 DEF Decided, Made, Waiting, Ending, Settled, l
<1> QED BY <1>0, <1>5, <1>6, <1>7, <1>8, <1>9, OnlyTx

LEMMA AdminExtendInv == ASSUME IInv, NEW k \in Causes, AdminExtend(k) PROVE IInv'
<1>l. PICK l \in Learners : l = term[k].owner
  BY DEF AdminExtend
<1> DEFINE t == [pc |-> "extend", cause |-> k, until |-> term[k].to + PlanDays]
<1>0. /\ TypeOK /\ SaleInv /\ TermInv /\ k \in Lasting(l)
      /\ tx \in [Learners -> SaleTxType \cup GrowTxType \cup {NoTx}] /\ day \in Nat
      /\ PlanDays \in Nat
  BY <1>l, DayFacts DEF IInv, TypeOK, AdminExtend
<1>1. Settled(k) /\ term[k].to > day /\ term[k].to \in Nat /\ term[k].from \in Nat
      /\ term[k].from <= term[k].to
  BY <1>0, LastingFacts, TermFacts DEF Settled, TermInv
<1>2. t \in GrowTxType
  BY <1>0, <1>1 DEF GrowTxType
<1>3. tx' = [tx EXCEPT ![l] = t] /\ UNCHANGED <<day, term, sold, referral, rewards, used>>
  BY <1>l DEF AdminExtend
<1>4. tx'[l] = t /\ \A m \in Learners : m # l => tx'[m] = tx[m]
  BY <1>0, <1>3
<1>5. tx' \in [Learners -> SaleTxType \cup GrowTxType \cup {NoTx}]
  BY <1>0, <1>2, <1>3
<1>6. t.pc = "extend" /\ t.cause = k /\ t.until = term[k].to + PlanDays
  OBVIOUS
<1> HIDE DEF t
<1>7. Moving(tx[l].cause, tx[l].until)'
  BY <1>0, <1>1, <1>3, <1>4, <1>6 DEF Moving, Settled, Made
<1> QED BY <1>0, <1>3, <1>4, <1>5, <1>6, <1>7, OnlyTx

LEMMA ConfirmCheckInv == ASSUME IInv, NEW l \in Learners, ConfirmCheck(l) PROVE IInv'
<1> DEFINE m == referral[l].by
<1>0. /\ TypeOK /\ SaleInv /\ TermInv /\ day \in Nat /\ RewardDays \in Nat /\ RewardDays > 0
      /\ tx \in [Learners -> SaleTxType \cup GrowTxType \cup {NoTx}]
      /\ tx[l].pc = "check" /\ tx[l] \in SaleTxType /\ Decided(l)
      /\ UNCHANGED <<day, term, sold, referral, rewards, used>>
  BY DayFacts, TxFacts DEF IInv, TypeOK, ConfirmCheck, TxInv
<1>1. CASE tx' = [tx EXCEPT ![l] = NoTx]
  <2>1. tx'[l].pc = "idle"
    BY <1>0, <1>1 DEF NoTx
  <2> QED BY <1>0, <1>1, <2>1, OnlyTx
<1>2. ASSUME ~ Overlapped(l), NEW gift \in Causes \cup {Nowhere}, NEW until \in Nat,
             NEW quits \in Causes \cup {Nowhere}, Ready(l, gift, until, quits),
             gift # Nowhere => /\ referral[l].status = "PENDING" /\ day < until
                               /\ gift # <<"week", l>> => Moving(gift, until),
             quits # Nowhere => Ending(quits) /\ quits[1] = "trial"
      PROVE  IInv'
  <2> DEFINE t == [tx[l] EXCEPT !.pc = "commit", !.gift = gift, !.until = until, !.quits = quits]
  <2>1. tx' = [tx EXCEPT ![l] = t]
    BY <1>0, <1>2 DEF Ready
  <2>2. /\ t \in SaleTxType /\ t.pc = "commit" /\ t.gift = gift /\ t.until = until /\ t.quits = quits
        /\ t.p = tx[l].p /\ t.from = tx[l].from /\ t.to = tx[l].to /\ t.ends = tx[l].ends
    BY <1>0 DEF SaleTxType
  <2> HIDE DEF t
  <2>3. /\ tx'[l] = t /\ \A n \in Learners : n # l => tx'[n] = tx[n]
        /\ tx' \in [Learners -> SaleTxType \cup GrowTxType \cup {NoTx}]
    BY <1>0, <2>1, <2>2
  <2>4. Decided(l)'
    BY <1>0, <2>2, <2>3 DEF Decided, Made, Waiting, Ending, Settled
  <2>5. ASSUME NEW k \in Causes \ {tx[l].ends, <<"trial", l>>}, AsSold(k), term[k].owner = l
        PROVE  ~ (term[k].from < tx[l].to /\ tx[l].from < term[k].to)
    <3>1. k \in Of(l) \ {tx[l].ends, <<"trial", l>>} /\ term[k].status = "ACTIVE"
      BY <2>5 DEF Of, AsSold, Active
    <3>2. term[k].to \in Nat /\ tx[l].from \in Nat
      BY <1>0, <2>5, TermFacts, TxFacts DEF AsSold
    <3> QED BY <1>2, <3>1, <3>2 DEF Overlapped
  <2>6. Checked(l)'
    BY <1>0, <1>2, <2>2, <2>3, <2>5
       DEF Checked, AsSold, Made, Active, Moving, Ending, Settled
  <2> QED BY <1>0, <2>2, <2>3, <2>4, <2>6, OnlyTx
<1>3. FirstPayment(l) => m \in Learners /\ referral[l].status = "PENDING"
  BY <1>0, ReferralFacts DEF FirstPayment
<1>4. CASE ~ Overlapped(l) /\ ~ FirstPayment(l) /\ Ready(l, Nowhere, 0, Nowhere)
  BY <1>2, <1>4
<1>5. CASE /\ ~ Overlapped(l) /\ FirstPayment(l)
           /\ \E k \in Last(m) : Ready(l, k, term[k].to + RewardDays, Nowhere)
  <2>1. PICK k \in Last(m) : Ready(l, k, term[k].to + RewardDays, Nowhere)
    BY <1>5
  <2>2. k \in Lasting(m) /\ m \in Learners
    BY <1>3, <1>5 DEF Last, Paid
  <2>3. k \in Causes /\ Settled(k) /\ term[k].to > day
    BY <1>0, <2>2, LastingFacts
  <2>4. term[k].to \in Nat /\ term[k].from \in Nat /\ term[k].from <= term[k].to
    BY <1>0, <2>3, TermFacts DEF Settled, TermInv
  <2>5. term[k].to + RewardDays \in Nat /\ day < term[k].to + RewardDays
        /\ term[k].from <= term[k].to + RewardDays
    BY <1>0, <2>3, <2>4
  <2> QED BY <1>2, <1>3, <1>5, <2>1, <2>3, <2>5 DEF Moving
<1>6. CASE /\ ~ Overlapped(l) /\ FirstPayment(l) /\ Ready(l, <<"week", l>>, day + RewardDays, Trial(m))
  <2>1. Trial(m) # Nowhere => Trial(m) \in Causes /\ Ending(Trial(m)) /\ Trial(m)[1] = "trial"
    <3> SUFFICES ASSUME Trial(m) # Nowhere
                 PROVE  Trial(m) \in Causes /\ Ending(Trial(m)) /\ Trial(m)[1] = "trial"
      OBVIOUS
    <3>1. Trial(m) = <<"trial", m>> /\ <<"trial", m>> \in Lasting(m) /\ m \in Learners
      BY <1>3, <1>6 DEF Trial
    <3>2. /\ <<"trial", m>> \in Causes /\ Settled(<<"trial", m>>) /\ term[<<"trial", m>>].to > day
      BY <1>0, <3>1, LastingFacts
    <3>3. <<"trial", m>>[1] = "trial" /\ Made(<<"trial", m>>)
      BY <3>2 DEF Settled
    <3>4. term[<<"trial", m>>].from <= day /\ term[<<"trial", m>>].to \in Nat
      BY <1>0, <3>2, <3>3, TermFacts DEF TermInv
    <3> QED BY <1>0, <3>1, <3>2, <3>3, <3>4 DEF Ending
  <2>2. <<"week", l>> \in Causes
    BY CauseFacts
  <2>3. day + RewardDays \in Nat /\ day < day + RewardDays
    BY <1>0
  <2>4. Trial(m) \in Causes \cup {Nowhere}
    BY <2>1
  <2> QED BY <1>2, <1>3, <1>6, <2>1, <2>2, <2>3, <2>4
<1> QED BY <1>1, <1>4, <1>5, <1>6 DEF ConfirmCheck

-----------------------------------------------------------------------------
(* Steps that change one term, or none.                                      *)

\* A term that begins today for l, or one that begins when it did and does not
\* count as sold, or not at all, from here on.
Begins(c, l) ==
  /\ c[1] # "sale" /\ term'[c].owner = l /\ term'[c].from = day /\ day <= term'[c].to
  /\ AsSold(c)' =>
       \A k \in Causes \ {c} :
         AsSold(k) /\ term[k].owner = l =>
           ~ (term[k].from < term'[c].to /\ day < term[k].to)
Continues(c) ==
  /\ Made(c) /\ term'[c].owner = term[c].owner /\ term'[c].from = term[c].from
  /\ term[c].from <= term'[c].to /\ (day <= term[c].to => day <= term'[c].to)
  /\ Active(c)' => Active(c)
  /\ ~ AsSold(c)'

LEMMA OneTermStep ==
  ASSUME IInv, TypeOK', NEW l \in Learners, NEW c \in Causes, Made(c)',
         \A k \in Causes : k # c => term'[k] = term[k],
         UNCHANGED <<day, sold, referral, rewards>>,
         tx'[l] = NoTx, \A m \in Learners : m # l => tx'[m] = tx[m],
         Begins(c, l) \/ Continues(c)
  PROVE  IInv'
<1>0. TypeOK /\ TermInv /\ SaleInv /\ OneWaiting /\ SoldWithoutOverlap /\ day \in Nat
  BY DayFacts DEF IInv
<1>1. /\ term'[c].from \in Nat /\ term'[c].to \in Nat /\ term'[c] \in TermType
      /\ Made(c) => term[c].from \in Nat /\ term[c].to \in Nat
  <2>1. term'[c] \in TermType
    BY DEF TypeOK, Made
  <2> QED BY <1>0, <2>1, TermFacts DEF TermType
<1>2. Waiting(c)' => Continues(c) /\ Waiting(c)
  BY <1>0, <1>1 DEF Begins, Continues, Waiting, Active
<1>3. TermInv'
  <2> SUFFICES ASSUME NEW k \in Causes, Made(k)'
               PROVE  term'[k].from <= term'[k].to /\ (k[1] # "sale" => term'[k].from <= day')
    BY DEF TermInv
  <2>1. CASE k = c
    BY <1>0, <1>1, <2>1 DEF Begins, Continues, TermInv
  <2>2. CASE k # c
    BY <1>0, <2>2 DEF TermInv, Made
  <2> QED BY <2>1, <2>2
<1>4. SaleInv'
  <2> SUFFICES ASSUME NEW p \in Purchases
               PROVE  IF p \in sold THEN term'[<<"sale", p>>].owner = Owner[p]
                      ELSE ~ Made(<<"sale", p>>)'
    BY DEF SaleInv
  <2>1. <<"sale", p>>[1] = "sale" /\ <<"sale", p>> \in Causes
    BY CauseFacts
  <2>2. IF p \in sold THEN term[<<"sale", p>>].owner = Owner[p] ELSE ~ Made(<<"sale", p>>)
    BY <1>0 DEF SaleInv
  <2>3. CASE c = <<"sale", p>>
    BY <2>1, <2>2, <2>3 DEF Begins, Continues
  <2>4. CASE c # <<"sale", p>>
    BY <2>1, <2>2, <2>4 DEF Made
  <2> QED BY <2>3, <2>4
<1>5. OneWaiting'
  <2> SUFFICES ASSUME NEW j \in Causes, NEW k \in Causes, Made(j)', Made(k)',
                      term'[j].owner = term'[k].owner, Waiting(j)', Waiting(k)'
               PROVE  j = k
    BY DEF OneWaiting
  <2>1. \A i \in Causes : Made(i)' /\ Waiting(i)' => Made(i) /\ Waiting(i) /\ term'[i].owner = term[i].owner
    BY <1>2 DEF Made, Waiting, Continues
  <2> QED BY <1>0, <2>1 DEF OneWaiting
<1>6. SoldWithoutOverlap'
  <2>1. \A k \in Causes : k # c /\ AsSold(k)' => AsSold(k)
    BY DEF AsSold, Made, Active
  <2>2. ASSUME NEW k \in Causes, k # c, AsSold(k)', AsSold(c)', term'[k].owner = term'[c].owner
        PROVE  ~ (term'[k].from < term'[c].to /\ term'[c].from < term'[k].to)
    <3>1. Begins(c, l) /\ AsSold(k) /\ term'[k] = term[k]
      BY <2>1, <2>2 DEF Continues
    <3> QED BY <2>2, <3>1 DEF Begins
  <2>3. ASSUME NEW j \in Causes, NEW k \in Causes, j # k, term'[j].owner = term'[k].owner,
               AsSold(j)', AsSold(k)'
        PROVE  ~ (term'[j].from < term'[k].to /\ term'[k].from < term'[j].to)
    <3>1. CASE j = c \/ k = c
      BY <2>2, <2>3, <3>1
    <3>2. CASE j # c /\ k # c
      BY <1>0, <2>1, <2>3, <3>2 DEF SoldWithoutOverlap, SameOwner, Overlap, AsSold
    <3> QED BY <3>1, <3>2
  <2>4. \A k \in Causes : Active(k)' => Made(k)'
    BY TermFacts DEF Active, Made, NoTerm
  <2> QED BY <2>3, <2>4 DEF SoldWithoutOverlap, SameOwner, Overlap, AsSold
<1>7. TxInv'
  <2>1. ASSUME NEW m \in Learners, m # l
        PROVE  /\ tx'[m].pc \in {"check", "commit"} => Decided(m)'
               /\ tx'[m].pc = "commit" => Checked(m)'
               /\ tx'[m].pc = "extend" => Moving(tx[m].cause, tx[m].until)'
    <3>1. ASSUME NEW k \in Causes PROVE (Settled(k) => Stays(k)) /\ Shrinks(k, m)
      <4>1. CASE k = c
        <5>1. Stays(c)
          BY DEF Stays, Begins, Continues
        <5>2. Shrinks(c, m)
          BY <1>2, <2>1 DEF Shrinks, Begins, Continues
        <5> QED BY <4>1, <5>1, <5>2
      <4>2. CASE k # c
        BY <1>0, <4>2, SameTerm
      <4> QED BY <4>1, <4>2
    <3> QED BY <2>1, <3>1, TxKept
  <2>2. tx'[l].pc = "idle"
    BY DEF NoTx
  <2> QED BY <2>1, <2>2 DEF TxInv
<1>8. ReferralInv' /\ RewardedOnce'
  BY DEF IInv, ReferralInv, RewardedOnce
<1> QED BY <1>3, <1>4, <1>5, <1>6, <1>7, <1>8 DEF IInv

LEMMA GrantTrialInv == ASSUME IInv, NEW l \in Learners, GrantTrial(l) PROVE IInv'
<1> DEFINE c == <<"trial", l>>
           t == NewTerm(l, "PLUS", day, day + TrialDays)
<1>0. TypeOK /\ day \in Nat /\ TrialDays \in Nat /\ tx[l] = NoTx /\ Of(l) = {} /\ c \in Causes
  BY DayFacts, CauseFacts DEF IInv, GrantTrial, Unlocked
<1>1. /\ t \in TermType /\ t # NoTerm /\ t.owner = l /\ t.status = "ACTIVE" /\ t.from = day
      /\ t.to = day + TrialDays
  <2>1. day \in Nat /\ day + TrialDays \in Nat
    BY <1>0
  <2> QED BY <2>1, PlusIsPlan, NoOneAssumption DEF NewTerm, TermType, NoTerm
<1>2. term' = [term EXCEPT ![c] = t] /\ UNCHANGED <<day, sold, referral, rewards, used, tx>>
  BY DEF GrantTrial
<1> HIDE DEF t
<1>3. term'[c] = t /\ \A k \in Causes : k # c => term'[k] = term[k]
  BY <1>0, <1>2 DEF TypeOK
<1>4. TypeOK'
  BY <1>0, <1>1, <1>2 DEF TypeOK
<1>5. \A k \in Causes : term[k].owner # l
  BY <1>0 DEF Of
<1>6. Begins(c, l)
  BY <1>0, <1>1, <1>3, <1>5 DEF Begins
<1>7. Made(c)'
  BY <1>1, <1>3 DEF Made
<1> HIDE DEF c
<1> QED BY <1>0, <1>2, <1>3, <1>4, <1>6, <1>7, OneTermStep

LEMMA AdminGrantInv ==
  ASSUME IInv, NEW key \in AdminKeys, NEW l \in Learners, NEW plan \in Plans, AdminGrant(key, l, plan)
  PROVE  IInv'
<1> DEFINE c == <<"grant", key>>
           t == NewTerm(l, plan, day, day + PlanDays)
<1>0. TypeOK /\ day \in Nat /\ PlanDays \in Nat /\ tx[l] = NoTx /\ Lasting(l) = {} /\ c \in Causes
  BY DayFacts, CauseFacts DEF IInv, AdminGrant, Unlocked
<1>1. /\ t \in TermType /\ t # NoTerm /\ t.owner = l /\ t.status = "ACTIVE" /\ t.from = day
      /\ t.to = day + PlanDays
  <2>1. day \in Nat /\ day + PlanDays \in Nat
    BY <1>0
  <2> QED BY <2>1, NoOneAssumption DEF NewTerm, TermType, NoTerm
<1>2. /\ term' = [term EXCEPT ![c] = t] /\ used' = used \cup {key}
      /\ UNCHANGED <<day, sold, referral, rewards, tx>>
  BY DEF AdminGrant
<1> HIDE DEF t
<1>3. term'[c] = t /\ \A k \in Causes : k # c => term'[k] = term[k]
  BY <1>0, <1>2 DEF TypeOK
<1>4. TypeOK'
  BY <1>0, <1>1, <1>2 DEF TypeOK
<1>5. \A k \in Causes : AsSold(k) /\ term[k].owner = l => ~ (day < term[k].to)
  BY <1>0 DEF Lasting, Of, AsSold, Active
<1>6. Begins(c, l)
  BY <1>0, <1>1, <1>3, <1>5 DEF Begins
<1>7. Made(c)'
  BY <1>1, <1>3 DEF Made
<1> HIDE DEF c
<1> QED BY <1>0, <1>2, <1>3, <1>4, <1>6, <1>7, OneTermStep

LEMMA AdminExtendedInv ==
  ASSUME IInv, NEW l \in Learners, NEW key \in AdminKeys, AdminExtended(l, key) PROVE IInv'
<1> DEFINE c == tx[l].cause
           t == [term[c] EXCEPT !.to = tx[l].until, !.grown = TRUE]
<1>0. /\ TypeOK /\ day \in Nat /\ tx[l].pc = "extend" /\ Moving(c, tx[l].until)
      /\ c \in Causes /\ tx[l].until \in Nat
  BY DayFacts, TxFacts DEF IInv, TxInv, AdminExtended
<1>1. Made(c) /\ term[c] \in TermType
  BY <1>0, TermFacts DEF Moving, Settled
<1>2. /\ t \in TermType /\ t.owner = term[c].owner /\ t.status = term[c].status
      /\ t.from = term[c].from /\ t.to = tx[l].until /\ t.grown = TRUE
  BY <1>0, <1>1 DEF TermType
<1>3. /\ term' = [term EXCEPT ![c] = t] /\ used' = used \cup {key} /\ tx' = [tx EXCEPT ![l] = NoTx]
      /\ UNCHANGED <<day, sold, referral, rewards>>
  BY <1>0 DEF AdminExtended, TypeOK
<1> HIDE DEF t
<1>4. PICK d \in Causes : d = c
  BY <1>0
<1>5. term'[d] = t /\ \A k \in Causes : k # d => term'[k] = term[k]
  BY <1>0, <1>3, <1>4 DEF TypeOK
<1>6. tx'[l] = NoTx /\ \A m \in Learners : m # l => tx'[m] = tx[m]
  BY <1>0, <1>3 DEF TypeOK
<1>7. TypeOK'
  BY <1>0, <1>2, <1>3 DEF TypeOK
<1>8. Made(d)'
  BY <1>2, <1>5, NoOneAssumption DEF Made, TermType, NoTerm
<1>9. Continues(d)
  BY <1>0, <1>1, <1>2, <1>4, <1>5 DEF Continues, Moving, AsSold, Active
<1> QED BY <1>3, <1>5, <1>6, <1>7, <1>8, <1>9, OneTermStep

LEMMA AdminRevokeInv ==
  ASSUME IInv, NEW c \in Causes, NEW key \in AdminKeys, AdminRevoke(c, key) PROVE IInv'
<1> DEFINE t == [term[c] EXCEPT !.status = "REVOKED"]
<1>0. TypeOK /\ TermInv /\ day \in Nat
  BY DayFacts DEF IInv
<1>l. PICK l \in Learners : l = term[c].owner /\ tx[l] = NoTx
  BY DEF AdminRevoke, Unlocked
<1>1. Made(c) /\ term[c] \in TermType /\ term[c].from <= term[c].to
  BY <1>0, <1>l, TermFacts DEF TermInv
<1>2. /\ t \in TermType /\ t.owner = term[c].owner /\ t.status = "REVOKED"
      /\ t.from = term[c].from /\ t.to = term[c].to
  BY <1>1 DEF TermType
<1>3. /\ term' = [term EXCEPT ![c] = t] /\ used' = used \cup {key}
      /\ UNCHANGED <<day, sold, referral, rewards, tx>>
  BY <1>0 DEF AdminRevoke, TypeOK
<1> HIDE DEF t
<1>5. term'[c] = t /\ \A k \in Causes : k # c => term'[k] = term[k]
  BY <1>0, <1>3 DEF TypeOK
<1>7. TypeOK'
  BY <1>0, <1>2, <1>3 DEF TypeOK
<1>8. Made(c)'
  BY <1>2, <1>5, NoOneAssumption DEF Made, TermType, NoTerm
<1>9. Continues(c)
  BY <1>0, <1>1, <1>2, <1>5 DEF Continues, AsSold, Active
<1> QED BY <1>l, <1>3, <1>5, <1>7, <1>8, <1>9, OneTermStep

\* A day passes when nobody is at work.
LEMMA TickInv == ASSUME IInv, Tick PROVE IInv'
<1>0. TypeOK /\ TermInv /\ OneWaiting /\ day \in Nat /\ day' = day + 1
      /\ UNCHANGED <<term, sold, referral, rewards, used, tx>>
  BY DayFacts DEF IInv, Tick
<1>1. TypeOK'
  BY <1>0, LengthsAssumption DEF Tick, TypeOK
<1>2. \A k \in Causes : Made(k) => term[k].from \in Nat
  BY <1>0, TermFacts
<1>3. TermInv'
  BY <1>0, <1>2 DEF TermInv, Made
<1>4. OneWaiting'
  <2>1. \A k \in Causes : Made(k)' /\ Waiting(k)' => Made(k) /\ Waiting(k)
    BY <1>0, <1>2 DEF Made, Waiting
  <2> QED BY <1>0, <2>1 DEF OneWaiting
<1>5. TxInv'
  <2>1. \A l \in Learners : tx'[l].pc = "idle"
    BY <1>0 DEF Tick, Unlocked, NoTx
  <2> QED BY <2>1 DEF TxInv
<1>6. SaleInv' /\ ReferralInv' /\ SoldWithoutOverlap' /\ RewardedOnce'
  BY <1>0 DEF IInv, SaleInv, Made, ReferralInv, SoldWithoutOverlap, SameOwner, Overlap, Active, RewardedOnce
<1> QED BY <1>1, <1>3, <1>4, <1>5, <1>6 DEF IInv

LEMMA ClaimInv == ASSUME IInv, NEW l \in Learners, NEW m \in Learners, Claim(l, m) PROVE IInv'
<1> DEFINE r == [by |-> m, status |-> "PENDING"]
<1>0. /\ TypeOK /\ UNCHANGED <<day, term, sold, rewards, used, tx>> /\ tx[l] = NoTx
      /\ referral[l] = NoReferral /\ referral' = [referral EXCEPT ![l] = r] /\ <<l, m>> \in Friends
  BY DEF IInv, Claim, Unlocked
<1>1. r \in ReferralType /\ r.by = m /\ r.status = "PENDING" /\ m # l
  BY <1>0, FriendsAssumption DEF ReferralType
<1> HIDE DEF r
<1>2. referral'[l] = r /\ \A n \in Learners : n # l => referral'[n] = referral[n]
  BY <1>0 DEF TypeOK
<1>3. TypeOK'
  BY <1>0, <1>1 DEF TypeOK
<1>4. \A e \in rewards : e.of \in Learners /\ e.of # l
  BY <1>0 DEF IInv, ReferralInv, NoReferral, TypeOK, RewardType
<1>5. ReferralInv'
  BY <1>0, <1>1, <1>2, <1>4 DEF IInv, ReferralInv
<1>6. RewardedOnce'
  <2>1. \A e, f \in rewards : e.of = f.of /\ e.for = f.for => e = f
    BY DEF IInv, RewardedOnce
  <2>2. ASSUME NEW n \in Learners
        PROVE  referral'[n].status = "REWARDED" <=>
                 \E e, f \in rewards : e.of = n /\ e.for = n /\ f.of = n /\ f.for = referral'[n].by
    <3>1. CASE n = l
      BY <1>1, <1>2, <1>4, <3>1
    <3>2. CASE n # l
      BY <1>2, <3>2 DEF IInv, RewardedOnce
    <3> QED BY <3>1, <3>2
  <2> QED BY <1>0, <2>1, <2>2 DEF RewardedOnce
<1>7. TxInv'
  <2>1. ASSUME NEW n \in Learners, n # l
        PROVE  /\ tx'[n].pc \in {"check", "commit"} => Decided(n)'
               /\ tx'[n].pc = "commit" => Checked(n)'
               /\ tx'[n].pc = "extend" => Moving(tx[n].cause, tx[n].until)'
    <3>1. \A k \in Causes : (Settled(k) => Stays(k)) /\ Shrinks(k, n)
      BY <1>0, SameTerm
    <3> QED BY <1>0, <1>2, <1>3, <2>1, <3>1, TxKept
  <2>2. tx'[l].pc = "idle"
    BY <1>0 DEF NoTx
  <2> QED BY <1>0, <2>1, <2>2 DEF TxInv
<1>8. TermInv' /\ SaleInv' /\ OneWaiting' /\ SoldWithoutOverlap'
  BY <1>0 DEF IInv, TermInv, SaleInv, OneWaiting, Made, Waiting, SoldWithoutOverlap, SameOwner, Overlap, Active
<1> QED BY <1>3, <1>5, <1>6, <1>7, <1>8 DEF IInv

-----------------------------------------------------------------------------
(* The commit of a confirmation, one kind of term at a time.                 *)

\* What the commit of l makes of the term of cause k: the one bought, ...
Bought(k, l) ==
  /\ k = <<"sale", tx[l].p>> /\ ~ Made(k) /\ term'[k].owner = l
  /\ term'[k].from = tx[l].from /\ tx[l].to <= term'[k].to
  /\ ~ term'[k].grown => term'[k].to = tx[l].to
\* ... one that ends today, ...
Cut(k) ==
  /\ Settled(k) /\ term[k].from <= day /\ day <= term[k].to
  /\ term'[k] = [term[k] EXCEPT !.to = day]
\* ... the week of a friend, ...
Given(k) == k[1] = "week" /\ term'[k].from = day /\ day < term'[k].to
\* ... and the one his days are added to.
Later(k) ==
  /\ Settled(k) /\ term[k].from <= term'[k].to /\ day < term'[k].to
  /\ term'[k] = [term[k] EXCEPT !.to = term'[k].to, !.grown = TRUE]
Same(k) == term'[k] = term[k]

LEMMA CommitOne ==
  ASSUME IInv, NEW l \in Learners, ConfirmCommit(l), NEW k \in Causes
  PROVE  /\ \/ Bought(k, l)
            \/ k # <<"sale", tx[l].p>> /\ (Cut(k) \/ Given(k) \/ Later(k) \/ Same(k))
         /\ Same(k) \/ term'[k] \in TermType
         /\ k = <<"sale", tx[l].p>> \/ (k # tx[l].ends /\ ~ (k = <<"trial", l>> /\ k \in Lasting(l))) \/ Cut(k)
<1>x. PICK x : x = tx[l]
  OBVIOUS
<1>0. /\ TypeOK /\ TermInv /\ SaleInv /\ ReferralInv /\ day \in Nat /\ RewardDays \in Nat
      /\ x.pc = "commit" /\ Decided(l) /\ Checked(l) /\ term'[k] = Committed(l, k)
  BY <1>x, DayFacts DEF IInv, TxInv, ConfirmCommit
<1>1. /\ x.p \in Purchases /\ x.plan \in Plans /\ x.from \in Nat /\ x.to \in Nat /\ x.until \in Nat
      /\ x.ends \in Causes \cup {Nowhere} /\ x.gift \in Causes \cup {Nowhere}
      /\ x.quits \in Causes \cup {Nowhere} /\ Nowhere \notin Causes
  BY <1>0, <1>x, TxFacts, CauseFacts
<1>2. Made(k) => term[k] \in TermType
  BY <1>0, TermFacts
<1>3. CASE k = <<"sale", x.p>>
  <2> DEFINE gifted == x.gift # Nowhere
             to == IF gifted THEN x.to + RewardDays ELSE x.to
  <2>1. term'[k] = [NewTerm(l, x.plan, x.from, to) EXCEPT !.grown = gifted]
    BY <1>0, <1>x, <1>3 DEF Committed, EndedBefore
  <2>2. to \in Nat /\ x.to <= to /\ (~ gifted => to = x.to) /\ gifted \in BOOLEAN
    BY <1>0, <1>1
  <2> HIDE DEF to, gifted
  <2>3. /\ term'[k] \in TermType /\ term'[k].owner = l /\ term'[k].from = x.from
        /\ term'[k].to = to /\ term'[k].grown = gifted
    BY <1>1, <2>1, <2>2 DEF NewTerm, TermType
  <2>4. ~ Made(k)
    BY <1>0, <1>x, <1>1, <1>3 DEF SaleInv, Decided
  <2> QED BY <1>x, <1>3, <2>2, <2>3, <2>4 DEF Bought
<1>4. CASE k # <<"sale", x.p>> /\ (k = x.ends \/ k = x.quits \/ (k = <<"trial", l>> /\ k \in Lasting(l)))
  <2>1. term'[k] = [term[k] EXCEPT !.to = day]
    BY <1>0, <1>x, <1>4 DEF Committed, EndedBefore, EndToday
  <2>2. Ending(k)
    <3>1. CASE k = x.ends \/ k = x.quits
      BY <1>0, <1>x, <1>1, <3>1 DEF Decided, Checked
    <3>2. CASE k = <<"trial", l>> /\ k \in Lasting(l)
      <4>1. Settled(k) /\ term[k].to > day /\ k[1] = "trial" /\ term[k].to \in Nat
        BY <1>0, <3>2, LastingFacts, TermFacts DEF Settled
      <4> QED BY <1>0, <4>1 DEF Ending, TermInv, Settled
    <3> QED BY <1>4, <3>1, <3>2
  <2>3. term'[k] \in TermType /\ Cut(k)
    BY <1>0, <1>2, <2>1, <2>2 DEF Ending, Settled, Cut, TermType
  <2> QED BY <1>x, <1>4, <2>3
<1>5. CASE /\ k # <<"sale", x.p>> /\ k # x.ends /\ k # x.quits /\ ~ (k = <<"trial", l>> /\ k \in Lasting(l))
           /\ k = x.gift
  <2>1. referral[l].status = "PENDING" /\ day < x.until
    BY <1>0, <1>x, <1>1, <1>5 DEF Checked
  <2>2. CASE k = <<"week", l>>
    <3>1. term'[k] = NewTerm(referral[l].by, "PLUS", day, x.until) /\ referral[l].by \in Learners
      BY <1>0, <1>x, <1>5, <2>1, <2>2, ReferralFacts DEF Committed, EndedBefore
    <3>2. /\ term'[k] \in TermType /\ term'[k].from = day /\ term'[k].to = x.until
      BY <1>0, <1>1, <3>1, PlusIsPlan DEF NewTerm, TermType
    <3> QED BY <1>x, <1>5, <2>1, <2>2, <3>2 DEF Given
  <2>3. CASE k # <<"week", l>>
    <3>1. term'[k] = [term[k] EXCEPT !.to = x.until, !.grown = TRUE]
      BY <1>0, <1>x, <1>5, <2>3 DEF Committed, EndedBefore
    <3>2. Moving(k, x.until)
      BY <1>0, <1>x, <1>1, <1>5, <2>3 DEF Checked
    <3>3. term[k] \in TermType
      BY <1>2, <3>2 DEF Moving, Settled
    <3>4. term'[k] \in TermType /\ term'[k].to = x.until
      BY <1>1, <3>1, <3>3 DEF TermType
    <3> QED BY <1>x, <1>5, <2>1, <3>1, <3>2, <3>4 DEF Moving, Later
  <2> QED BY <2>2, <2>3
<1>6. CASE /\ k # <<"sale", x.p>> /\ k # x.ends /\ k # x.quits /\ ~ (k = <<"trial", l>> /\ k \in Lasting(l))
           /\ k # x.gift
  <2>1. Same(k)
    BY <1>0, <1>x, <1>6 DEF Committed, EndedBefore, Same
  <2> QED BY <1>x, <1>6, <2>1
<1> QED BY <1>3, <1>4, <1>5, <1>6

\* What the commit leaves of every other term than the one bought.
LEMMA CommitOther ==
  ASSUME IInv, NEW l \in Learners, ConfirmCommit(l), NEW k \in Causes, k # <<"sale", tx[l].p>>, TypeOK'
  PROVE  /\ Settled(k) => Stays(k)
         /\ k[1] # "week" => Made(k)' = Made(k) /\ term'[k].owner = term[k].owner
         /\ Made(k)' => term'[k].from <= term'[k].to /\ (k[1] # "sale" => term'[k].from <= day)
         /\ AsSold(k)' => /\ AsSold(k) /\ term'[k].owner = term[k].owner
                          /\ term'[k].from = term[k].from /\ term'[k].to <= term[k].to
         /\ Made(k)' /\ Waiting(k)' => Made(k) /\ Waiting(k) /\ term'[k].owner = term[k].owner
<1>0. TypeOK /\ TermInv /\ day \in Nat /\ day' = day
  BY DayFacts DEF IInv, ConfirmCommit
<1>1. \A t \in TermType : t # NoTerm
  BY NoOneAssumption DEF TermType, NoTerm
<1>2. Made(k) => /\ term[k] \in TermType /\ term[k].from \in Nat /\ term[k].to \in Nat
                 /\ term[k].from <= term[k].to /\ (k[1] # "sale" => term[k].from <= day)
  BY <1>0, TermFacts DEF TermInv
<1>3. CASE Same(k)
  BY <1>0, <1>2, <1>3 DEF Same, Settled, Stays, AsSold, Active, Waiting, Made
<1>4. CASE Cut(k) /\ term'[k] \in TermType
  <2>1. /\ Made(k) /\ Made(k)' /\ term'[k].owner = term[k].owner /\ term'[k].from = term[k].from
        /\ term'[k].to = day /\ term'[k].status = term[k].status /\ term'[k].grown = term[k].grown
        /\ term[k].from <= day /\ day <= term[k].to
    BY <1>1, <1>2, <1>4 DEF Cut, Settled, Made, TermType
  <2> QED BY <1>0, <1>2, <2>1 DEF Stays, AsSold, Active, Waiting
<1>5. CASE Given(k) /\ term'[k] \in TermType
  <2>1. Made(k)' /\ k[1] = "week" /\ term'[k].from = day /\ day < term'[k].to /\ term'[k].to \in Nat
    BY <1>1, <1>5 DEF Given, Made, TermType
  <2> QED BY <1>0, <2>1 DEF Stays, AsSold, Waiting
<1>6. CASE Later(k) /\ term'[k] \in TermType
  <2> DEFINE u == term'[k].to
  <2>1. /\ Made(k) /\ Made(k)' /\ term'[k].owner = term[k].owner /\ term'[k].from = term[k].from
        /\ term'[k].status = term[k].status /\ term'[k].grown = TRUE
        /\ term[k].from <= term'[k].to /\ day < term'[k].to /\ term'[k].to \in Nat
    <3>1. Made(k) /\ term[k] \in TermType /\ u \in Nat /\ term'[k] = [term[k] EXCEPT !.to = u, !.grown = TRUE]
      BY <1>2, <1>6 DEF Later, Settled, TermType
    <3>2. Made(k)' /\ term[k].from <= u /\ day < u
      BY <1>1, <1>6 DEF Made, Later
    <3> HIDE DEF u
    <3>3. [term[k] EXCEPT !.to = u, !.grown = TRUE].owner = term[k].owner
          /\ [term[k] EXCEPT !.to = u, !.grown = TRUE].from = term[k].from
          /\ [term[k] EXCEPT !.to = u, !.grown = TRUE].status = term[k].status
          /\ [term[k] EXCEPT !.to = u, !.grown = TRUE].grown = TRUE
      BY <3>1 DEF TermType
    <3> QED BY <3>1, <3>2, <3>3 DEF u
  <2> QED BY <1>0, <1>2, <2>1 DEF Stays, AsSold, Active, Waiting
<1> QED BY <1>3, <1>4, <1>5, <1>6, CommitOne DEF Bought

-----------------------------------------------------------------------------
(* A refused transfer: the plans it had ended are cut, all others stay.      *)

LEMMA RefusedOne ==
  ASSUME IInv, NEW l \in Learners, ConfirmRefused(l), NEW k \in Causes
  PROVE  Same(k) \/ (Cut(k) /\ term'[k] \in TermType)
<1>0. /\ TypeOK /\ TermInv /\ SaleInv /\ day \in Nat /\ Decided(l) /\ Nowhere \notin Causes
      /\ term'[k] = IF EndedBefore(l, k) THEN EndToday(k) ELSE term[k]
  BY DayFacts, CauseFacts DEF IInv, TxInv, ConfirmRefused
<1>1. CASE EndedBefore(l, k)
  <2>1. Ending(k)
    <3>1. CASE k = tx[l].ends
      BY <1>0, <3>1 DEF Decided
    <3>2. CASE k = <<"trial", l>> /\ k \in Lasting(l)
      <4>1. Settled(k) /\ term[k].to > day /\ k[1] = "trial" /\ term[k].to \in Nat
        BY <1>0, <3>2, LastingFacts, TermFacts DEF Settled
      <4> QED BY <1>0, <4>1 DEF Ending, TermInv, Settled
    <3> QED BY <1>1, <3>1, <3>2 DEF EndedBefore
  <2>2. term[k] \in TermType
    BY <1>0, <2>1, TermFacts DEF Ending, Settled
  <2> QED BY <1>0, <1>1, <2>1, <2>2 DEF Ending, EndToday, Cut, TermType
<1>2. CASE ~ EndedBefore(l, k)
  BY <1>0, <1>2 DEF Same
<1> QED BY <1>1, <1>2

LEMMA ConfirmRefusedInv == ASSUME IInv, NEW l \in Learners, ConfirmRefused(l) PROVE IInv'
<1>0. /\ TypeOK /\ TermInv /\ SaleInv /\ OneWaiting /\ SoldWithoutOverlap /\ day \in Nat
      /\ tx' = [tx EXCEPT ![l] = NoTx] /\ UNCHANGED <<day, sold, referral, rewards, used>>
  BY DayFacts DEF IInv, ConfirmRefused
<1>1. TypeOK'
  <2>1. \A k \in Causes : term'[k] \in TermType \cup {NoTerm}
    BY <1>0, RefusedOne DEF Same, TypeOK
  <2>2. term' \in [Causes -> TermType \cup {NoTerm}]
    BY <2>1 DEF ConfirmRefused
  <2> QED BY <1>0, <2>2 DEF TypeOK
<1>2. ASSUME NEW k \in Causes
      PROVE  /\ Settled(k) => Stays(k)
             /\ Made(k)' = Made(k) /\ term'[k].owner = term[k].owner
             /\ term'[k].from = term[k].from /\ term'[k].status = term[k].status
             /\ Made(k) => term'[k].from <= term'[k].to /\ term'[k].to <= term[k].to
             /\ term'[k].grown = term[k].grown
  <2>1. Made(k) => /\ term[k] \in TermType /\ term[k].from \in Nat /\ term[k].to \in Nat
                   /\ term[k].from <= term[k].to
    BY <1>0, TermFacts DEF TermInv
  <2>2. CASE Same(k)
    BY <1>0, <2>1, <2>2 DEF Same, Settled, Stays, Made
  <2>3. CASE Cut(k) /\ term'[k] \in TermType
    <3>1. NoTerm \notin TermType
      BY NoOneAssumption DEF TermType, NoTerm
    <3>2. /\ Made(k) /\ Made(k)' /\ term'[k].owner = term[k].owner /\ term'[k].from = term[k].from
          /\ term'[k].to = day /\ term'[k].status = term[k].status /\ term'[k].grown = term[k].grown
          /\ term[k].from <= day /\ day <= term[k].to
      BY <2>1, <2>3, <3>1 DEF Cut, Settled, Made, TermType
    <3> QED BY <1>0, <2>1, <3>2 DEF Stays
  <2> QED BY <2>2, <2>3, RefusedOne
<1>3. \A k \in Causes : (AsSold(k)' <=> AsSold(k)) /\ (Waiting(k)' <=> Waiting(k))
  BY <1>0, <1>2 DEF AsSold, Active, Waiting
<1>4. TermInv'
  BY <1>0, <1>2 DEF TermInv
<1>5. SaleInv'
  BY <1>0, <1>2, CauseFacts DEF SaleInv
<1>6. OneWaiting'
  BY <1>0, <1>2, <1>3 DEF OneWaiting
<1>7. SoldWithoutOverlap'
  <2>1. ASSUME NEW j \in Causes, NEW k \in Causes, j # k, term'[j].owner = term'[k].owner,
               AsSold(j)', AsSold(k)'
        PROVE  ~ (term'[j].from < term'[k].to /\ term'[k].from < term'[j].to)
    <3>1. /\ AsSold(j) /\ AsSold(k) /\ Made(j) /\ Made(k) /\ term[j].owner = term[k].owner
          /\ term'[j].from = term[j].from /\ term'[j].to <= term[j].to
          /\ term'[k].from = term[k].from /\ term'[k].to <= term[k].to
      BY <1>2, <1>3, <2>1 DEF AsSold
    <3>2. ~ (term[j].from < term[k].to /\ term[k].from < term[j].to)
      BY <1>0, <2>1, <3>1 DEF SoldWithoutOverlap, SameOwner, Overlap, AsSold
    <3>3. /\ term'[j] \in TermType /\ term'[k] \in TermType /\ term[j] \in TermType
          /\ term[k] \in TermType
      BY <1>0, <1>1, <2>1, <3>1 DEF TypeOK, AsSold, Made
    <3> QED BY <3>1, <3>2, <3>3 DEF TermType
  <2>2. \A k \in Causes : Active(k)' => Made(k)'
    BY DEF Active, Made, NoTerm
  <2> QED BY <2>1, <2>2 DEF SoldWithoutOverlap, SameOwner, Overlap, AsSold
<1>8. TxInv'
  <2>1. ASSUME NEW m \in Learners, m # l
        PROVE  /\ tx'[m].pc \in {"check", "commit"} => Decided(m)'
               /\ tx'[m].pc = "commit" => Checked(m)'
               /\ tx'[m].pc = "extend" => Moving(tx[m].cause, tx[m].until)'
    <3>1. ASSUME NEW k \in Causes PROVE (Settled(k) => Stays(k)) /\ Shrinks(k, m)
      BY <1>2, <1>3 DEF Shrinks, AsSold
    <3>2. tx'[m] = tx[m]
      BY <1>0, <2>1 DEF TypeOK
    <3> QED BY <1>0, <1>1, <3>1, <3>2, TxKept
  <2>2. tx'[l].pc = "idle" /\ \A m \in Learners : m # l => tx'[m] = tx[m]
    BY <1>0 DEF TypeOK, NoTx
  <2> QED BY <2>1, <2>2 DEF TxInv
<1>9. ReferralInv' /\ RewardedOnce'
  BY <1>0 DEF IInv, ReferralInv, RewardedOnce
<1> QED BY <1>1, <1>4, <1>5, <1>6, <1>7, <1>8, <1>9 DEF IInv

-----------------------------------------------------------------------------
(* The commit of a confirmation as a whole.                                  *)

LEMMA ConfirmCommitType == ASSUME IInv, NEW l \in Learners, ConfirmCommit(l) PROVE TypeOK'
<1>x. PICK x : x = tx[l]
  OBVIOUS
<1>0. /\ TypeOK /\ day \in Nat /\ RewardDays \in Nat /\ x.pc = "commit" /\ Checked(l)
      /\ x.p \in Purchases /\ x.to \in Nat /\ x.until \in Nat /\ x.gift \in Causes \cup {Nowhere}
  BY <1>x, DayFacts, TxFacts DEF IInv, TxInv, ConfirmCommit
<1>1. term' \in [Causes -> TermType \cup {NoTerm}]
  <2>1. ASSUME NEW k \in Causes PROVE Committed(l, k) \in TermType \cup {NoTerm}
    <3>1. term'[k] = Committed(l, k)
      BY DEF ConfirmCommit
    <3> QED BY <1>0, <3>1, CommitOne DEF Same, TypeOK
  <2> QED BY <2>1 DEF ConfirmCommit
<1>2. sold' \subseteq Purchases /\ day' \in 0 .. MaxDay /\ used' \subseteq AdminKeys
  BY <1>0, <1>x DEF ConfirmCommit, TypeOK
<1>3. tx' \in [Learners -> SaleTxType \cup GrowTxType \cup {NoTx}]
  BY <1>0 DEF ConfirmCommit, TypeOK
<1>4. referral' \in [Learners -> ReferralType \cup {NoReferral}] /\ rewards' \subseteq RewardType
  <2>1. CASE x.gift = Nowhere
    BY <1>0, <1>x, <2>1 DEF ConfirmCommit, TypeOK
  <2>2. CASE x.gift # Nowhere
    <3>1. referral[l].by \in Learners /\ referral[l] \in ReferralType
      BY <1>0, <1>x, <2>2, ReferralFacts DEF Checked
    <3>2. referral' = [referral EXCEPT ![l].status = "REWARDED"]
      BY <1>x, <2>2 DEF ConfirmCommit
    <3>3. [referral[l] EXCEPT !.status = "REWARDED"] \in ReferralType
      BY <3>1 DEF ReferralType
    <3>4. referral' \in [Learners -> ReferralType \cup {NoReferral}]
      BY <1>0, <3>2, <3>3 DEF TypeOK
    <3>5. x.to + RewardDays \in Nat /\ <<"sale", x.p>> \in Causes /\ x.gift \in Causes
      BY <1>0, <2>2, CauseFacts
    <3>6. \A m \in Learners, k \in Causes, end \in Nat : Event(l, m, k, end) \in RewardType
      BY DEF Event, RewardType
    <3>7. /\ Event(l, l, <<"sale", x.p>>, x.to + RewardDays) \in RewardType
          /\ Event(l, referral[l].by, x.gift, x.until) \in RewardType
      BY <1>0, <3>1, <3>5, <3>6
    <3>8. rewards' = rewards \cup {Event(l, l, <<"sale", x.p>>, x.to + RewardDays),
                                   Event(l, referral[l].by, x.gift, x.until)}
      BY <1>x, <2>2 DEF ConfirmCommit
    <3>9. rewards' \subseteq RewardType
      BY <1>0, <3>7, <3>8 DEF TypeOK
    <3> QED BY <3>4, <3>9
  <2> QED BY <2>1, <2>2
<1> QED BY <1>1, <1>2, <1>3, <1>4 DEF TypeOK

\* The referral of l, and of nobody else, is rewarded by its commit.
LEMMA ConfirmCommitReferral ==
  ASSUME IInv, NEW l \in Learners, ConfirmCommit(l)
  PROVE  /\ ReferralInv' /\ RewardedOnce'
         /\ \A m \in Learners : m # l => referral'[m] = referral[m]
<1>x. PICK x : x = tx[l]
  OBVIOUS
<1>0. TypeOK /\ TypeOK' /\ ReferralInv /\ RewardedOnce /\ x.pc = "commit" /\ Checked(l)
  BY <1>x, ConfirmCommitType DEF IInv, TxInv, ConfirmCommit
<1>1. CASE x.gift = Nowhere
  <2>1. UNCHANGED <<referral, rewards>>
    BY <1>x, <1>1 DEF ConfirmCommit
  <2> QED BY <1>0, <2>1 DEF ReferralInv, RewardedOnce
<1>2. CASE x.gift # Nowhere
  <2>e. PICK e1, e2 : /\ e1 = Event(l, l, <<"sale", x.p>>, x.to + RewardDays)
                      /\ e2 = Event(l, referral[l].by, x.gift, x.until)
    OBVIOUS
  <2>m. PICK m \in Learners : m = referral[l].by /\ m # l
    BY <1>0, <1>x, <1>2, ReferralFacts DEF Checked, ReferralInv
  <2>1. /\ referral' = [referral EXCEPT ![l].status = "REWARDED"]
        /\ rewards' = rewards \cup {e1, e2}
    BY <1>x, <1>2, <2>e DEF ConfirmCommit
  <2>2. e1.of = l /\ e1.for = l /\ e2.of = l /\ e2.for = m
    BY <2>e, <2>m DEF Event
  <2>3. referral[l].status = "PENDING" /\ referral[l] \in ReferralType
    BY <1>0, <1>x, <1>2, ReferralFacts DEF Checked
  <2>4. \A e \in rewards : e.of \in Learners /\ e.of # l
    BY <1>0, <2>3 DEF ReferralInv, TypeOK, RewardType
  <2>5. /\ referral'[l].status = "REWARDED" /\ referral'[l].by = m
        /\ \A n \in Learners : n # l => referral'[n] = referral[n]
    BY <1>0, <2>1, <2>3, <2>m DEF TypeOK, ReferralType
  <2>6. ReferralInv'
    <3>1. \A n \in Learners : referral'[n] # NoReferral => referral'[n].by # n
      BY <1>0, <2>5, <2>m DEF ReferralInv
    <3>2. ASSUME NEW e \in rewards'
          PROVE  referral'[e.of].status = "REWARDED" /\ e.for \in {e.of, referral'[e.of].by}
      BY <1>0, <2>1, <2>2, <2>4, <2>5 DEF ReferralInv
    <3> QED BY <3>1, <3>2 DEF ReferralInv
  <2>7. ASSUME NEW e \in rewards', NEW f \in rewards', e.of = f.of, e.for = f.for PROVE e = f
    BY <1>0, <2>1, <2>2, <2>4, <2>7, <2>m DEF RewardedOnce
  <2>8. ASSUME NEW n \in Learners
        PROVE  referral'[n].status = "REWARDED" <=>
                 \E e, f \in rewards' : e.of = n /\ e.for = n /\ f.of = n /\ f.for = referral'[n].by
    <3>1. CASE n = l
      BY <2>1, <2>2, <2>5, <3>1
    <3>2. CASE n # l
      BY <1>0, <2>1, <2>2, <2>5, <3>2 DEF RewardedOnce
    <3> QED BY <3>1, <3>2
  <2> QED BY <2>5, <2>6, <2>7, <2>8 DEF RewardedOnce
<1> QED BY <1>1, <1>2

LEMMA ConfirmCommitInv == ASSUME IInv, NEW l \in Learners, ConfirmCommit(l) PROVE IInv'
<1>x. PICK x : x = tx[l]
  OBVIOUS
<1>s. PICK s : s = <<"sale", x.p>>
  OBVIOUS
<1>0. /\ TypeOK /\ TypeOK' /\ TermInv /\ SaleInv /\ OneWaiting /\ SoldWithoutOverlap
      /\ x.pc = "commit" /\ Decided(l) /\ Checked(l) /\ UNCHANGED <<day, used>>
      /\ sold' = sold \cup {x.p} /\ tx' = [tx EXCEPT ![l] = NoTx] /\ day \in Nat
  BY <1>x, ConfirmCommitType, DayFacts DEF IInv, TxInv, ConfirmCommit
<1>1. /\ x.p \in Purchases /\ Owner[x.p] = l /\ x.p \notin sold /\ s \in Causes /\ s[1] = "sale"
      /\ x.from \in Nat /\ x.to \in Nat /\ day <= x.from /\ x.from <= x.to
      /\ x.ends \in Causes \cup {Nowhere} /\ ~ Made(s) /\ Nowhere \notin Causes
  BY <1>0, <1>x, <1>s, TxFacts, CauseFacts DEF Decided, SaleInv
<1>2. /\ term'[s].owner = l /\ term'[s].from = x.from /\ x.to <= term'[s].to
      /\ ~ term'[s].grown => term'[s].to = x.to
      /\ term'[s] \in TermType /\ Made(s)'
  <2>1. Bought(s, l) /\ (Same(s) \/ term'[s] \in TermType)
    BY <1>1, <1>x, <1>s, CommitOne
  <2>2. term[s] = NoTerm /\ NoTerm.owner = NoOne
    BY <1>1 DEF Made, NoTerm
  <2>3. term'[s] \in TermType
    BY <2>1, <2>2, NoOneAssumption DEF Bought, Same
  <2> QED BY <1>x, <2>1, <2>3, NoOneAssumption DEF Bought, Made, TermType, NoTerm
<1>3. \A k \in Causes \ {s} :
        /\ Settled(k) => Stays(k)
        /\ k[1] # "week" => Made(k)' = Made(k) /\ term'[k].owner = term[k].owner
        /\ Made(k)' => term'[k].from <= term'[k].to /\ (k[1] # "sale" => term'[k].from <= day)
        /\ AsSold(k)' => /\ AsSold(k) /\ term'[k].owner = term[k].owner
                         /\ term'[k].from = term[k].from /\ term'[k].to <= term[k].to
        /\ Made(k)' /\ Waiting(k)' => Made(k) /\ Waiting(k) /\ term'[k].owner = term[k].owner
  BY <1>0, <1>x, <1>s, CommitOther
<1>4. TermInv'
  <2>1. ASSUME NEW k \in Causes, Made(k)'
        PROVE  term'[k].from <= term'[k].to /\ (k[1] # "sale" => term'[k].from <= day)
    <3>1. CASE k = s
      <4>1. term'[s].to \in Nat
        BY <1>2 DEF TermType
      <4> QED BY <1>1, <1>2, <3>1, <4>1
    <3> QED BY <1>3, <2>1, <3>1
  <2> QED BY <1>0, <2>1 DEF TermInv
<1>5. SaleInv'
  <2>1. ASSUME NEW p \in Purchases
        PROVE  IF p \in sold' THEN term'[<<"sale", p>>].owner = Owner[p] ELSE ~ Made(<<"sale", p>>)'
    <3>1. <<"sale", p>> \in Causes /\ <<"sale", p>>[1] # "week" /\ (p # x.p => <<"sale", p>> # s)
      BY <1>s, CauseFacts
    <3>2. CASE p = x.p
      BY <1>0, <1>1, <1>2, <1>s, <3>2
    <3>3. CASE p # x.p
      BY <1>0, <1>3, <3>1, <3>3 DEF SaleInv
    <3> QED BY <3>2, <3>3
  <2> QED BY <2>1 DEF SaleInv
<1>6. OneWaiting'
  <2>1. Waiting(s)' => \A k \in Causes : Made(k) /\ Waiting(k) => term[k].owner # l
    BY <1>0, <1>2, <1>x DEF Waiting, Decided
  <2>2. ASSUME NEW j \in Causes, NEW k \in Causes, Made(j)', Made(k)',
               term'[j].owner = term'[k].owner, Waiting(j)', Waiting(k)'
        PROVE  j = k
    <3>1. CASE j = s \/ k = s
      BY <1>2, <1>3, <2>1, <2>2, <3>1
    <3>2. CASE j # s /\ k # s
      BY <1>0, <1>3, <2>2, <3>2 DEF OneWaiting
    <3> QED BY <3>1, <3>2
  <2> QED BY <2>2 DEF OneWaiting
<1>7. SoldWithoutOverlap'
  <2>1. ASSUME NEW k \in Causes, k # s, AsSold(k)', term'[k].owner = l, AsSold(s)'
        PROVE  ~ (term'[k].from < term'[s].to /\ term'[s].from < term'[k].to)
    <3>1. /\ AsSold(k) /\ term[k].owner = l /\ term'[k].from = term[k].from /\ term'[k].to <= term[k].to
          /\ Made(k) /\ Made(k)' /\ Active(k)
      BY <1>3, <2>1 DEF AsSold
    <3>2. term[k].to \in Nat /\ term'[k].to \in Nat /\ term[k].from \in Nat
      <4>1. term'[k] \in TermType
        BY <1>0, <3>1 DEF TypeOK, Made
      <4> QED BY <1>0, <3>1, <4>1, TermFacts DEF TermType
    <3>3. term'[s].from = x.from /\ term'[s].to = x.to
      BY <1>2, <2>1 DEF AsSold
    <3>4. CASE k \notin {x.ends, <<"trial", l>>}
      <4>1. ~ (term[k].from < x.to /\ x.from < term[k].to)
        BY <1>0, <1>x, <3>1, <3>4 DEF Checked
      <4> QED BY <1>1, <3>1, <3>2, <3>3, <4>1
    <3>5. CASE Cut(k)
      <4>1. term'[k].to = day
        BY <1>0, <3>1, <3>5, TermFacts DEF Cut, TermType
      <4> QED BY <1>0, <1>1, <3>2, <3>3, <4>1
    <3>6. CASE k = <<"trial", l>> /\ k \notin Lasting(l)
      <4>1. term[k].to <= day
        BY <1>0, <3>1, <3>2, <3>6 DEF Lasting, Of, Active
      <4> QED BY <1>0, <1>1, <3>1, <3>2, <3>3, <4>1
    <3>7. k = <<"sale", tx[l].p>> \/ (k # tx[l].ends /\ ~ (k = <<"trial", l>> /\ k \in Lasting(l))) \/ Cut(k)
      BY CommitOne
    <3> QED BY <1>x, <1>s, <2>1, <3>4, <3>5, <3>6, <3>7
  <2>2. ASSUME NEW j \in Causes, NEW k \in Causes, j # k, term'[j].owner = term'[k].owner,
               AsSold(j)', AsSold(k)'
        PROVE  ~ (term'[j].from < term'[k].to /\ term'[k].from < term'[j].to)
    <3>1. CASE j = s \/ k = s
      BY <1>2, <2>1, <2>2, <3>1
    <3>2. CASE j # s /\ k # s
      <4>1. /\ AsSold(j) /\ AsSold(k) /\ term[j].owner = term[k].owner
            /\ term'[j].from = term[j].from /\ term'[j].to <= term[j].to
            /\ term'[k].from = term[k].from /\ term'[k].to <= term[k].to
        BY <1>3, <2>2, <3>2
      <4>2. ~ (term[j].from < term[k].to /\ term[k].from < term[j].to)
        BY <1>0, <2>2, <4>1 DEF SoldWithoutOverlap, SameOwner, Overlap, AsSold
      <4>3. /\ term'[j] \in TermType /\ term'[k] \in TermType /\ term[j] \in TermType
            /\ term[k] \in TermType
        BY <1>0, <2>2, <4>1 DEF TypeOK, AsSold, Made
      <4> QED BY <4>1, <4>2, <4>3 DEF TermType
    <3> QED BY <3>1, <3>2
  <2>3. \A k \in Causes : Active(k)' => Made(k)'
    BY DEF Active, Made, NoTerm
  <2> QED BY <2>2, <2>3 DEF SoldWithoutOverlap, SameOwner, Overlap, AsSold
<1>8. TxInv'
  <2>1. ASSUME NEW m \in Learners, m # l
        PROVE  /\ tx'[m].pc \in {"check", "commit"} => Decided(m)'
               /\ tx'[m].pc = "commit" => Checked(m)'
               /\ tx'[m].pc = "extend" => Moving(tx[m].cause, tx[m].until)'
    <3>1. ASSUME NEW k \in Causes PROVE (Settled(k) => Stays(k)) /\ Shrinks(k, m)
      <4>1. CASE k = s
        BY <1>1, <1>2, <2>1, <4>1 DEF Settled, Shrinks
      <4>2. CASE k # s
        BY <1>3, <4>2 DEF Shrinks
      <4> QED BY <4>1, <4>2
    <3>2. tx'[m] = tx[m] /\ sold \subseteq sold' /\ \A p \in sold' \ sold : Owner[p] # m
      BY <1>0, <1>1, <2>1 DEF TypeOK
    <3>3. referral'[m] = referral[m]
      BY <2>1, ConfirmCommitReferral
    <3> QED BY <1>0, <3>1, <3>2, <3>3, TxKept
  <2>2. tx'[l].pc = "idle"
    BY <1>0 DEF TypeOK, NoTx
  <2>3. \A m \in Learners : m # l => tx'[m] = tx[m]
    BY <1>0 DEF TypeOK
  <2> QED BY <2>1, <2>2, <2>3 DEF TxInv
<1> QED BY <1>0, <1>4, <1>5, <1>6, <1>7, <1>8, ConfirmCommitReferral DEF IInv

-----------------------------------------------------------------------------
(* The theorems.                                                             *)

LEMMA StutterInv == ASSUME IInv, UNCHANGED vars PROVE IInv'
<1>1. UNCHANGED <<day, term, sold, referral, rewards, used, tx>>
  BY DEF vars
<1>2. TypeOK' /\ TermInv' /\ SaleInv' /\ OneWaiting' /\ ReferralInv' /\ RewardedOnce'
  BY <1>1 DEF IInv, TypeOK, TermInv, SaleInv, OneWaiting, Made, Waiting, ReferralInv, RewardedOnce
<1>3. SoldWithoutOverlap'
  BY <1>1 DEF IInv, SoldWithoutOverlap, SameOwner, Overlap, Active
<1>4. TxInv'
  <2>1. ASSUME NEW m \in Learners
        PROVE  /\ tx'[m].pc \in {"check", "commit"} => Decided(m)'
               /\ tx'[m].pc = "commit" => Checked(m)'
               /\ tx'[m].pc = "extend" => Moving(tx[m].cause, tx[m].until)'
    <3>1. \A k \in Causes : (Settled(k) => Stays(k)) /\ Shrinks(k, m)
      BY <1>1, SameTerm DEF IInv
    <3> QED BY <1>1, <1>2, <3>1, TxKept
  <2> QED BY <1>1, <2>1 DEF TxInv
<1> QED BY <1>2, <1>3, <1>4 DEF IInv

LEMMA NextInv == IInv /\ [Next]_vars => IInv'
<1> SUFFICES ASSUME IInv, [Next]_vars PROVE IInv'
  OBVIOUS
<1>1. ASSUME NEW l \in Learners,
             \/ ConfirmCheck(l) \/ ConfirmRefused(l) \/ ConfirmCommit(l) \/ Rollback(l)
             \/ GrantTrial(l)
      PROVE  IInv'
  BY <1>1, ConfirmCheckInv, ConfirmRefusedInv, ConfirmCommitInv, RollbackInv, GrantTrialInv
<1>2. ASSUME NEW l \in Learners, NEW m \in Learners, Claim(l, m) PROVE IInv'
  BY <1>2, ClaimInv
<1>3. ASSUME NEW l \in Learners, NEW key \in AdminKeys, AdminExtended(l, key) PROVE IInv'
  BY <1>3, AdminExtendedInv
<1>4. ASSUME NEW l \in Learners, NEW key \in AdminKeys, NEW plan \in Plans, AdminGrant(key, l, plan)
      PROVE  IInv'
  BY <1>4, AdminGrantInv
<1>5. ASSUME NEW p \in Purchases, NEW plan \in Plans, ConfirmStart(p, plan) PROVE IInv'
  BY <1>5, ConfirmStartInv
<1>6. ASSUME NEW k \in Causes, AdminExtend(k) PROVE IInv'
  BY <1>6, AdminExtendInv
<1>7. ASSUME NEW k \in Causes, NEW key \in AdminKeys, AdminRevoke(k, key) PROVE IInv'
  BY <1>7, AdminRevokeInv
<1>8. CASE Tick
  BY <1>8, TickInv
<1>9. CASE UNCHANGED vars
  BY <1>9, StutterInv
<1> QED BY <1>1, <1>2, <1>3, <1>4, <1>5, <1>6, <1>7, <1>8, <1>9 DEF Next

LEMMA Inductive == Spec => []IInv
BY InitInv, NextInv, PTL DEF Spec

\* The subscriptions, the referrals, the events and the transactions under way have their
\* types, whatever confirmation rolls back.
THEOREM TypeCorrect == Spec => []TypeOK
<1>1. IInv => TypeOK
  BY DEF IInv
<1> QED BY <1>1, Inductive, PTL

\* What confirmPurchaseInTransaction sells, grantPlusTrialOnce tries and an admin gives a
\* learner never overlap, although the reward of a friend's purchase writes his plans
\* without his lock, as long as nothing moved their ends later.
THEOREM SoldApart == Spec => []SoldWithoutOverlap
<1>1. IInv => SoldWithoutOverlap
  BY DEF IInv
<1> QED BY <1>1, Inductive, PTL

\* decideRenewal refuses while a plan waits to begin, and what it decided still holds at
\* the commit: one plan of a learner waits at most, rewards or not.
THEOREM OneWaits == Spec => []OneQueued
<1>1. IInv => OneQueued
  <2> SUFFICES ASSUME IInv, NEW l \in Learners, NEW j \in Queued(l), NEW k \in Queued(l) PROVE j = k
    BY DEF OneQueued
  <2>1. \A i \in Queued(l) : i \in Causes /\ Made(i) /\ term[i].owner = l /\ Waiting(i)
    <3> SUFFICES ASSUME NEW i \in Queued(l)
                 PROVE  i \in Causes /\ Made(i) /\ term[i].owner = l /\ Waiting(i)
      OBVIOUS
    <3>1. i \in Lasting(l) /\ i[1] # "trial" /\ term[i].from > day
      BY DEF Queued, Paid
    <3> QED BY <3>1, LastingFacts DEF IInv, Settled, Active, Waiting
  <2> QED BY <2>1 DEF IInv, OneWaiting
<1> QED BY <1>1, Inductive, PTL

\* rewardOnFirstPayment pays a referral once, both sides or neither.
THEOREM ReferralPaysOnce == Spec => []RewardedOnce
<1>1. IInv => RewardedOnce
  BY DEF IInv
<1> QED BY <1>1, Inductive, PTL

\* A purchase is completed with its plan: sold and given in one commit.
THEOREM SoldWithItsPlan == Spec => []SoldIsGiven
<1>1. IInv => SoldIsGiven
  <2> SUFFICES ASSUME IInv, NEW p \in Purchases PROVE p \in sold <=> term[<<"sale", p>>].owner = Owner[p]
    BY DEF SoldIsGiven
  <2>1. <<"sale", p>> \in Causes /\ Owner[p] \in Learners
    BY CauseFacts, OwnerAssumption
  <2> QED BY <2>1, TermFacts DEF IInv, SaleInv
<1> QED BY <1>1, Inductive, PTL

=============================================================================
