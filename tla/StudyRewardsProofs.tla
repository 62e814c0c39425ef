-------------------------- MODULE StudyRewardsProofs --------------------------
(* For every number of practices, quizzes, days and faults, every cap, quota   *)
(* and quest: caps hold, the quest pays once, a streak counts no day twice and *)
(* the rollover decides about a learner once.                                 *)
EXTENDS StudyRewards, FiniteSetTheorems, TLAPS

-----------------------------------------------------------------------------
(* The inductive invariant: what locks are for.                              *)

\* No two transactions hold the same lock.
Apart == \A p, q \in Practices : p # q => tx[p].locks \cap tx[q].locks = {}

Rewarding(p) == tx[p].step \in {"daily", "pay"}

\* Where the handler is, given where its transaction is.
Placed(p) ==
  /\ tx[p].step = "none" => tx[p].locks = {}
  /\ tx[p].step \in {"quest", "streak"} => Stage(p, "quest")
  /\ tx[p].step = "write" => Stage(p, "xp") \/ Stage(p, "quest")
  /\ tx[p].step = "quota" => Stage(p, "bread")
  /\ Rewarding(p) => Stage(p, "bread") \/ Stage(p, "quest")

\* The locks it holds by then, and what they keep as it was read.
Held(p) ==
  /\ Stage(p, "quest") /\ tx[p].step \in {"streak", "write", "daily", "pay"} =>
       QuestLock(tx[p].today) \in tx[p].locks /\ progress[tx[p].today] = Target - 1
  /\ tx[p].step = "write" \/ (Stage(p, "quest") /\ Rewarding(p)) => StreakLock \in tx[p].locks
  /\ Stage(p, "bread") /\ practice[p].kind = "speaking" /\ Rewarding(p) =>
       DailyLock(tx[p].today) \in tx[p].locks /\ spoken[tx[p].today] < Quota
  /\ tx[p].step = "pay" =>
       DailyLock(tx[p].payday) \in tx[p].locks /\ earned[tx[p].payday] + tx[p].grant <= Cap
  /\ StatsLock \in tx[p].locks => Stage(p, "quest") /\ Rewarding(p)

TxInv == \A p \in Practices : Placed(p) /\ Held(p)

\* A queued job has an attempt left, a running one is active.
JobInv ==
  /\ job.state \in {"none", "queued"} => job.tries < JobAttempts
  /\ rollover.pc # "idle" => job.state = "active"

LockInv == TypeOK /\ BreadWithinCaps /\ QuestPaidWhenDone /\ JobInv /\ Apart /\ TxInv

\* The days of practice are no later than the day of the row, nor that than today.
DatesInv == stats.last <= day /\ \A d \in active : d <= stats.last

\* The days a transaction works with: today's, or yesterday's since midnight.
Recent(p) ==
  /\ Opened(p) => tx[p].today \in day - 1 .. day
  /\ tx[p].step = "write" \/ StatsLock \in tx[p].locks => tx[p].now \in tx[p].today .. day

\* What the row read under the streak's lock still says.
RowRead(p) ==
  tx[p].step = "write" =>
    /\ tx[p].row.last <= tx[p].now
    /\ \A d \in active : d <= tx[p].row.last
    /\ Recorded(tx[p].row, tx[p].now) => tx[p].now <= stats.last

\* The row a quest is about to leave behind is right once its day is added.
RowWritten(p) ==
  StatsLock \in tx[p].locks =>
    /\ tx[p].row.last = tx[p].now
    /\ tx[p].row.streak <= Cardinality(active \cup {tx[p].now})
    /\ \A d \in active : d <= tx[p].now

StreakInv ==
  /\ StreakEarned /\ DatesInv
  /\ \A p \in Practices : Recent(p) /\ RowRead(p) /\ RowWritten(p)

\* What the rollover of today has decided stays decided.
RolloverInv ==
  /\ RolledOverOnce
  /\ processed <= day
  /\ \A d \in Days : d > day => settled[d] = 0
  /\ settled[day] = 1 => ~ Lapsed(stats, day)
  /\ rollover.pc = "write" => settled[day] = 0
  /\ rollover.pc = "mark" => processed = day \/ ~ Lapsed(stats, day)

-----------------------------------------------------------------------------
(* Transactions and locks.                                                   *)

LEMMA LockFacts ==
  /\ \A d \in Days : QuestLock(d) \in Locks /\ DailyLock(d) \in Locks
  /\ StreakLock \in Locks /\ StatsLock \in Locks /\ NoLock \notin Locks
  /\ \A d, e : QuestLock(d) = QuestLock(e) => d = e
  /\ \A d, e : DailyLock(d) = DailyLock(e) => d = e
  /\ \A d, e : QuestLock(d) # DailyLock(e)
  /\ \A d : QuestLock(d) \notin {StreakLock, StatsLock} /\ DailyLock(d) \notin {StreakLock, StatsLock}
  /\ StreakLock # StatsLock
BY NumbersAssumption DEF QuestLock, DailyLock, StreakLock, StatsLock, NoLock, Locks, Days

LEMMA TxFacts ==
  ASSUME TypeOK, NEW p \in Practices
  PROVE  /\ tx[p] \in TxType /\ tx[p].step \in Steps /\ tx[p].locks \subseteq Locks
         /\ tx[p].today \in Days /\ tx[p].payday \in Days /\ tx[p].now \in Days
         /\ tx[p].row \in StatsType /\ tx[p].grant \in Nat
         /\ practice[p] \in [kind : Kinds, stage : Stages]
         /\ practice[p].kind \in Kinds /\ practice[p].stage \in Stages
BY DEF TypeOK, TxType

LEMMA NoTxFacts ==
  /\ NoTx \in TxType /\ NoTx.step = "none" /\ NoTx.locks = {} /\ NoTx.grant = 0
  /\ NewRow \in StatsType /\ 0 \in Days
BY NumbersAssumption DEF NoTx, TxType, NewRow, StatsType, Steps, Locks, Days

\* A transaction that takes a lock is the only one to have it.
LEMMA TakeFacts ==
  ASSUME TypeOK, Apart, NEW p \in Practices, NEW l \in Locks, NEW t \in TxType,
         t.locks = tx[p].locks, Take(p, l, t)
  PROVE  /\ tx' \in [Practices -> TxType]
         /\ tx'[p].step = t.step /\ tx'[p].today = t.today /\ tx'[p].payday = t.payday
         /\ tx'[p].now = t.now /\ tx'[p].row = t.row /\ tx'[p].grant = t.grant
         /\ tx'[p].locks = tx[p].locks \cup {l}
         /\ \A q \in Practices : q # p => tx'[q] = tx[q] /\ tx'[p].locks \cap tx[q].locks = {}
<1> DEFINE u == [t EXCEPT !.locks = @ \cup {l}]
<1>1. /\ u.step = t.step /\ u.today = t.today /\ u.payday = t.payday /\ u.now = t.now
      /\ u.row = t.row /\ u.grant = t.grant /\ u.locks = tx[p].locks \cup {l}
  BY DEF TxType
<1>2. u \in TxType
  BY DEF TxType
<1>3. tx \in [Practices -> TxType] /\ tx' = [tx EXCEPT ![p] = u]
  BY DEF TypeOK, Take
<1> HIDE DEF u
<1>4. tx' \in [Practices -> TxType] /\ tx'[p] = u
      /\ \A q \in Practices : q # p => tx'[q] = tx[q]
  BY <1>2, <1>3
<1>5. \A q \in Practices : q # p => l \notin tx[q].locks /\ tx[p].locks \cap tx[q].locks = {}
  BY DEF Take, Free, Apart
<1> QED BY <1>1, <1>4, <1>5

\* A step of one practice that leaves what the others' locks guard alone.
LEMMA OneMoves ==
  ASSUME LockInv, NEW p \in Practices, Placed(p)', Held(p)',
         \A q \in Practices : q # p =>
           tx'[q] = tx[q] /\ practice'[q] = practice[q] /\ tx'[p].locks \cap tx[q].locks = {},
         \A q \in Practices, d \in Days : q # p =>
           /\ QuestLock(d) \in tx[q].locks => progress'[d] = progress[d]
           /\ DailyLock(d) \in tx[q].locks => earned'[d] = earned[d] /\ spoken'[d] = spoken[d]
  PROVE  Apart' /\ TxInv'
<1>1. Apart'
  <2> SUFFICES ASSUME NEW q \in Practices, NEW r \in Practices, q # r
               PROVE  tx'[q].locks \cap tx'[r].locks = {}
    BY DEF Apart
  <2>1. tx[q].locks \cap tx[r].locks = {}
    BY DEF LockInv, Apart
  <2> QED BY <2>1
<1>2. ASSUME NEW q \in Practices, q # p PROVE Placed(q)' /\ Held(q)'
  <2>1. Placed(q) /\ Held(q) /\ tx'[q] = tx[q] /\ practice'[q] = practice[q]
    BY <1>2 DEF LockInv, TxInv
  <2>2. tx[q].today \in Days /\ tx[q].payday \in Days
    BY TxFacts DEF LockInv
  <2>3. Placed(q)'
    BY <2>1 DEF Placed, Stage, Rewarding
  <2>4. Held(q)'
    BY <1>2, <2>1, <2>2 DEF Held, Stage, Rewarding
  <2> QED BY <2>3, <2>4
<1> QED BY <1>1, <1>2 DEF TxInv

\* A transaction that ends holds nothing.
LEMMA OneEnds ==
  ASSUME LockInv, NEW p \in Practices, NEW s \in Stages, tx' = [tx EXCEPT ![p] = NoTx],
         practice' = [practice EXCEPT ![p].stage = s],
         \A q \in Practices, d \in Days : q # p =>
           /\ QuestLock(d) \in tx[q].locks => progress'[d] = progress[d]
           /\ DailyLock(d) \in tx[q].locks => earned'[d] = earned[d] /\ spoken'[d] = spoken[d]
  PROVE  /\ Apart' /\ TxInv' /\ tx' \in [Practices -> TxType]
         /\ practice' \in [Practices -> [kind : Kinds, stage : Stages]]
<1>1. tx \in [Practices -> TxType] /\ practice \in [Practices -> [kind : Kinds, stage : Stages]]
  BY DEF LockInv, TypeOK
<1>2. tx' \in [Practices -> TxType] /\ practice' \in [Practices -> [kind : Kinds, stage : Stages]]
  BY <1>1, NoTxFacts
<1>3. tx'[p].step = "none" /\ tx'[p].locks = {}
  BY <1>1, NoTxFacts
<1>4. Placed(p)' /\ Held(p)'
  BY <1>3 DEF Placed, Held, Rewarding
<1>5. \A q \in Practices : q # p =>
        tx'[q] = tx[q] /\ practice'[q] = practice[q] /\ tx'[p].locks \cap tx[q].locks = {}
  BY <1>1, <1>3
<1> QED BY <1>2, <1>4, <1>5, OneMoves

\* Steps that touch neither the rewards nor the transactions.
LEMMA OthersMove ==
  ASSUME LockInv, UNCHANGED <<rewards, tx, practice>>
  PROVE  BreadWithinCaps' /\ QuestPaidWhenDone' /\ Apart' /\ TxInv'
BY DEF LockInv, rewards, BreadWithinCaps, QuestPaidWhenDone, Apart, TxInv, Placed, Held, Stage, Rewarding

-----------------------------------------------------------------------------
(* Init.                                                                     *)

LEMMA DaysFinite == ASSUME NEW S \in SUBSET Days PROVE IsFiniteSet(S) /\ Cardinality(S) \in Nat
<1>1. IsFiniteSet(Days)
  BY NumbersAssumption, FS_Interval DEF Days
<1> QED BY <1>1, FS_Subset, FS_CardinalityType

LEMMA InitFacts ==
  ASSUME Init
  PROVE  /\ day \in Days /\ active \subseteq Days /\ stats \in StatsType
         /\ stats.streak = Cardinality(active) /\ stats.freezes = 0
         /\ stats.last < day
         /\ \A d \in active : d = stats.last
<1>1. day \in Days /\ day = FirstDay
  BY NumbersAssumption DEF Init, Days
<1>2. CASE active = {}
  <2>1. stats = [streak |-> 0, freezes |-> 0, last |-> Never] /\ Cardinality(active) = 0
    BY <1>2, FS_EmptySet DEF Init
  <2> QED BY <1>1, <1>2, <2>1, NumbersAssumption DEF StatsType, Never
<1>3. CASE \E d \in Days : d \in FirstDay - 2 .. FirstDay - 1 /\ active = {d}
  <2>1. PICK d \in Days : d \in FirstDay - 2 .. FirstDay - 1 /\ active = {d}
    BY <1>3
  <2>2. (CHOOSE e \in active : TRUE) = d /\ active # {}
    BY <2>1
  <2>3. Cardinality(active) = 1
    BY <2>1, FS_Singleton
  <2>4. stats = [streak |-> 1, freezes |-> 0, last |-> d]
    BY <2>2, <2>3 DEF Init
  <2> QED BY <1>1, <2>1, <2>3, <2>4, NumbersAssumption DEF StatsType
<1> QED BY <1>2, <1>3 DEF Init

LEMMA InitLock == Init => LockInv
<1> SUFFICES ASSUME Init PROVE LockInv
  OBVIOUS
<1>1. TypeOK
  <2>1. processed \in Days \cup {Never}
    BY NumbersAssumption DEF Init, Days
  <2>2. /\ earned \in [Days -> Nat] /\ spoken \in [Days -> Nat] /\ paid \in [Days -> Nat]
        /\ progress \in [Days -> 0 .. Target] /\ settled \in [Days -> Nat]
    BY NumbersAssumption DEF Init
  <2>3. practice \in [Practices -> [kind : Kinds, stage : Stages]]
    BY DEF Init, Kinds, Stages
  <2>4. tx \in [Practices -> TxType]
    BY NoTxFacts DEF Init
  <2>5. job \in JobType /\ rollover \in RolloverType
    BY NumbersAssumption DEF Init, JobType, NoJob, RolloverType, IdleRollover
  <2>6. bought \in 0 .. MaxFreezes /\ faults \in 0 .. MaxFaults /\ claimed \subseteq Quizzes
    BY NumbersAssumption DEF Init
  <2> QED BY <2>1, <2>2, <2>3, <2>4, <2>5, <2>6, InitFacts DEF TypeOK
<1>2. BreadWithinCaps /\ QuestPaidWhenDone
  BY NumbersAssumption DEF Init, BreadWithinCaps, QuestPaidWhenDone
<1>3. JobInv
  BY NumbersAssumption DEF Init, JobInv, NoJob, IdleRollover
<1>4. Apart /\ TxInv
  <2>1. \A p \in Practices : tx[p].locks = {} /\ tx[p].step = "none"
    BY NoTxFacts DEF Init
  <2> QED BY <2>1 DEF Apart, TxInv, Placed, Held, Rewarding
<1> QED BY <1>1, <1>2, <1>3, <1>4 DEF LockInv

-----------------------------------------------------------------------------
(* The steps of a practice, and the locks.                                   *)

LEMMA StudiedType ==
  ASSUME NEW seen \in StatsType, NEW cur \in StatsType, NEW now \in Days
  PROVE  Studied(seen, cur, now) \in StatsType
<1>1. /\ seen.streak \in Nat /\ seen.freezes \in Int /\ seen.last \in Days \cup {Never}
      /\ cur.streak \in Nat /\ cur.freezes \in Int /\ cur.last \in Days \cup {Never}
  BY DEF StatsType
<1>2. [cur EXCEPT !.streak = 1, !.last = now] \in StatsType
  BY <1>1 DEF StatsType
<1>3. [streak |-> cur.streak + 1, last |-> now, freezes |-> cur.freezes - 1] \in StatsType
  BY <1>1 DEF StatsType
<1>4. [cur EXCEPT !.streak = @ + 1, !.last = now] \in StatsType
  <2>1. cur.streak + 1 \in Nat
    BY <1>1
  <2>2. \A n \in Nat : [cur EXCEPT !.streak = n, !.last = now] \in StatsType
    BY <1>1 DEF StatsType
  <2> QED BY <2>1, <2>2
<1> QED BY <1>2, <1>3, <1>4 DEF Studied

\* The transaction goes on; nothing else changes.
LEMMA OnlyTx ==
  ASSUME LockInv, NEW p \in Practices, Placed(p)', Held(p)', tx' \in [Practices -> TxType],
         \A q \in Practices : q # p => tx'[q] = tx[q] /\ tx'[p].locks \cap tx[q].locks = {},
         UNCHANGED <<day, stats, rewards, claimed, practice, cron, bought, active, faults>>
  PROVE  LockInv'
<1>1. Apart' /\ TxInv'
  BY OneMoves DEF rewards
<1>2. TypeOK'
  BY DEF LockInv, TypeOK, rewards, cron
<1> QED BY <1>1, <1>2 DEF LockInv, BreadWithinCaps, QuestPaidWhenDone, JobInv, rewards, cron

LEMMA ReadStreakLock == ASSUME LockInv, NEW p \in Practices, ReadStreak(p) PROVE LockInv'
<1> DEFINE t == [tx[p] EXCEPT !.step = "write", !.now = day, !.row = stats,
                              !.today = IF Opened(p) THEN @ ELSE day]
<1>0. TypeOK /\ Apart /\ Placed(p) /\ Held(p) /\ day \in Days /\ stats \in StatsType
  BY DEF LockInv, TypeOK, TxInv
<1>1. /\ t \in TxType /\ t.locks = tx[p].locks /\ t.step = "write"
      /\ t.today = IF Opened(p) THEN tx[p].today ELSE day
  BY <1>0, TxFacts DEF TxType, Steps
<1>2. Take(p, StreakLock, t)
  BY DEF ReadStreak
<1> HIDE DEF t
<1>3. /\ tx' \in [Practices -> TxType] /\ tx'[p].step = "write" /\ tx'[p].today = t.today
      /\ tx'[p].locks = tx[p].locks \cup {StreakLock}
      /\ \A q \in Practices : q # p => tx'[q] = tx[q] /\ tx'[p].locks \cap tx[q].locks = {}
  BY <1>0, <1>1, <1>2, LockFacts, TakeFacts
<1>4. practice' = practice /\ progress' = progress
  BY DEF ReadStreak, rewards
<1>5. (Stage(p, "xp") /\ ~ Opened(p)) \/ tx[p].step = "streak"
  BY DEF ReadStreak, ReadsStreak
<1>6. Placed(p)'
  BY <1>0, <1>3, <1>4, <1>5 DEF Placed, Stage, Rewarding, Opened
<1>7. Held(p)'
  <2>1. StatsLock \notin tx'[p].locks
    BY <1>0, <1>3, <1>5, LockFacts DEF Held, Placed, Rewarding, Opened
  <2>2. CASE Stage(p, "xp") /\ ~ Opened(p)
    BY <1>3, <1>4, <2>1, <2>2 DEF Held, Rewarding, Stage
  <2>3. CASE tx[p].step = "streak"
    <3>1. QuestLock(tx[p].today) \in tx[p].locks /\ progress[tx[p].today] = Target - 1
      BY <1>0, <2>3 DEF Held, Placed
    <3>2. tx'[p].today = tx[p].today
      BY <1>1, <1>3, <2>3 DEF Opened
    <3> QED BY <1>3, <1>4, <2>1, <3>1, <3>2 DEF Held, Rewarding, Stage
  <2> QED BY <1>5, <2>2, <2>3
<1> QED BY <1>3, <1>6, <1>7, OnlyTx DEF ReadStreak

LEMMA WriteQuestStreakLock == ASSUME LockInv, NEW p \in Practices, WriteQuestStreak(p) PROVE LockInv'
<1> DEFINE t == [tx[p] EXCEPT !.step = "daily", !.payday = day]
           r == [t EXCEPT !.row = NewRow]
           w == [t EXCEPT !.row = Studied(tx[p].row, stats, tx[p].now)]
<1>0. /\ TypeOK /\ Apart /\ Placed(p) /\ Held(p) /\ day \in Days /\ stats \in StatsType
      /\ tx \in [Practices -> TxType]
  BY DEF LockInv, TypeOK, TxInv
<1>1. \A x \in {r, w} : x \in TxType /\ x.locks = tx[p].locks /\ x.step = "daily" /\ x.today = tx[p].today
  <2>1. Studied(tx[p].row, stats, tx[p].now) \in StatsType
    BY <1>0, TxFacts, StudiedType
  <2> QED BY <1>0, <2>1, TxFacts, NoTxFacts DEF TxType, Steps
<1>2. tx' = [tx EXCEPT ![p] = r] \/ Take(p, StatsLock, w)
  BY DEF WriteQuestStreak
<1> HIDE DEF t, r, w
<1>3. /\ tx' \in [Practices -> TxType] /\ tx'[p].step = "daily" /\ tx'[p].today = tx[p].today
      /\ tx[p].locks \subseteq tx'[p].locks
      /\ \A q \in Practices : q # p => tx'[q] = tx[q] /\ tx'[p].locks \cap tx[q].locks = {}
  <2>1. CASE tx' = [tx EXCEPT ![p] = r]
    BY <1>0, <1>1, <2>1 DEF Apart
  <2>2. CASE Take(p, StatsLock, w)
    BY <1>0, <1>1, <2>2, LockFacts, TakeFacts
  <2> QED BY <1>2, <2>1, <2>2
<1>4. practice' = practice /\ progress' = progress /\ Stage(p, "quest") /\ tx[p].step = "write"
  BY DEF WriteQuestStreak, rewards
<1>5. Placed(p)'
  BY <1>3, <1>4 DEF Placed, Stage, Rewarding
<1>6. Held(p)'
  BY <1>0, <1>3, <1>4 DEF Held, Stage, Rewarding
<1> QED BY <1>3, <1>5, <1>6, OnlyTx DEF WriteQuestStreak

\* A bread award or a quest opens its transaction, without a lock.
LEMMA StartsLock ==
  ASSUME LockInv, NEW p \in Practices, StartBread(p) \/ StartQuest(p) PROVE LockInv'
<1>0. /\ TypeOK /\ Placed(p) /\ day \in Days /\ tx \in [Practices -> TxType] /\ tx[p].step = "none"
  BY DEF LockInv, TypeOK, TxInv, StartBread, StartQuest, Opened
<1>1. PICK t \in TxType : /\ tx' = [tx EXCEPT ![p] = t] /\ t.locks = {}
                          /\ \/ Stage(p, "bread") /\ t.step = "quota"
                             \/ Stage(p, "bread") /\ t.step = "daily" /\ practice[p].kind # "speaking"
                             \/ Stage(p, "quest") /\ t.step = "quest"
  <2> DEFINE a == [NoTx EXCEPT !.step = "quota", !.today = day]
             b == [NoTx EXCEPT !.step = "daily", !.today = day, !.payday = day]
             c == [NoTx EXCEPT !.step = "quest", !.today = day]
  <2>1. /\ \A x \in {a, b, c} : x \in TxType /\ x.locks = {}
        /\ a.step = "quota" /\ b.step = "daily" /\ c.step = "quest"
    BY <1>0, NoTxFacts DEF TxType, Steps, NoTx
  <2>2. CASE StartBread(p)
    BY <2>1, <2>2 DEF StartBread
  <2>3. CASE StartQuest(p)
    BY <2>1, <2>3 DEF StartQuest
  <2> QED BY <2>2, <2>3
<1>2. tx' \in [Practices -> TxType] /\ tx'[p] = t /\ \A q \in Practices : q # p => tx'[q] = tx[q]
  BY <1>0, <1>1
<1>3. UNCHANGED <<day, stats, rewards, claimed, practice, cron, bought, active, faults>>
  BY DEF StartBread, StartQuest
<1>4. Placed(p)' /\ Held(p)'
  BY <1>1, <1>2, <1>3 DEF Placed, Held, Stage, Rewarding
<1> QED BY <1>1, <1>2, <1>3, <1>4, OnlyTx

LEMMA LockDailyLock == ASSUME LockInv, NEW p \in Practices, LockDaily(p) PROVE LockInv'
<1>0. /\ TypeOK /\ Apart /\ Placed(p) /\ Held(p) /\ tx[p].step = "daily"
  BY DEF LockInv, TypeOK, TxInv, LockDaily
<1>1. PICK amount \in Awards :
        Take(p, Wanted(p), [tx[p] EXCEPT !.step = "pay", !.grant = Granted(p, amount)])
  BY DEF LockDaily
<1> DEFINE t == [tx[p] EXCEPT !.step = "pay", !.grant = Granted(p, amount)]
<1>2. Wanted(p) = DailyLock(tx[p].payday) /\ Wanted(p) \in Locks
  BY <1>0, TxFacts, LockFacts DEF Wanted
<1>3. Granted(p, amount) \in Nat /\ earned[tx[p].payday] + Granted(p, amount) <= Cap
  <2>1. earned[tx[p].payday] \in Nat /\ earned[tx[p].payday] <= Cap
    BY TxFacts DEF LockInv, TypeOK, BreadWithinCaps
  <2>2. amount \in Nat /\ Cap \in Nat
    BY NumbersAssumption
  <2> QED BY <2>1, <2>2 DEF Granted
<1>4. /\ t \in TxType /\ t.locks = tx[p].locks /\ t.step = "pay" /\ t.today = tx[p].today
      /\ t.payday = tx[p].payday /\ t.grant = Granted(p, amount)
  BY <1>0, <1>3, TxFacts DEF TxType, Steps
<1>t. Take(p, Wanted(p), t)
  BY <1>1
<1> HIDE DEF t
<1>5. /\ tx' \in [Practices -> TxType] /\ tx'[p].step = "pay" /\ tx'[p].today = tx[p].today
      /\ tx'[p].payday = tx[p].payday /\ tx'[p].grant = Granted(p, amount)
      /\ tx'[p].locks = tx[p].locks \cup {Wanted(p)}
      /\ \A q \in Practices : q # p => tx'[q] = tx[q] /\ tx'[p].locks \cap tx[q].locks = {}
  BY <1>0, <1>2, <1>4, <1>t, TakeFacts
<1>6. UNCHANGED <<practice, progress, earned, spoken>>
  BY DEF LockDaily, rewards
<1>7. Placed(p)'
  BY <1>0, <1>5, <1>6 DEF Placed, Stage, Rewarding
<1>8. Held(p)'
  <2>1. StatsLock \in tx'[p].locks => StatsLock \in tx[p].locks
    BY <1>2, <1>5, TxFacts, LockFacts
  <2>2. DailyLock(tx[p].payday) \in tx'[p].locks /\ earned[tx[p].payday] + tx'[p].grant <= Cap
    BY <1>2, <1>3, <1>5
  <2>3. /\ Stage(p, "quest") => /\ QuestLock(tx[p].today) \in tx[p].locks
                                /\ progress[tx[p].today] = Target - 1 /\ StreakLock \in tx[p].locks
        /\ Stage(p, "bread") /\ practice[p].kind = "speaking" =>
             DailyLock(tx[p].today) \in tx[p].locks /\ spoken[tx[p].today] < Quota
        /\ StatsLock \in tx[p].locks => Stage(p, "quest")
    BY <1>0 DEF Held, Rewarding
  <2> QED BY <1>5, <1>6, <2>1, <2>2, <2>3 DEF Held, Stage, Rewarding
<1> QED BY <1>5, <1>7, <1>8, OnlyTx DEF LockDaily

\* The transaction ends; what it wrote is what its locks covered.
LEMMA Ending ==
  ASSUME LockInv, NEW p \in Practices, NEW s \in Stages, tx' = [tx EXCEPT ![p] = NoTx],
         practice' = [practice EXCEPT ![p].stage = s],
         \A q \in Practices, d \in Days : q # p =>
           /\ QuestLock(d) \in tx[q].locks => progress'[d] = progress[d]
           /\ DailyLock(d) \in tx[q].locks => earned'[d] = earned[d] /\ spoken'[d] = spoken[d],
         stats' \in StatsType, active' \subseteq Days, faults' \in 0 .. MaxFaults,
         earned' \in [Days -> Nat], spoken' \in [Days -> Nat],
         progress' \in [Days -> 0 .. Target], paid' \in [Days -> Nat],
         BreadWithinCaps', QuestPaidWhenDone', UNCHANGED <<day, claimed, cron, bought>>
  PROVE  LockInv'
<1>1. /\ Apart' /\ TxInv' /\ tx' \in [Practices -> TxType]
      /\ practice' \in [Practices -> [kind : Kinds, stage : Stages]]
  BY OneEnds
<1>2. TypeOK'
  BY <1>1 DEF LockInv, TypeOK, cron
<1> QED BY <1>1, <1>2 DEF LockInv, JobInv, cron

LEMMA AfterStageType == \A p \in Practices : AfterStage(p) \in Stages
BY DEF AfterStage, Stages

LEMMA WriteStreakLock == ASSUME LockInv, NEW p \in Practices, WriteStreak(p) PROVE LockInv'
<1>0. TypeOK /\ stats \in StatsType /\ tx[p].now \in Days /\ tx[p].row \in StatsType
  BY TxFacts DEF LockInv, TypeOK
<1>1. stats' \in StatsType /\ active' \subseteq Days
  BY <1>0, StudiedType DEF WriteStreak, TypeOK
<1>2. UNCHANGED <<rewards, day, claimed, cron, bought, faults>>
  BY DEF WriteStreak
<1>3. BreadWithinCaps' /\ QuestPaidWhenDone'
  BY <1>2 DEF LockInv, BreadWithinCaps, QuestPaidWhenDone, rewards
<1> QED BY <1>0, <1>1, <1>2, <1>3, AfterStageType, Ending DEF WriteStreak, Ends, TypeOK, rewards

LEMMA LockQuotaLock == ASSUME LockInv, NEW p \in Practices, LockQuota(p) PROVE LockInv'
<1>0. /\ TypeOK /\ Apart /\ Placed(p) /\ Held(p) /\ tx[p].step = "quota" /\ day \in Days
  BY DEF LockInv, TypeOK, TxInv, LockQuota
<1>1. CASE spoken[tx[p].today] >= Quota
  <2>1. UNCHANGED <<day, stats, rewards, claimed, cron, bought, active, faults>> /\ Ends(p)
    BY <1>1 DEF LockQuota
  <2>2. BreadWithinCaps' /\ QuestPaidWhenDone'
    BY <2>1 DEF LockInv, BreadWithinCaps, QuestPaidWhenDone, rewards
  <2> QED BY <1>0, <2>1, <2>2, AfterStageType, Ending DEF Ends, TypeOK, rewards
<1>2. CASE ~ (spoken[tx[p].today] >= Quota)
  <2> DEFINE t == [tx[p] EXCEPT !.step = "daily", !.payday = day]
  <2>1. Take(p, Wanted(p), t) /\ UNCHANGED practice
    BY <1>2 DEF LockQuota
  <2>2. Wanted(p) = DailyLock(tx[p].today) /\ Wanted(p) \in Locks
    BY <1>0, TxFacts, LockFacts DEF Wanted
  <2>3. t \in TxType /\ t.locks = tx[p].locks /\ t.step = "daily" /\ t.today = tx[p].today
    BY <1>0, TxFacts DEF TxType, Steps
  <2> HIDE DEF t
  <2>4. /\ tx' \in [Practices -> TxType] /\ tx'[p].step = "daily" /\ tx'[p].today = tx[p].today
        /\ tx'[p].locks = tx[p].locks \cup {Wanted(p)}
        /\ \A q \in Practices : q # p => tx'[q] = tx[q] /\ tx'[p].locks \cap tx[q].locks = {}
    BY <1>0, <2>1, <2>2, <2>3, TakeFacts
  <2>5. UNCHANGED <<day, stats, rewards, claimed, cron, bought, active, faults>>
    BY DEF LockQuota
  <2>6. Placed(p)' /\ Stage(p, "bread")
    BY <1>0, <2>1, <2>4 DEF Placed, Stage, Rewarding
  <2>7. StatsLock \notin tx'[p].locks
    BY <1>0, <2>2, <2>4, TxFacts, LockFacts DEF Held, Rewarding
  <2>8. spoken[tx[p].today] < Quota /\ DailyLock(tx[p].today) \in tx'[p].locks
    <3>1. spoken[tx[p].today] \in Nat /\ Quota \in Nat
      BY <1>0, TxFacts, NumbersAssumption DEF TypeOK
    <3> QED BY <1>2, <2>2, <2>4, <3>1
  <2>9. Held(p)'
    BY <2>1, <2>4, <2>5, <2>6, <2>7, <2>8 DEF Held, Rewarding, Stage, rewards
  <2> QED BY <2>1, <2>4, <2>5, <2>6, <2>9, OnlyTx
<1> QED BY <1>1, <1>2

\* A quest's day moves under the quest's lock only, a day's bread under its row's.
LEMMA PayLock == ASSUME LockInv, NEW p \in Practices, Pay(p) PROVE LockInv'
<1> DEFINE d0 == tx[p].payday
           e0 == tx[p].today
<1>0. /\ TypeOK /\ Apart /\ Placed(p) /\ Held(p) /\ tx[p].step = "pay" /\ Rewarding(p)
      /\ d0 \in Days /\ e0 \in Days /\ tx[p].grant \in Nat
      /\ tx[p].row \in StatsType /\ tx[p].now \in Days
  BY TxFacts DEF LockInv, TxInv, Pay, Rewarding
<1>1. /\ earned \in [Days -> Nat] /\ spoken \in [Days -> Nat] /\ paid \in [Days -> Nat]
      /\ progress \in [Days -> 0 .. Target] /\ Target \in Nat \ {0}
      /\ stats \in StatsType /\ active \subseteq Days
  BY <1>0, NumbersAssumption DEF TypeOK
<1>2. DailyLock(d0) \in tx[p].locks /\ earned[d0] + tx[p].grant <= Cap
  BY <1>0 DEF Held
<1>3. Stage(p, "quest") => QuestLock(e0) \in tx[p].locks /\ progress[e0] = Target - 1
  BY <1>0 DEF Held, Rewarding
<1>4. practice[p].kind = "speaking" /\ Stage(p, "bread") =>
        DailyLock(e0) \in tx[p].locks /\ spoken[e0] < Quota
  BY <1>0 DEF Held
<1>5. earned' \in [Days -> Nat] /\ \A d \in Days : earned'[d] = IF d = d0 THEN earned[d] + tx[p].grant ELSE earned[d]
  BY <1>0, <1>1 DEF Pay
<1>6. /\ spoken' \in [Days -> Nat]
      /\ \A d \in Days : spoken'[d] = spoken[d] \/ (/\ d = e0 /\ spoken'[d] = spoken[d] + 1
                                                    /\ DailyLock(e0) \in tx[p].locks /\ spoken[e0] < Quota)
  BY <1>0, <1>1, <1>4 DEF Pay
<1>7. /\ progress' \in [Days -> 0 .. Target] /\ paid' \in [Days -> Nat]
      /\ \A d \in Days : \/ progress'[d] = progress[d] /\ paid'[d] = paid[d]
                         \/ /\ d = e0 /\ progress'[d] = Target /\ paid'[d] = paid[d] + 1
                            /\ QuestLock(e0) \in tx[p].locks /\ progress[e0] = Target - 1
  BY <1>0, <1>1, <1>3 DEF Pay
<1>8. BreadWithinCaps'
  BY <1>1, <1>2, <1>5, <1>6, NumbersAssumption DEF LockInv, BreadWithinCaps
<1>9. QuestPaidWhenDone'
  <2> SUFFICES ASSUME NEW d \in Days PROVE paid'[d] = (IF progress'[d] = Target THEN 1 ELSE 0)
    BY DEF QuestPaidWhenDone
  <2>1. paid[d] = (IF progress[d] = Target THEN 1 ELSE 0)
    BY DEF LockInv, QuestPaidWhenDone
  <2> QED BY <1>1, <1>7, <2>1
<1>10. ASSUME NEW q \in Practices, NEW d \in Days, q # p
       PROVE  /\ QuestLock(d) \in tx[q].locks => progress'[d] = progress[d]
              /\ DailyLock(d) \in tx[q].locks => earned'[d] = earned[d] /\ spoken'[d] = spoken[d]
  <2>1. tx[p].locks \cap tx[q].locks = {}
    BY <1>0, <1>10 DEF Apart
  <2> QED BY <1>2, <1>5, <1>6, <1>7, <2>1
<1>11. stats' \in StatsType /\ active' \subseteq Days
  BY <1>0, <1>1 DEF Pay, CommitRow
<1>12. UNCHANGED <<day, claimed, cron, bought, faults>> /\ Ends(p)
  BY DEF Pay
<1> HIDE DEF d0, e0
<1> QED BY <1>0, <1>5, <1>6, <1>7, <1>8, <1>9, <1>10, <1>11, <1>12, AfterStageType, Ending DEF Ends, TypeOK

LEMMA LockQuestLock == ASSUME LockInv, NEW p \in Practices, LockQuest(p) PROVE LockInv'
<1> DEFINE e0 == tx[p].today
<1>0. /\ TypeOK /\ Apart /\ Placed(p) /\ Held(p) /\ tx[p].step = "quest" /\ e0 \in Days
      /\ Wanted(p) = QuestLock(e0) /\ Wanted(p) \in Locks /\ Free(p, QuestLock(e0))
  BY TxFacts, LockFacts DEF LockInv, TxInv, LockQuest, Wanted
<1>1. CASE Counted(p)
  <2>0. /\ progress \in [Days -> 0 .. Target] /\ Target \in Nat \ {0} /\ stats \in StatsType
        /\ active \subseteq Days /\ faults \in 0 .. MaxFaults
        /\ earned \in [Days -> Nat] /\ spoken \in [Days -> Nat] /\ paid \in [Days -> Nat]
    BY <1>0, NumbersAssumption DEF TypeOK
  <2>1. /\ UNCHANGED <<day, stats, earned, spoken, paid, claimed, cron, bought, active, faults>>
        /\ Ends(p)
    BY <1>1 DEF Counted
  <2>2. /\ progress' \in [Days -> 0 .. Target]
        /\ \A d \in Days : d # e0 => progress'[d] = progress[d]
        /\ progress'[e0] = Target <=> progress[e0] = Target
    <3>1. progress[e0] # Target - 1 /\ progress[e0] \in 0 .. Target
      BY <1>0, <1>1, <2>0 DEF Counted
    <3>2. progress' = [progress EXCEPT ![e0] = IF progress[e0] = Target THEN @ ELSE @ + 1]
      BY <1>1 DEF Counted
    <3> QED BY <1>0, <2>0, <3>1, <3>2
  <2>3. BreadWithinCaps'
    BY <2>1 DEF LockInv, BreadWithinCaps
  <2>4. QuestPaidWhenDone'
    BY <1>0, <2>1, <2>2 DEF LockInv, QuestPaidWhenDone
  <2>5. \A q \in Practices, d \in Days : q # p /\ QuestLock(d) \in tx[q].locks => progress'[d] = progress[d]
    BY <1>0, <2>2 DEF Free
  <2> HIDE DEF e0
  <2> QED BY <2>0, <2>1, <2>2, <2>3, <2>4, <2>5, AfterStageType, Ending DEF Ends
<1>2. CASE ~ Counted(p)
  <2> DEFINE t == [tx[p] EXCEPT !.step = "streak"]
  <2>1. /\ Take(p, QuestLock(e0), t) /\ progress[e0] = Target - 1
        /\ UNCHANGED <<day, stats, rewards, claimed, practice, cron, bought, active, faults>>
    BY <1>0, <1>2 DEF LockQuest
  <2>2. t \in TxType /\ t.locks = tx[p].locks /\ t.step = "streak" /\ t.today = e0
    BY <1>0, TxFacts DEF TxType, Steps
  <2> HIDE DEF t
  <2>3. /\ tx' \in [Practices -> TxType] /\ tx'[p].step = "streak" /\ tx'[p].today = e0
        /\ tx'[p].locks = tx[p].locks \cup {QuestLock(e0)}
        /\ \A q \in Practices : q # p => tx'[q] = tx[q] /\ tx'[p].locks \cap tx[q].locks = {}
    BY <1>0, <2>1, <2>2, TakeFacts
  <2>4. Placed(p)'
    BY <1>0, <2>1, <2>3 DEF Placed, Stage, Rewarding
  <2>5. StatsLock \notin tx'[p].locks
    BY <1>0, <2>3, TxFacts, LockFacts DEF Held, Rewarding
  <2>6. Held(p)'
    BY <2>1, <2>3, <2>5 DEF Held, Rewarding, Stage, rewards
  <2> QED BY <2>1, <2>3, <2>4, <2>6, OnlyTx
<1> QED BY <1>1, <1>2

\* A failure or a deadlock rolls the transaction back.
LEMMA GivesUpLock ==
  ASSUME LockInv, NEW p \in Practices, GivesUp(p), faults' \in 0 .. MaxFaults,
         UNCHANGED <<day, stats, rewards, claimed, cron, bought, active>>
  PROVE  LockInv'
<1> DEFINE s == IF practice[p].kind = "quiz" THEN "lost" ELSE practice[p].stage
<1>1. s \in Stages
  BY TxFacts DEF Stages, LockInv
<1>2. tx' = [tx EXCEPT ![p] = NoTx] /\ practice' = [practice EXCEPT ![p].stage = s]
  BY DEF GivesUp, LockInv, TypeOK
<1>3. BreadWithinCaps' /\ QuestPaidWhenDone'
  BY DEF LockInv, BreadWithinCaps, QuestPaidWhenDone, rewards
<1> HIDE DEF s
<1> QED BY <1>1, <1>2, <1>3, Ending DEF LockInv, TypeOK, rewards

LEMMA FaultType == ASSUME LockInv, Fault PROVE faults' \in 0 .. MaxFaults
BY NumbersAssumption DEF Fault, LockInv, TypeOK

LEMMA PracticeStepLock ==
  ASSUME LockInv, NEW p \in Practices, PracticeStep(p) \/ Fail(p) PROVE LockInv'
<1>1. CASE \E q \in Practices : Deadlock(p, q)
  BY <1>1, GivesUpLock DEF Deadlock, LockInv, TypeOK
<1>2. CASE Fail(p)
  BY <1>2, GivesUpLock, FaultType DEF Fail
<1> QED BY <1>1, <1>2, ReadStreakLock, WriteStreakLock, WriteQuestStreakLock, StartsLock, LockQuotaLock,
           LockDailyLock, PayLock, LockQuestLock DEF PracticeStep

LEMMA SubmitLock ==
  ASSUME LockInv, NEW p \in Practices, SubmitSpeaking(p) \/ \E q \in Quizzes : SubmitQuiz(p, q)
  PROVE  LockInv'
<1>0. TypeOK /\ Placed(p) /\ Held(p) /\ Stage(p, "idle")
  BY DEF LockInv, TxInv, SubmitSpeaking, SubmitQuiz
<1>1. tx[p].step = "none" /\ tx[p].locks = {}
  BY <1>0, TxFacts DEF Placed, Stage, Rewarding, Steps
<1>2. claimed' \subseteq Quizzes
  BY <1>0 DEF SubmitSpeaking, SubmitQuiz, TypeOK
<1>3. /\ practice' \in [Practices -> [kind : Kinds, stage : Stages]]
      /\ \A q \in Practices : q # p => practice'[q] = practice[q]
  BY <1>0 DEF SubmitSpeaking, SubmitQuiz, TypeOK, Kinds, Stages
<1>4. UNCHANGED <<day, stats, rewards, tx, cron, bought, active, faults>>
  BY DEF SubmitSpeaking, SubmitQuiz
<1>5. Placed(p)' /\ Held(p)'
  BY <1>1, <1>4 DEF Placed, Held, Rewarding
<1>6. Apart' /\ TxInv'
  BY <1>1, <1>3, <1>4, <1>5, OneMoves DEF rewards
<1>7. TypeOK'
  BY <1>0, <1>2, <1>3, <1>4 DEF TypeOK, rewards, cron
<1> QED BY <1>4, <1>6, <1>7 DEF LockInv, BreadWithinCaps, QuestPaidWhenDone, JobInv, rewards, cron

-----------------------------------------------------------------------------
(* The other steps, and the locks.                                           *)

LEMMA ReturnedType ==
  ASSUME LockInv PROVE Returned \in JobType /\ (Returned.state \in {"none", "queued"} => Returned.tries < JobAttempts)
                       /\ (Returned.state = "queued" \/ Returned.state = "failed")
BY NumbersAssumption DEF LockInv, TypeOK, Returned, JobType

LEMMA RolloverLock ==
  ASSUME LockInv, RolloverStep \/ CatchUp \/ FailRollover \/ BuyFreeze \/ Midnight PROVE LockInv'
<1>0. /\ TypeOK /\ JobInv /\ job \in JobType /\ rollover \in RolloverType /\ stats \in StatsType
      /\ settled \in [Days -> Nat] /\ day \in Days /\ JobAttempts \in Nat \ {0}
      /\ job.tries \in 0 .. JobAttempts /\ bought \in 0 .. MaxFreezes
  BY NumbersAssumption DEF LockInv, TypeOK, JobType
<1>1. UNCHANGED <<rewards, tx, practice>>
  BY DEF RolloverStep, EnqueueDaily, TakeDaily, Batch, WriteOff, Mark, CatchUp, FailRollover, BuyFreeze, Midnight
<1>2. BreadWithinCaps' /\ QuestPaidWhenDone' /\ Apart' /\ TxInv'
  BY <1>1, OthersMove
<1>3. CASE EnqueueDaily \/ TakeDaily \/ CatchUp
  <2>1. job' \in JobType /\ rollover' \in RolloverType /\ JobInv'
    <3>1. CASE EnqueueDaily
      BY <1>0, <3>1 DEF EnqueueDaily, JobType, JobInv
    <3>2. CASE TakeDaily
      <4>1. job.state = "queued" /\ job.tries + 1 \in 0 .. JobAttempts
        BY <1>0, <3>2 DEF TakeDaily, JobInv
      <4> QED BY <1>0, <3>2, <4>1 DEF TakeDaily, JobType, JobInv, RolloverType
    <3>3. CASE CatchUp
      BY <1>0, <3>3 DEF CatchUp, JobType, JobInv
    <3> QED BY <1>3, <3>1, <3>2, <3>3
  <2> QED BY <1>0, <1>1, <1>2, <1>3, <2>1 DEF EnqueueDaily, TakeDaily, CatchUp, LockInv, TypeOK, rewards
<1>4. CASE Batch \/ WriteOff \/ Mark
  <2>1. job' \in JobType /\ rollover' \in RolloverType /\ JobInv'
    <3>1. CASE Batch
      <4>1. rollover.pc # "idle" /\ UNCHANGED job
        BY <3>1 DEF Batch
      <4>2. rollover' \in RolloverType
        <5>1. \A f \in BOOLEAN : [rollover EXCEPT !.pc = "write", !.frozen = f] \in RolloverType
          BY <1>0 DEF RolloverType
        <5>2. [rollover EXCEPT !.pc = "mark"] \in RolloverType
          BY <1>0 DEF RolloverType
        <5>3. (stats.freezes > 0) \in BOOLEAN
          OBVIOUS
        <5> QED BY <3>1, <5>1, <5>2, <5>3 DEF Batch
      <4> QED BY <1>0, <4>1, <4>2 DEF JobInv
    <3>2. CASE WriteOff
      BY <1>0, <3>2 DEF WriteOff, JobInv, RolloverType
    <3>3. CASE Mark
      BY <1>0, <3>3 DEF Mark, JobType, RolloverType, IdleRollover, JobInv
    <3> QED BY <1>4, <3>1, <3>2, <3>3
  <2>2. stats' \in StatsType /\ settled' \in [Days -> Nat] /\ processed' \in Days \cup {Never}
    <3>1. CASE WriteOff
      <4>1. stats' \in StatsType
        <5>1. \A n \in Int : [stats EXCEPT !.freezes = n, !.last = day] \in StatsType
          BY <1>0 DEF StatsType
        <5>2. stats.freezes - 1 \in Int /\ [stats EXCEPT !.streak = 0] \in StatsType
          BY <1>0 DEF StatsType
        <5> QED BY <3>1, <5>1, <5>2 DEF WriteOff
      <4> QED BY <1>0, <3>1, <4>1 DEF WriteOff, TypeOK
    <3> QED BY <1>0, <1>4, <3>1 DEF Batch, Mark, TypeOK
  <2> QED BY <1>0, <1>1, <1>2, <1>4, <2>1, <2>2 DEF Batch, WriteOff, Mark, LockInv, TypeOK, rewards
<1>5. CASE FailRollover
  <2>1. job' \in JobType /\ rollover' \in RolloverType /\ JobInv'
    BY <1>5, ReturnedType DEF FailRollover, RolloverType, IdleRollover, JobInv
  <2> QED BY <1>0, <1>1, <1>2, <1>5, <2>1, FaultType DEF FailRollover, LockInv, TypeOK, rewards
<1>6. CASE BuyFreeze
  <2>1. stats' \in StatsType /\ bought' \in 0 .. MaxFreezes
    BY <1>0, <1>6, NumbersAssumption DEF BuyFreeze, StatsType
  <2> QED BY <1>0, <1>1, <1>2, <1>6, <2>1 DEF BuyFreeze, LockInv, TypeOK, JobInv, rewards, cron
<1>7. CASE Midnight
  <2>1. day' \in Days /\ job' \in JobType /\ JobInv'
    BY <1>0, <1>7, NumbersAssumption DEF Midnight, Days, JobType, NoJob, JobInv
  <2> QED BY <1>0, <1>1, <1>2, <1>7, <2>1 DEF Midnight, LockInv, TypeOK, rewards
<1> QED BY <1>3, <1>4, <1>5, <1>6, <1>7 DEF RolloverStep

LEMMA CrashLock == ASSUME LockInv, Crash PROVE LockInv'
<1>0. TypeOK /\ job \in JobType
  BY DEF LockInv, TypeOK
<1>1. /\ tx' \in [Practices -> TxType]
      /\ \A p \in Practices : tx'[p].step = "none" /\ tx'[p].locks = {}
  BY NoTxFacts DEF Crash
<1>2. Apart' /\ TxInv'
  BY <1>1 DEF Apart, TxInv, Placed, Held, Rewarding
<1>3. practice' \in [Practices -> [kind : Kinds, stage : Stages]]
  BY <1>0 DEF Crash, TypeOK, Stages
<1>4. job' \in JobType /\ rollover' \in RolloverType /\ JobInv'
  BY <1>0, ReturnedType DEF Crash, RolloverType, IdleRollover, JobInv, LockInv
<1>5. UNCHANGED <<day, stats, rewards, claimed, processed, settled, bought, active>> /\ faults' \in 0 .. MaxFaults
  BY FaultType DEF Crash
<1>6. TypeOK'
  BY <1>0, <1>1, <1>3, <1>4, <1>5 DEF TypeOK, rewards
<1> QED BY <1>2, <1>4, <1>5, <1>6 DEF LockInv, BreadWithinCaps, QuestPaidWhenDone, rewards

LEMMA StutterLock == ASSUME LockInv, UNCHANGED vars PROVE LockInv'
<1>1. TypeOK' /\ JobInv'
  BY DEF LockInv, TypeOK, JobInv, vars, cron, rewards
<1> QED BY <1>1, OthersMove DEF LockInv, vars

LEMMA NextLock == LockInv /\ [Next]_vars => LockInv'
<1> SUFFICES ASSUME LockInv, [Next]_vars PROVE LockInv'
  OBVIOUS
<1>1. CASE \E p \in Practices : PracticeStep(p) \/ Fail(p)
  BY <1>1, PracticeStepLock
<1>2. CASE \E p \in Practices : SubmitSpeaking(p) \/ \E q \in Quizzes : SubmitQuiz(p, q)
  BY <1>2, SubmitLock
<1>3. CASE RolloverStep \/ CatchUp \/ FailRollover \/ BuyFreeze \/ Midnight
  BY <1>3, RolloverLock
<1>4. CASE Crash
  BY <1>4, CrashLock
<1>5. CASE UNCHANGED vars
  BY <1>5, StutterLock
<1> QED BY <1>1, <1>2, <1>3, <1>4, <1>5 DEF Next

-----------------------------------------------------------------------------
(* The streak.                                                               *)

Streaky(p) == Recent(p) /\ RowRead(p) /\ RowWritten(p)

\* A row that counts today was decided on one that did not have it.
LEMMA StudiedRow ==
  ASSUME NEW seen \in StatsType, NEW cur \in StatsType, NEW now \in Days, NEW A \in SUBSET Days,
         seen.last <= now, \A d \in A : d <= seen.last, Recorded(seen, now) => now <= cur.last,
         cur.streak <= Cardinality(A), \A d \in A : d <= cur.last
  PROVE  /\ Studied(seen, cur, now).streak <= Cardinality(A \cup {now})
         /\ \A d \in A \cup {now} : d <= Studied(seen, cur, now).last
         /\ \/ Studied(seen, cur, now).last = now
            \/ Recorded(seen, now) /\ Studied(seen, cur, now) = cur
<1> DEFINE n == Studied(seen, cur, now)
<1>0. /\ IsFiniteSet(A) /\ Cardinality(A) \in Nat
      /\ seen.last \in Int /\ seen.streak \in Nat /\ seen.freezes \in Int
      /\ cur.streak \in Nat /\ cur.freezes \in Int /\ cur.last \in Int /\ now \in Nat
      /\ \A d \in A : d \in Int
  BY DaysFinite DEF StatsType, Days, Never
<1>1. Cardinality(A \cup {now}) = IF now \in A THEN Cardinality(A) ELSE Cardinality(A) + 1
  BY <1>0, FS_AddElement
<1>2. Cardinality(A \cup {now}) >= 1
  <2>1. now \in A => Cardinality(A) # 0
    BY <1>0, FS_EmptySet
  <2> QED BY <1>0, <1>1, <2>1
<1>3. \/ n = [cur EXCEPT !.streak = 1, !.last = now]
      \/ seen.last < now /\ n = [streak |-> cur.streak + 1, last |-> now, freezes |-> cur.freezes - 1]
      \/ seen.last < now /\ n = [cur EXCEPT !.streak = @ + 1, !.last = now]
      \/ Recorded(seen, now) /\ n = cur
  BY <1>0 DEF Studied, Recorded
<1> HIDE DEF n
<1>4. CASE n = [cur EXCEPT !.streak = 1, !.last = now]
  <2>1. n.streak = 1 /\ n.last = now
    BY <1>4 DEF StatsType
  <2> QED BY <1>0, <1>2, <2>1 DEF n
<1>5. CASE seen.last < now /\ (\/ n = [streak |-> cur.streak + 1, last |-> now, freezes |-> cur.freezes - 1]
                               \/ n = [cur EXCEPT !.streak = @ + 1, !.last = now])
  <2>1. n.streak = cur.streak + 1 /\ n.last = now
    <3>1. CASE n = [streak |-> cur.streak + 1, last |-> now, freezes |-> cur.freezes - 1]
      BY <3>1
    <3>2. CASE n = [cur EXCEPT !.streak = @ + 1, !.last = now]
      <4>1. cur.streak + 1 \in Nat
        BY <1>0
      <4>2. ASSUME NEW k \in Nat, n = [cur EXCEPT !.streak = k, !.last = now]
            PROVE  n.streak = k /\ n.last = now
        BY <4>2 DEF StatsType
      <4> QED BY <3>2, <4>1, <4>2
    <3> QED BY <1>5, <3>1, <3>2
  <2>2. now \notin A
    BY <1>0, <1>5
  <2> QED BY <1>0, <1>1, <1>5, <2>1, <2>2 DEF n
<1>6. CASE Recorded(seen, now) /\ n = cur
  BY <1>0, <1>1, <1>6 DEF n
<1> QED BY <1>3, <1>4, <1>5, <1>6

\* While the row, the practised days and the calendar stay, so does a transaction.
LEMMA StreakyKept ==
  ASSUME NEW q \in Practices, Streaky(q), tx'[q] = tx[q], UNCHANGED <<day, stats, active>>
  PROVE  Streaky(q)'
BY DEF Streaky, Recent, RowRead, RowWritten, Opened, Recorded

\* So does one that has the row behind it and keeps its days.
LEMMA StreakyMovesOn ==
  ASSUME NEW q \in Practices, Streaky(q), UNCHANGED <<day, stats, active>>, Opened(q),
         tx'[q].today = tx[q].today, tx'[q].now = tx[q].now, tx'[q].row = tx[q].row,
         tx'[q].step # "write", StatsLock \in tx'[q].locks => StatsLock \in tx[q].locks
  PROVE  Streaky(q)'
BY DEF Streaky, Recent, RowRead, RowWritten, Opened, Recorded

LEMMA StreakyEnded ==
  ASSUME NEW q \in Practices, tx'[q].step = "none", tx'[q].locks = {} PROVE Streaky(q)'
BY DEF Streaky, Recent, RowRead, RowWritten, Opened

LEMMA StreakFrame ==
  ASSUME StreakInv, UNCHANGED <<day, stats, active>>, \A q \in Practices : Streaky(q)'
  PROVE  StreakInv'
BY DEF StreakInv, StreakEarned, DatesInv, Streaky

LEMMA InitStreak == Init => StreakInv
<1> SUFFICES ASSUME Init PROVE StreakInv
  OBVIOUS
<1>1. StreakEarned
  BY InitFacts, DaysFinite DEF StreakEarned
<1>2. DatesInv
  BY InitFacts DEF DatesInv, StatsType, Days, Never
<1>3. \A p \in Practices : tx[p].step = "none" /\ tx[p].locks = {}
  BY NoTxFacts DEF Init
<1>4. \A p \in Practices : Recent(p) /\ RowRead(p) /\ RowWritten(p)
  BY <1>3 DEF Recent, RowRead, RowWritten, Opened
<1> QED BY <1>1, <1>2, <1>4 DEF StreakInv

LEMMA ReadStreakStreak ==
  ASSUME LockInv, StreakInv, NEW p \in Practices, ReadStreak(p) PROVE StreakInv'
<1> DEFINE t == [tx[p] EXCEPT !.step = "write", !.now = day, !.row = stats,
                              !.today = IF Opened(p) THEN @ ELSE day]
<1>0. /\ TypeOK /\ Apart /\ Placed(p) /\ Held(p) /\ day \in Days /\ stats \in StatsType /\ Streaky(p)
      /\ DatesInv
  BY DEF LockInv, TypeOK, TxInv, StreakInv, Streaky
<1>1. /\ t \in TxType /\ t.locks = tx[p].locks /\ t.step = "write" /\ t.now = day /\ t.row = stats
      /\ t.today = IF Opened(p) THEN tx[p].today ELSE day
  BY <1>0, TxFacts DEF TxType, Steps
<1>2. Take(p, StreakLock, t)
  BY DEF ReadStreak
<1> HIDE DEF t
<1>3. /\ tx'[p].step = "write" /\ tx'[p].today = t.today /\ tx'[p].now = day /\ tx'[p].row = stats
      /\ tx'[p].locks = tx[p].locks \cup {StreakLock}
      /\ \A q \in Practices : q # p => tx'[q] = tx[q]
  BY <1>0, <1>1, <1>2, LockFacts, TakeFacts
<1>4. UNCHANGED <<day, stats, active>>
  BY DEF ReadStreak
<1>5. StatsLock \notin tx'[p].locks
  <2>1. tx[p].step \in {"none", "streak"}
    BY <1>0 DEF ReadStreak, ReadsStreak, Opened
  <2> QED BY <1>0, <1>3, <2>1, LockFacts DEF Held, Rewarding
<1>6. Streaky(p)'
  <2>1. day \in Int /\ tx[p].today \in Int /\ stats.last \in Int
    BY <1>0, TxFacts DEF Days, StatsType, Never
  <2>2. Recent(p)'
    BY <1>0, <1>1, <1>3, <1>4, <1>5, <2>1 DEF Recent, Streaky, Opened
  <2>3. RowRead(p)'
    BY <1>0, <1>3, <1>4, <2>1 DEF RowRead, DatesInv, Recorded
  <2>4. RowWritten(p)'
    BY <1>5 DEF RowWritten
  <2> QED BY <2>2, <2>3, <2>4 DEF Streaky
<1>7. \A q \in Practices : Streaky(q)'
  BY <1>3, <1>4, <1>6, StreakyKept DEF StreakInv, Streaky
<1> QED BY <1>4, <1>7, StreakFrame

\* What was read under the streak's lock is right to decide on.
LEMMA ReadIsRight ==
  ASSUME LockInv, StreakInv, NEW p \in Practices, tx[p].step = "write"
  PROVE  /\ Studied(tx[p].row, stats, tx[p].now).streak <= Cardinality(active \cup {tx[p].now})
         /\ \A d \in active \cup {tx[p].now} : d <= Studied(tx[p].row, stats, tx[p].now).last
         /\ \/ Studied(tx[p].row, stats, tx[p].now).last = tx[p].now
            \/ Recorded(tx[p].row, tx[p].now) /\ Studied(tx[p].row, stats, tx[p].now) = stats
<1>1. /\ tx[p].row \in StatsType /\ tx[p].now \in Days /\ stats \in StatsType /\ active \in SUBSET Days
  BY TxFacts DEF LockInv, TypeOK
<1>2. /\ tx[p].row.last <= tx[p].now /\ \A d \in active : d <= tx[p].row.last
      /\ Recorded(tx[p].row, tx[p].now) => tx[p].now <= stats.last
  BY DEF StreakInv, RowRead
<1>3. stats.streak <= Cardinality(active) /\ \A d \in active : d <= stats.last
  BY DEF StreakInv, StreakEarned, DatesInv
<1> QED BY <1>1, <1>2, <1>3, StudiedRow

\* Who writes the row has the streak's lock, so nobody else is about to.
LEMMA OneWriter ==
  ASSUME LockInv, NEW p \in Practices, NEW q \in Practices, q # p,
         StreakLock \in tx[p].locks
  PROVE  tx[q].step # "write" /\ StatsLock \notin tx[q].locks
<1>1. tx[p].locks \cap tx[q].locks = {} /\ Held(q)
  BY DEF LockInv, Apart, TxInv
<1> QED BY <1>1 DEF Held

\* The row written with its day: the streak is earned and the others do not mind.
LEMMA RowChanges ==
  ASSUME LockInv, StreakInv, NEW p \in Practices, StreakLock \in tx[p].locks,
         tx'[p].step = "none", tx'[p].locks = {},
         \A q \in Practices : q # p => tx'[q] = tx[q],
         UNCHANGED day,
         stats'.streak <= Cardinality(active'), stats'.last <= day, \A d \in active' : d <= stats'.last
  PROVE  StreakInv'
<1>1. ASSUME NEW q \in Practices, q # p PROVE Streaky(q)'
  <2>1. tx'[q] = tx[q] /\ tx[q].step # "write" /\ StatsLock \notin tx[q].locks
    BY <1>1, OneWriter
  <2>2. Recent(q)
    BY DEF StreakInv
  <2> QED BY <2>1, <2>2 DEF Streaky, Recent, RowRead, RowWritten, Opened
<1>2. Streaky(p)'
  BY StreakyEnded
<1> QED BY <1>1, <1>2 DEF StreakInv, StreakEarned, DatesInv, Streaky

LEMMA WriteStreakStreak ==
  ASSUME LockInv, StreakInv, NEW p \in Practices, WriteStreak(p) PROVE StreakInv'
<1>0. TypeOK /\ tx \in [Practices -> TxType] /\ Held(p) /\ tx[p].step = "write" /\ UNCHANGED day
  BY DEF LockInv, TypeOK, TxInv, WriteStreak
<1>1. StreakLock \in tx[p].locks
  BY <1>0 DEF Held
<1>2. stats' = Studied(tx[p].row, stats, tx[p].now) /\ active' = active \cup {tx[p].now}
  BY DEF WriteStreak
<1>3. tx'[p].step = "none" /\ tx'[p].locks = {} /\ \A q \in Practices : q # p => tx'[q] = tx[q]
  BY <1>0, NoTxFacts DEF WriteStreak, Ends
<1>4. tx[p].now <= day /\ stats.last <= day
  <2>1. Recent(p) /\ tx[p].today \in Days /\ day \in Days
    BY <1>0, TxFacts DEF StreakInv, TypeOK
  <2> QED BY <1>0, <2>1 DEF Recent, StreakInv, DatesInv, Days
<1>5. /\ stats'.streak <= Cardinality(active') /\ stats'.last <= day
      /\ \A d \in active' : d <= stats'.last
  BY <1>0, <1>2, <1>4, ReadIsRight
<1> QED BY <1>0, <1>1, <1>3, <1>5, RowChanges

LEMMA WriteQuestStreakStreak ==
  ASSUME LockInv, StreakInv, NEW p \in Practices, WriteQuestStreak(p) PROVE StreakInv'
<1> DEFINE t == [tx[p] EXCEPT !.step = "daily", !.payday = day]
           r == [t EXCEPT !.row = NewRow]
           w == [t EXCEPT !.row = Studied(tx[p].row, stats, tx[p].now)]
<1>0. /\ TypeOK /\ Apart /\ Placed(p) /\ Held(p) /\ day \in Days /\ stats \in StatsType
      /\ tx \in [Practices -> TxType] /\ tx[p].step = "write" /\ Streaky(p)
      /\ UNCHANGED <<day, stats, active>>
  BY DEF LockInv, TypeOK, TxInv, WriteQuestStreak, StreakInv, Streaky
<1>1. /\ \A x \in {r, w} : /\ x \in TxType /\ x.locks = tx[p].locks /\ x.step = "daily"
                           /\ x.today = tx[p].today /\ x.now = tx[p].now
      /\ w.row = Studied(tx[p].row, stats, tx[p].now)
  <2>1. Studied(tx[p].row, stats, tx[p].now) \in StatsType
    BY <1>0, TxFacts, StudiedType
  <2> QED BY <1>0, <2>1, TxFacts, NoTxFacts DEF TxType, Steps
<1>2. \/ tx' = [tx EXCEPT ![p] = r]
      \/ ~ Recorded(tx[p].row, tx[p].now) /\ Take(p, StatsLock, w)
  BY DEF WriteQuestStreak
<1> HIDE DEF t, r, w
<1>3. StatsLock \notin tx[p].locks
  BY <1>0 DEF Held, Rewarding
<1>4. /\ tx[p].today \in day - 1 .. day /\ tx[p].now \in tx[p].today .. day
  BY <1>0 DEF Streaky, Recent, Opened
<1>5. CASE tx' = [tx EXCEPT ![p] = r]
  <2>1. /\ tx'[p].step = "daily" /\ tx'[p].today = tx[p].today /\ StatsLock \notin tx'[p].locks
        /\ \A q \in Practices : q # p => tx'[q] = tx[q]
    BY <1>0, <1>1, <1>3, <1>5
  <2>2. Streaky(p)'
    BY <1>0, <1>4, <2>1 DEF Streaky, Recent, RowRead, RowWritten, Opened
  <2> QED BY <1>0, <2>1, <2>2, StreakyKept, StreakFrame DEF StreakInv, Streaky
<1>6. CASE ~ Recorded(tx[p].row, tx[p].now) /\ Take(p, StatsLock, w)
  <2>1. /\ tx'[p].step = "daily" /\ tx'[p].today = tx[p].today /\ tx'[p].now = tx[p].now
        /\ tx'[p].row = Studied(tx[p].row, stats, tx[p].now)
        /\ \A q \in Practices : q # p => tx'[q] = tx[q]
    BY <1>0, <1>1, <1>6, LockFacts, TakeFacts
  <2>2. RowWritten(p)'
    BY <1>0, <1>6, <2>1, ReadIsRight DEF RowWritten
  <2>3. Recent(p)' /\ RowRead(p)'
    BY <1>0, <1>4, <2>1 DEF Recent, RowRead, Opened
  <2> QED BY <1>0, <2>1, <2>2, <2>3, StreakyKept, StreakFrame DEF StreakInv, Streaky
<1> QED BY <1>2, <1>5, <1>6

LEMMA PayStreak ==
  ASSUME LockInv, StreakInv, NEW p \in Practices, Pay(p) PROVE StreakInv'
<1>0. /\ TypeOK /\ tx \in [Practices -> TxType] /\ Held(p) /\ tx[p].step = "pay" /\ UNCHANGED day
      /\ Streaky(p)
  BY DEF LockInv, TypeOK, TxInv, Pay, StreakInv, Streaky
<1>1. tx'[p].step = "none" /\ tx'[p].locks = {} /\ \A q \in Practices : q # p => tx'[q] = tx[q]
  BY <1>0, NoTxFacts DEF Pay, Ends
<1>2. CASE StatsLock \in tx[p].locks
  <2>1. stats' = tx[p].row /\ active' = active \cup {tx[p].now}
    BY <1>2 DEF Pay, CommitRow
  <2>2. StreakLock \in tx[p].locks
    BY <1>0, <1>2 DEF Held
  <2>3. /\ tx[p].row.last = tx[p].now /\ tx[p].row.streak <= Cardinality(active \cup {tx[p].now})
        /\ \A d \in active : d <= tx[p].now
    BY <1>0, <1>2 DEF Streaky, RowWritten
  <2>4. tx[p].now <= day /\ tx[p].now <= tx[p].now
    <3>1. tx[p].today \in Days /\ day \in Days /\ tx[p].now \in tx[p].today .. day
      BY <1>0, <1>2, TxFacts DEF Streaky, Recent, TypeOK
    <3> QED BY <3>1 DEF Days
  <2> QED BY <1>0, <1>1, <2>1, <2>2, <2>3, <2>4, RowChanges
<1>3. CASE StatsLock \notin tx[p].locks
  <2>1. UNCHANGED <<day, stats, active>>
    BY <1>0, <1>3 DEF Pay, CommitRow
  <2> QED BY <1>1, <2>1, StreakyKept, StreakyEnded, StreakFrame DEF StreakInv, Streaky
<1> QED BY <1>2, <1>3

\* Transactions that open, go on without the learner's row, or end without writing it.
LEMMA QuietStepStreak ==
  ASSUME LockInv, StreakInv, NEW p \in Practices,
         StartBread(p) \/ StartQuest(p) \/ LockQuota(p) \/ LockDaily(p) \/ LockQuest(p)
           \/ GivesUp(p),
         UNCHANGED <<day, stats, active>>
  PROVE  StreakInv'
<1>0. /\ TypeOK /\ Apart /\ tx \in [Practices -> TxType] /\ Placed(p) /\ Held(p) /\ Streaky(p)
      /\ day \in Days
  BY DEF LockInv, TypeOK, TxInv, StreakInv, Streaky
<1>1. CASE tx' = [tx EXCEPT ![p] = NoTx]
  <2>1. tx'[p].step = "none" /\ tx'[p].locks = {} /\ \A q \in Practices : q # p => tx'[q] = tx[q]
    BY <1>0, <1>1, NoTxFacts
  <2> QED BY <2>1, StreakyKept, StreakyEnded, StreakFrame DEF StreakInv, Streaky
<1>2. CASE StartBread(p) \/ StartQuest(p)
  <2>1. PICK t \in TxType : tx' = [tx EXCEPT ![p] = t] /\ t.locks = {} /\ t.step # "write" /\ t.today = day
    <3> DEFINE a == [NoTx EXCEPT !.step = "quota", !.today = day]
               b == [NoTx EXCEPT !.step = "daily", !.today = day, !.payday = day]
               c == [NoTx EXCEPT !.step = "quest", !.today = day]
    <3>1. \A x \in {a, b, c} : x \in TxType /\ x.locks = {} /\ x.step # "write" /\ x.today = day
      BY <1>0, NoTxFacts DEF TxType, Steps, NoTx
    <3> QED BY <1>2, <3>1 DEF StartBread, StartQuest
  <2>2. tx'[p] = t /\ \A q \in Practices : q # p => tx'[q] = tx[q]
    BY <1>0, <2>1
  <2>3. Streaky(p)'
    BY <1>0, <2>1, <2>2 DEF Streaky, Recent, RowRead, RowWritten, Opened, Days
  <2> QED BY <2>2, <2>3, StreakyKept, StreakFrame DEF StreakInv, Streaky
<1>3. CASE (LockQuota(p) \/ LockDaily(p) \/ LockQuest(p)) /\ tx' # [tx EXCEPT ![p] = NoTx]
  <2>1. PICK l \in Locks \ {StatsLock}, t \in TxType :
          /\ Take(p, l, t) /\ t.locks = tx[p].locks /\ t.today = tx[p].today /\ t.now = tx[p].now
          /\ t.row = tx[p].row /\ t.step # "write" /\ Opened(p)
    <3>1. CASE LockQuota(p)
      <4> DEFINE t == [tx[p] EXCEPT !.step = "daily", !.payday = day]
      <4>1. tx[p].step = "quota" /\ Take(p, Wanted(p), t)
        BY <1>3, <3>1 DEF LockQuota, Ends
      <4>2. Wanted(p) \in Locks \ {StatsLock}
        BY <1>0, <4>1, TxFacts, LockFacts DEF Wanted
      <4>3. /\ t \in TxType /\ t.locks = tx[p].locks /\ t.today = tx[p].today /\ t.now = tx[p].now
            /\ t.row = tx[p].row /\ t.step # "write"
        BY <1>0, TxFacts DEF TxType, Steps
      <4> QED BY <4>1, <4>2, <4>3 DEF Opened
    <3>2. CASE LockDaily(p)
      <4>1. PICK amount \in Awards :
              Take(p, Wanted(p), [tx[p] EXCEPT !.step = "pay", !.grant = Granted(p, amount)])
        BY <3>2 DEF LockDaily
      <4> DEFINE t == [tx[p] EXCEPT !.step = "pay", !.grant = Granted(p, amount)]
      <4>2. tx[p].step = "daily" /\ Take(p, Wanted(p), t)
        BY <3>2, <4>1 DEF LockDaily
      <4>3. Wanted(p) \in Locks \ {StatsLock}
        BY <1>0, <4>2, TxFacts, LockFacts DEF Wanted
      <4>4. Granted(p, amount) \in Nat
        BY <1>0, TxFacts, NumbersAssumption DEF Granted, LockInv, BreadWithinCaps, TypeOK
      <4>5. /\ t \in TxType /\ t.locks = tx[p].locks /\ t.today = tx[p].today /\ t.now = tx[p].now
            /\ t.row = tx[p].row /\ t.step # "write"
        BY <1>0, <4>4, TxFacts DEF TxType, Steps
      <4> QED BY <4>2, <4>3, <4>5 DEF Opened
    <3>3. CASE LockQuest(p)
      <4> DEFINE t == [tx[p] EXCEPT !.step = "streak"]
      <4>1. tx[p].step = "quest" /\ Take(p, Wanted(p), t)
        BY <1>3, <3>3 DEF LockQuest, Counted, Ends
      <4>2. Wanted(p) \in Locks \ {StatsLock}
        BY <1>0, <4>1, TxFacts, LockFacts DEF Wanted
      <4>3. /\ t \in TxType /\ t.locks = tx[p].locks /\ t.today = tx[p].today /\ t.now = tx[p].now
            /\ t.row = tx[p].row /\ t.step # "write"
        BY <1>0, TxFacts DEF TxType, Steps
      <4> QED BY <4>1, <4>2, <4>3 DEF Opened
    <3> QED BY <1>3, <3>1, <3>2, <3>3
  <2>2. /\ tx'[p].today = tx[p].today /\ tx'[p].now = tx[p].now /\ tx'[p].row = tx[p].row
        /\ tx'[p].step # "write" /\ tx'[p].locks = tx[p].locks \cup {l}
        /\ \A q \in Practices : q # p => tx'[q] = tx[q]
    BY <1>0, <2>1, TakeFacts
  <2>3. Streaky(p)'
    BY <1>0, <2>1, <2>2, StreakyMovesOn
  <2> QED BY <2>2, <2>3, StreakyKept, StreakFrame DEF StreakInv, Streaky
<1> QED BY <1>1, <1>2, <1>3 DEF GivesUp

LEMMA PracticeStepStreak ==
  ASSUME LockInv, StreakInv, NEW p \in Practices, PracticeStep(p) \/ Fail(p) PROVE StreakInv'
<1>1. CASE Fail(p) \/ \E q \in Practices : Deadlock(p, q)
  BY <1>1, QuietStepStreak DEF Fail, Deadlock
<1>2. CASE StartBread(p) \/ StartQuest(p) \/ LockQuota(p) \/ LockDaily(p)
  BY <1>2, QuietStepStreak DEF StartBread, StartQuest, LockQuota, LockDaily
<1>3. CASE LockQuest(p)
  <2>1. UNCHANGED <<day, stats, active>>
    BY <1>3 DEF LockQuest, Counted
  <2> QED BY <1>3, <2>1, QuietStepStreak
<1> QED BY <1>1, <1>2, <1>3, ReadStreakStreak, WriteStreakStreak, WriteQuestStreakStreak, PayStreak
        DEF PracticeStep

LEMMA OtherStepsStreak ==
  ASSUME LockInv, StreakInv,
         \/ RolloverStep \/ CatchUp \/ FailRollover \/ Crash \/ BuyFreeze \/ Midnight
         \/ \E p \in Practices : SubmitSpeaking(p) \/ \E q \in Quizzes : SubmitQuiz(p, q)
  PROVE  StreakInv'
<1>0. /\ TypeOK /\ day \in Days /\ stats \in StatsType /\ stats.last \in Days \cup {Never}
      /\ stats.streak \in Nat /\ Cardinality(active) \in Nat
      /\ \A q \in Practices : Streaky(q) /\ tx[q].today \in Int /\ tx[q].now \in Int
  <2>1. \A q \in Practices : Streaky(q)
    BY DEF StreakInv, Streaky
  <2>2. TypeOK /\ day \in Days /\ stats \in StatsType /\ active \in SUBSET Days
    BY DEF LockInv, TypeOK
  <2>3. \A q \in Practices : tx[q].today \in Int /\ tx[q].now \in Int
    BY <2>2, TxFacts DEF Days
  <2>4. Cardinality(active) \in Nat
    BY <2>2, DaysFinite
  <2> QED BY <2>1, <2>2, <2>3, <2>4 DEF StatsType
<1>1. CASE EnqueueDaily \/ TakeDaily \/ Batch \/ Mark \/ CatchUp \/ FailRollover
  <2>1. UNCHANGED <<tx, day, stats, active>>
    BY <1>1 DEF EnqueueDaily, TakeDaily, Batch, Mark, CatchUp, FailRollover
  <2> QED BY <1>0, <2>1, StreakyKept, StreakFrame
<1>2. CASE \E p \in Practices : SubmitSpeaking(p) \/ \E q \in Quizzes : SubmitQuiz(p, q)
  <2>1. UNCHANGED <<tx, day, stats, active>>
    BY <1>2 DEF SubmitSpeaking, SubmitQuiz
  <2> QED BY <1>0, <2>1, StreakyKept, StreakFrame
<1>3. CASE Crash
  <2>1. UNCHANGED <<day, stats, active>> /\ \A q \in Practices : tx'[q].step = "none" /\ tx'[q].locks = {}
    BY <1>3, NoTxFacts DEF Crash
  <2> QED BY <2>1, StreakyEnded, StreakFrame
<1>4. CASE WriteOff \/ BuyFreeze
  <2>1. /\ UNCHANGED <<day, tx, active>> /\ stats'.streak <= stats.streak
        /\ stats'.last = stats.last \/ stats'.last = day
    <3>1. CASE WriteOff
      <4>1. \A n \in Int : LET m == [stats EXCEPT !.freezes = n, !.last = day]
                           IN  m.streak = stats.streak /\ m.last = day
        BY <1>0 DEF StatsType
      <4>2. LET m == [stats EXCEPT !.streak = 0] IN m.streak = 0 /\ m.last = stats.last
        BY <1>0 DEF StatsType
      <4>3. stats.freezes - 1 \in Int
        BY <1>0 DEF StatsType
      <4> QED BY <1>0, <3>1, <4>1, <4>2, <4>3 DEF WriteOff
    <3>2. CASE BuyFreeze
      BY <1>0, <3>2 DEF BuyFreeze, StatsType
    <3> QED BY <1>4, <3>1, <3>2
  <2>2. ASSUME NEW q \in Practices PROVE Streaky(q)'
    <3>1. tx[q].step = "write" => tx[q].now <= day
      BY <1>0 DEF Streaky, Recent, Days
    <3> QED BY <1>0, <2>1, <3>1 DEF Streaky, Recent, RowRead, RowWritten, Opened
  <2>3. StreakEarned'
    <3>1. LockInv'
      BY <1>4, RolloverLock DEF RolloverStep
    <3>2. stats'.streak \in Nat
      BY <3>1 DEF LockInv, TypeOK, StatsType
    <3> QED BY <1>0, <2>1, <3>2 DEF StreakInv, StreakEarned
  <2>4. DatesInv'
    <3>1. \A d \in active : d \in Int /\ d <= stats.last
      BY <1>0 DEF StreakInv, DatesInv, TypeOK, Days
    <3>2. stats.last <= day /\ day \in Int /\ stats.last \in Int
      BY <1>0 DEF StreakInv, DatesInv, Days, Never
    <3> QED BY <2>1, <3>1, <3>2 DEF DatesInv
  <2> QED BY <2>2, <2>3, <2>4 DEF StreakInv, Streaky
<1>5. CASE Midnight
  <2>1. UNCHANGED <<stats, tx, active>> /\ day' = day + 1 /\ \A q \in Practices : Opened(q) => tx[q].today = day
    BY <1>5 DEF Midnight
  <2>2. ASSUME NEW q \in Practices PROVE Streaky(q)'
    <3>1. Recent(q)'
      BY <1>0, <2>1 DEF Streaky, Recent, Opened, Days
    <3> QED BY <1>0, <2>1, <3>1 DEF Streaky, RowRead, RowWritten
  <2>3. StreakEarned' /\ DatesInv'
    BY <1>0, <2>1 DEF StreakInv, StreakEarned, DatesInv, Days, Never
  <2> QED BY <2>2, <2>3 DEF StreakInv, Streaky
<1> QED BY <1>1, <1>2, <1>3, <1>4, <1>5 DEF RolloverStep

LEMMA NextStreak == LockInv /\ StreakInv /\ [Next]_vars => StreakInv'
<1> SUFFICES ASSUME LockInv, StreakInv, [Next]_vars PROVE StreakInv'
  OBVIOUS
<1>1. CASE \E p \in Practices : PracticeStep(p) \/ Fail(p)
  BY <1>1, PracticeStepStreak
<1>2. CASE UNCHANGED vars
  BY <1>2, StreakyKept, StreakFrame DEF vars, StreakInv, Streaky
<1> QED BY <1>1, <1>2, OtherStepsStreak DEF Next

-----------------------------------------------------------------------------
(* The rollover.                                                             *)

LEMMA InitRollover == Init => RolloverInv
<1> SUFFICES ASSUME Init PROVE RolloverInv
  OBVIOUS
<1>1. day \in Days /\ processed < day /\ rollover.pc = "idle" /\ \A d \in Days : settled[d] = 0
  BY InitFacts, NumbersAssumption DEF Init, IdleRollover, Days, Never
<1>2. processed \in Int /\ day \in Int /\ settled[day] = 0
  BY <1>1, NumbersAssumption DEF Init, Days, Never
<1>3. RolledOverOnce
  BY <1>1, <1>2 DEF RolledOverOnce
<1> QED BY <1>1, <1>2, <1>3 DEF RolloverInv

\* While the day lasts and no streak lapses, what was decided stands.
LEMMA RolloverKept ==
  ASSUME TypeOK, RolloverInv, UNCHANGED <<day, processed, settled>>,
         rollover' = rollover \/ rollover' = IdleRollover,
         Lapsed(stats, day)' => Lapsed(stats, day)
  PROVE  RolloverInv'
BY DEF RolloverInv, RolledOverOnce, IdleRollover

\* No practice leaves a row that has lapsed: its day is today's or yesterday's.
LEMMA PracticeStepRollover ==
  ASSUME LockInv, StreakInv, RolloverInv, NEW p \in Practices, PracticeStep(p) \/ Fail(p)
  PROVE  RolloverInv'
<1>0. /\ TypeOK /\ Recent(p) /\ RowWritten(p) /\ Held(p) /\ day \in Nat /\ tx[p].today \in Int
  <2>1. TypeOK /\ Recent(p) /\ RowWritten(p) /\ Held(p)
    BY DEF LockInv, TxInv, StreakInv
  <2>2. day \in Days /\ tx[p].today \in Days
    BY <2>1, TxFacts DEF TypeOK
  <2> QED BY <2>1, <2>2 DEF Days
<1>1. UNCHANGED <<day, processed, settled, rollover>>
  BY DEF PracticeStep, Fail, ReadStreak, WriteStreak, WriteQuestStreak, StartBread, LockQuota, LockDaily,
         Pay, StartQuest, LockQuest, Counted, Deadlock, cron
<1>2. \/ stats' = stats
      \/ stats'.last = tx[p].now /\ tx[p].now \in tx[p].today .. day /\ Opened(p)
  <2>1. CASE WriteStreak(p)
    <3>1. stats' = Studied(tx[p].row, stats, tx[p].now) /\ tx[p].step = "write"
      BY <2>1 DEF WriteStreak
    <3> QED BY <1>0, <3>1, ReadIsRight DEF Recent, Opened
  <2>2. CASE Pay(p)
    <3>1. tx[p].step = "pay" /\ CommitRow(p)
      BY <2>2 DEF Pay
    <3>2. CASE StatsLock \in tx[p].locks
      BY <1>0, <3>1, <3>2 DEF CommitRow, RowWritten, Recent, Opened
    <3>3. CASE StatsLock \notin tx[p].locks
      BY <3>1, <3>3 DEF CommitRow
    <3> QED BY <3>2, <3>3
  <2>3. CASE ~ WriteStreak(p) /\ ~ Pay(p)
    <3>1. CASE Fail(p) \/ \E q \in Practices : Deadlock(p, q)
      BY <3>1 DEF Fail, Deadlock
    <3>2. CASE ReadStreak(p) \/ WriteQuestStreak(p) \/ StartBread(p) \/ StartQuest(p)
      BY <3>2 DEF ReadStreak, WriteQuestStreak, StartBread, StartQuest
    <3>3. CASE LockQuota(p) \/ LockDaily(p) \/ LockQuest(p)
      BY <3>3 DEF LockQuota, LockDaily, LockQuest, Counted
    <3> QED BY <2>3, <3>1, <3>2, <3>3 DEF PracticeStep
  <2> QED BY <2>1, <2>2, <2>3
<1>3. Lapsed(stats, day)' => Lapsed(stats, day)
  <2>1. Opened(p) => tx[p].today >= day - 1
    BY <1>0 DEF Recent
  <2> QED BY <1>0, <1>1, <1>2, <2>1 DEF Lapsed
<1> QED BY <1>0, <1>1, <1>3, RolloverKept

LEMMA OtherStepsRollover ==
  ASSUME LockInv, RolloverInv,
         \/ EnqueueDaily \/ CatchUp \/ FailRollover \/ Crash \/ BuyFreeze \/ UNCHANGED vars
         \/ \E p \in Practices : SubmitSpeaking(p) \/ \E q \in Quizzes : SubmitQuiz(p, q)
  PROVE  RolloverInv'
<1>0. TypeOK /\ stats \in StatsType
  BY DEF LockInv, TypeOK
<1>1. UNCHANGED <<day, processed, settled>> /\ (rollover' = rollover \/ rollover' = IdleRollover)
  BY DEF EnqueueDaily, CatchUp, FailRollover, Crash, BuyFreeze, SubmitSpeaking, SubmitQuiz, vars, cron
<1>2. UNCHANGED stats \/ (stats'.last = stats.last /\ stats'.streak = stats.streak)
  BY <1>0 DEF EnqueueDaily, CatchUp, FailRollover, Crash, BuyFreeze, SubmitSpeaking, SubmitQuiz, vars, StatsType
<1> QED BY <1>0, <1>1, <1>2, RolloverKept DEF Lapsed

LEMMA RolloverRuns ==
  ASSUME LockInv, RolloverInv, TakeDaily \/ Batch \/ WriteOff \/ Mark PROVE RolloverInv'
<1>0. /\ day \in Days /\ day \in Nat /\ stats \in StatsType /\ settled \in [Days -> Nat]
      /\ rollover \in RolloverType /\ UNCHANGED day
      /\ \A d \in Days : settled[d] \in {0, 1}
  <2>1. settled \in [Days -> Nat] /\ \A d \in Days : settled[d] <= 1
    BY DEF LockInv, TypeOK, RolloverInv, RolledOverOnce
  <2>2. UNCHANGED day
    BY DEF TakeDaily, Batch, WriteOff, Mark
  <2> QED BY <2>1, <2>2 DEF LockInv, TypeOK, Days
<1>1. CASE TakeDaily
  BY <1>1 DEF TakeDaily, RolloverInv, RolledOverOnce
<1>2. CASE Batch
  <2>1. UNCHANGED <<stats, processed, settled>>
    BY <1>2 DEF Batch
  <2>2. /\ rollover'.pc = "write" => Lapsed(stats, day)
        /\ rollover'.pc = "mark" => processed = day \/ ~ Lapsed(stats, day)
    BY <1>0, <1>2 DEF Batch, RolloverType
  <2> QED BY <1>0, <2>1, <2>2 DEF RolloverInv, RolledOverOnce
<1>3. CASE WriteOff
  <2>1. settled[day] = 0 /\ settled' = [settled EXCEPT ![day] = @ + 1] /\ UNCHANGED processed
    BY <1>3 DEF WriteOff, RolloverInv
  <2>2. settled'[day] = 1 /\ \A d \in Days : d # day => settled'[d] = settled[d]
    BY <1>0, <2>1
  <2>3. rollover'.pc = "batch"
    BY <1>0, <1>3 DEF WriteOff, RolloverType
  <2>4. ~ Lapsed(stats, day)'
    <3>1. \A n \in Int : [stats EXCEPT !.freezes = n, !.last = day].last = day
      BY <1>0 DEF StatsType
    <3>2. [stats EXCEPT !.streak = 0].streak = 0
      BY <1>0 DEF StatsType
    <3>3. stats.freezes - 1 \in Int
      BY <1>0 DEF StatsType
    <3> QED BY <1>0, <1>3, <3>1, <3>2, <3>3 DEF WriteOff, Lapsed
  <2> QED BY <1>0, <2>1, <2>2, <2>3, <2>4 DEF RolloverInv, RolledOverOnce
<1>4. CASE Mark
  <2>1. UNCHANGED <<stats, settled>> /\ processed' = day /\ rollover'.pc = "idle" /\ ~ Lapsed(stats, day)
    BY <1>4 DEF Mark, IdleRollover, RolloverInv, RolledOverOnce
  <2> QED BY <1>0, <2>1 DEF RolloverInv, RolledOverOnce
<1> QED BY <1>1, <1>2, <1>3, <1>4

LEMMA MidnightRollover == ASSUME LockInv, RolloverInv, Midnight PROVE RolloverInv'
<1>1. day \in Nat /\ processed \in Int /\ processed <= day /\ day' = day + 1 /\ day' \in Days
  BY NumbersAssumption DEF LockInv, TypeOK, Days, Never, RolloverInv, Midnight
<1>2. rollover.pc = "idle"
  BY DEF Midnight, LockInv, JobInv
<1>3. UNCHANGED <<stats, settled, processed, rollover>>
  BY DEF Midnight
<1>4. \A d \in Days : d > day' => d > day
  BY <1>1 DEF Days
<1>5. settled[day'] = 0
  BY <1>1 DEF RolloverInv
<1> QED BY <1>1, <1>2, <1>3, <1>4, <1>5 DEF RolloverInv, RolledOverOnce

LEMMA NextRollover == LockInv /\ StreakInv /\ RolloverInv /\ [Next]_vars => RolloverInv'
<1> SUFFICES ASSUME LockInv, StreakInv, RolloverInv, [Next]_vars PROVE RolloverInv'
  OBVIOUS
<1>1. CASE \E p \in Practices : PracticeStep(p) \/ Fail(p)
  BY <1>1, PracticeStepRollover
<1> QED BY <1>1, OtherStepsRollover, RolloverRuns, MidnightRollover DEF Next, RolloverStep

-----------------------------------------------------------------------------
(* Theorems.                                                                 *)

IInv == LockInv /\ StreakInv /\ RolloverInv

LEMMA Inductive == Spec => []IInv
<1>1. Init => IInv
  BY InitLock, InitStreak, InitRollover DEF IInv
<1>2. IInv /\ [Next]_vars => IInv'
  BY NextLock, NextStreak, NextRollover DEF IInv
<1> QED BY <1>1, <1>2, PTL DEF Spec

\* The rows keep their types: no award is below zero, no quest beyond its target,
\* and the job of a day has no more tries than it may.
THEOREM TypeCorrect == Spec => []TypeOK
<1>1. IInv => TypeOK
  BY DEF IInv, LockInv
<1> QED BY <1>1, Inductive, PTL

\* However the awards of a day race, roll back or cross midnight, it pays no more
\* bread than its cap and rewards no more recordings than its quota.
THEOREM CapsHold == Spec => []BreadWithinCaps
<1>1. IInv => BreadWithinCaps
  BY DEF IInv, LockInv
<1> QED BY <1>1, Inductive, PTL

\* The quest of a day pays with the practice that completes it and never again.
THEOREM QuestPaysOnce == Spec => []QuestPaidWhenDone
<1>1. IInv => QuestPaidWhenDone
  BY DEF IInv, LockInv
<1> QED BY <1>1, Inductive, PTL

\* A streak is never longer than the days that were practised, whatever read its
\* row before whom.
THEOREM StreaksAreEarned == Spec => []StreakEarned
<1>1. IInv => StreakEarned
  BY DEF IInv, StreakInv
<1> QED BY <1>1, Inductive, PTL

\* With any number of failures, retries and catch-ups, the rollover of a day writes
\* a learner's row once at most, and is only marked when nothing is left to write.
THEOREM RolloverOnce == Spec => []RolledOverOnce
<1>1. IInv => RolledOverOnce
  BY DEF IInv, RolloverInv
<1> QED BY <1>1, Inductive, PTL

=============================================================================
