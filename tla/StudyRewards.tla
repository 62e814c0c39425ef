----------------------------- MODULE StudyRewards -----------------------------
(* What practice earns one learner and what days off cost: the bread of a day *)
(* under its cap, the day's quest, the streak with its freezes, and the daily *)
(* rollover. Rewards are transactions of PostgreSQL that meet at three rows    *)
(* (UserStats, DailyBanhEarning, UserQuestProgress) and two advisory locks, and *)
(* they do not all take them in the same order.                               *)
(*                                                                            *)
(* A transaction waits for a lock another one holds, keeps its own until it    *)
(* ends, and is seen by the others once it commits. Days are counted in       *)
(* Vietnam time. Amounts are small numbers; XP, badges and the pet are left   *)
(* out, and so are the ledger's references: each practice has its own.        *)
EXTENDS Integers, FiniteSets

CONSTANTS
  Practices,    \* practices handed in
  Quizzes,      \* Listening, Reading and Writing exercises
  QuestKind,    \* what the quest of the days counts: "quiz" or "speaking"
  Target,       \* practices the quest asks for
  Awards,       \* amounts a reward may come to, a running boost included
  Cap,          \* MAX_DAILY_EARNABLE_BANH
  Quota,        \* MAX_DAILY_SPEAKING_REWARDS
  FirstDay,     \* the day the model starts on
  MaxDay,       \* bound on the days
  MaxFreezes,   \* bound on the freezes bought
  JobAttempts,  \* `attempts` of a system job
  MaxFaults     \* bound on failed transactions and crashes

ASSUME NumbersAssumption ==
  /\ Target \in Nat \ {0} /\ Awards \subseteq Nat \ {0} /\ Cap \in Nat /\ Quota \in Nat
  /\ FirstDay \in Nat /\ MaxDay \in Nat /\ FirstDay <= MaxDay /\ MaxFreezes \in Nat /\ JobAttempts \in Nat \ {0} /\ MaxFaults \in Nat
ASSUME QuestAssumption == QuestKind \in {"quiz", "speaking"}

VARIABLES
  day,        \* today
  stats,      \* UserStats: streakCount, lastStreakUpdate, streakFreezes
  earned,     \* DailyBanhEarning.earnedBanh, by day
  spoken,     \* DailyBanhEarning.speakingCount, by day
  progress,   \* UserQuestProgress.currentValue, by day
  paid,       \* how often the quest of a day has paid
  claimed,    \* UserQuizReward: quizzes whose first submission is recorded
  practice,   \* the handlers of quiz.submitted and of the speaking reward jobs
  tx,         \* the transaction each has open
  job,        \* the daily-rollover job of today's dayKey
  rollover,   \* triggerDailyCron
  processed,  \* lastProcessedDay of the game setting cron-daily-streak
  settled,    \* how often the rollover of a day has written the learner's row
  bought,     \* freezes bought
  active,     \* days on which practice was recorded
  faults

rewards == <<earned, spoken, progress, paid>>
cron    == <<job, rollover, processed, settled>>
vars    == <<day, stats, rewards, claimed, practice, tx, cron, bought, active, faults>>

-----------------------------------------------------------------------------
(* Data.                                                                     *)

Days  == 0 .. MaxDay
Never == -1

StatsType == [streak : Nat, last : Days \cup {Never}, freezes : Int]

Kinds  == {"quiz", "speaking"}
Stages == {"idle", "xp", "bread", "quest", "done", "lost"}

\* What a transaction waits for next; "none" when there is no transaction.
Steps == {"none", "quest", "streak", "write", "quota", "daily", "pay"}

\* The advisory locks of a quest's day and of the streak, the row of a day, the
\* learner's row.
QuestLock(d) == <<"quest", d>>
StreakLock   == <<"streak", 0>>
DailyLock(d) == <<"daily", d>>
StatsLock    == <<"stats", 0>>
NoLock       == <<"none", 0>>
Locks        == {"quest", "streak", "daily", "stats"} \X Days

\* today: the day of the quest or of the speaking quota; payday: of the bread; now: of
\* the streak.
\* row: the UserStats row it has read, or, once it holds the row, leaves behind.
TxType == [step : Steps, locks : SUBSET Locks, today : Days, payday : Days, now : Days,
           row : StatsType, grant : Nat]

NewRow == [streak |-> 0, last |-> Never, freezes |-> 0]
NoTx   == [step |-> "none", locks |-> {}, today |-> 0, payday |-> 0, now |-> 0,
           row |-> NewRow, grant |-> 0]

JobType      == [state : {"none", "queued", "active", "done", "failed"}, tries : 0 .. JobAttempts]
NoJob        == [state |-> "none", tries |-> 0]
RolloverType == [pc : {"idle", "batch", "write", "mark"}, frozen : BOOLEAN]
IdleRollover == [pc |-> "idle", frozen |-> FALSE]

\* A learner before the first practice, or one with a day of streak whom the rollovers
\* up to now have left alone.
Init ==
  /\ day = FirstDay
  /\ bought = 0
  /\ \/ active = {}
     \/ \E d \in Days : d \in FirstDay - 2 .. FirstDay - 1 /\ active = {d}
  /\ stats = [streak |-> Cardinality(active), freezes |-> 0,
               last |-> IF active = {} THEN Never ELSE CHOOSE d \in active : TRUE]
  /\ earned = [d \in Days |-> 0] /\ spoken = [d \in Days |-> 0]
  /\ progress = [d \in Days |-> 0] /\ paid = [d \in Days |-> 0]
  /\ claimed = {}
  /\ practice = [p \in Practices |-> [kind |-> "quiz", stage |-> "idle"]]
  /\ tx = [p \in Practices |-> NoTx]
  /\ job = NoJob
  /\ rollover = IdleRollover
  /\ settled = [d \in Days |-> 0]
  /\ processed = (IF FirstDay = 0 THEN Never ELSE FirstDay - 1)
  /\ faults = 0

-----------------------------------------------------------------------------
(* Transactions and their locks.                                             *)

Stage(p, s) == practice[p].stage = s
Opened(p)   == tx[p].step # "none"

Free(p, l) == \A q \in Practices \ {p} : l \notin tx[q].locks
StatsFree  == \A q \in Practices : StatsLock \notin tx[q].locks

\* Today's practice is on the row already.
Recorded(row, now) == row.last = now /\ row.streak > 0

\* The lock p waits for at its step: a streak that has the day and an award of nothing
\* leave the learner's row alone.
Wanted(p) ==
  CASE tx[p].step = "quest"  -> QuestLock(tx[p].today)
    [] tx[p].step = "streak" -> StreakLock
    [] tx[p].step = "quota"  -> DailyLock(tx[p].today)
    [] tx[p].step = "daily"  -> DailyLock(tx[p].payday)
    [] tx[p].step = "write" /\ ~Recorded(tx[p].row, tx[p].now) -> StatsLock
    [] tx[p].step = "pay" /\ tx[p].grant > 0 -> StatsLock
    [] OTHER -> NoLock

\* p has the lock l from here on, and its transaction is t.
Take(p, l, t) == Free(p, l) /\ tx' = [tx EXCEPT ![p] = [t EXCEPT !.locks = @ \cup {l}]]

\* Where the handler goes on after a stage.
AfterStage(p) ==
  CASE Stage(p, "xp") -> "bread"
    [] Stage(p, "bread") /\ practice[p].kind = QuestKind -> "quest"
    [] OTHER -> "done"

\* The transaction of p ends and its handler goes on.
Ends(p) ==
  /\ tx' = [tx EXCEPT ![p] = NoTx]
  /\ practice' = [practice EXCEPT ![p].stage = AfterStage(p)]

\* The listener of quiz.submitted logs an error and gives up; the reward job of a
\* recording runs again and skips the effects its ledger has.
GivesUp(p) ==
  /\ tx' = [tx EXCEPT ![p] = NoTx]
  /\ practice' = [practice EXCEPT ![p].stage = IF practice[p].kind = "quiz" THEN "lost" ELSE @]

Fault == faults < MaxFaults /\ faults' = faults + 1

-----------------------------------------------------------------------------
(* Practice.                                                                 *)

\* submitQuiz and the grading of Writing: the first submission of a quiz is
\* recorded, then the event is emitted. Only a first one with a score earns XP and
\* bread; all of them count for the quest.
SubmitQuiz(p, q) ==
  /\ Stage(p, "idle")
  /\ claimed' = claimed \cup {q}
  /\ \E scored \in BOOLEAN :
       practice' = [practice EXCEPT ![p] = [kind |-> "quiz", stage |->
         IF scored /\ q \notin claimed THEN "xp"
         ELSE IF QuestKind = "quiz" THEN "quest" ELSE "done"]]
  /\ UNCHANGED <<day, stats, rewards, tx, cron, bought, active, faults>>

SubmitSpeaking(p) ==
  /\ Stage(p, "idle")
  /\ practice' = [practice EXCEPT ![p] = [kind |-> "speaking", stage |-> "xp"]]
  /\ UNCHANGED <<day, stats, rewards, claimed, tx, cron, bought, active, faults>>

(* recordStreakActivity.                                                     *)

\* The row `cur` after practice on day `now`, decided on the row `seen`.
Studied(seen, cur, now) ==
  LET started == seen.last = Never \/ (seen.last = now /\ seen.streak = 0)
      missed  == seen.last # Never /\ now - seen.last > 1
      saved   == missed /\ seen.streak > 0 /\ seen.freezes > 0
  IN IF started \/ (missed /\ ~saved) THEN [cur EXCEPT !.streak = 1, !.last = now]
     ELSE IF saved THEN [streak |-> cur.streak + 1, last |-> now, freezes |-> cur.freezes - 1]
     ELSE IF now - seen.last = 1 THEN [cur EXCEPT !.streak = @ + 1, !.last = now]
     ELSE cur

ReadsStreak(p) ==
  \/ Stage(p, "xp") /\ ~Opened(p)
  \/ tx[p].step = "streak"

\* MUTANT of ReadStreak: no advisory lock.
ReadStreakUnlocked(p) ==
  /\ ReadsStreak(p)
  /\ tx' = [tx EXCEPT ![p] =
       [tx[p] EXCEPT !.step = "write", !.now = day, !.row = stats,
                     !.today = IF Opened(p) THEN @ ELSE day]]
  /\ UNCHANGED <<day, stats, rewards, claimed, practice, cron, bought, active, faults>>

\* awardXp, in a transaction of its own or that of the quest: the streak's advisory
\* lock, then the learner's row, without locking it.
ReadStreak(p) ==
  /\ ReadsStreak(p)
  /\ Take(p, StreakLock,
          [tx[p] EXCEPT !.step = "write", !.now = day, !.row = stats,
                        !.today = IF Opened(p) THEN @ ELSE day])
  /\ UNCHANGED <<day, stats, rewards, claimed, practice, cron, bought, active, faults>>

\* The row is written, if the day is not on it yet, and the transaction ends.
WriteStreak(p) ==
  /\ tx[p].step = "write" /\ Stage(p, "xp")
  /\ Free(p, Wanted(p))
  /\ stats' = Studied(tx[p].row, stats, tx[p].now)
  /\ active' = active \cup {tx[p].now}
  /\ Ends(p)
  /\ UNCHANGED <<day, rewards, claimed, cron, bought, faults>>

\* Within the quest: the row stays locked, and its bread is next.
WriteQuestStreak(p) ==
  /\ tx[p].step = "write" /\ Stage(p, "quest")
  /\ LET t == [tx[p] EXCEPT !.step = "daily", !.payday = day]
     IN IF Recorded(tx[p].row, tx[p].now)
        THEN tx' = [tx EXCEPT ![p] = [t EXCEPT !.row = NewRow]]
        ELSE Take(p, StatsLock, [t EXCEPT !.row = Studied(tx[p].row, stats, tx[p].now)])
  /\ UNCHANGED <<day, stats, rewards, claimed, practice, cron, bought, active, faults>>

(* awardBanh and awardSpeakingReward.                                        *)

StartBread(p) ==
  /\ Stage(p, "bread") /\ ~Opened(p)
  /\ tx' = [tx EXCEPT ![p] =
       IF practice[p].kind = "speaking" THEN [NoTx EXCEPT !.step = "quota", !.today = day]
       ELSE [NoTx EXCEPT !.step = "daily", !.today = day, !.payday = day]]
  /\ UNCHANGED <<day, stats, rewards, claimed, practice, cron, bought, active, faults>>

\* The day's row is locked for its quota, and the award starts, on the day it is by
\* then, when there is any left.
LockQuota(p) ==
  /\ tx[p].step = "quota"
  /\ IF spoken[tx[p].today] >= Quota
     THEN Free(p, Wanted(p)) /\ Ends(p)
     ELSE /\ Take(p, Wanted(p), [tx[p] EXCEPT !.step = "daily", !.payday = day])
          /\ UNCHANGED practice
  /\ UNCHANGED <<day, stats, rewards, claimed, cron, bought, active, faults>>

\* What is left of the day's cap for an award.
Granted(p, amount) ==
  LET left == Cap - earned[tx[p].payday] IN IF amount < left THEN amount ELSE left

\* MUTANT of LockDaily: no FOR UPDATE.
LockDailyUnlocked(p) ==
  /\ tx[p].step = "daily"
  /\ \E amount \in Awards :
       tx' = [tx EXCEPT ![p].step = "pay", ![p].grant = Granted(p, amount)]
  /\ UNCHANGED <<day, stats, rewards, claimed, practice, cron, bought, active, faults>>

\* The row of the day is locked and the award computed.
LockDaily(p) ==
  /\ tx[p].step = "daily"
  /\ \E amount \in Awards :
       Take(p, Wanted(p), [tx[p] EXCEPT !.step = "pay", !.grant = Granted(p, amount)])
  /\ UNCHANGED <<day, stats, rewards, claimed, practice, cron, bought, active, faults>>

\* The quest's own row of UserStats is visible from here on.
CommitRow(p) ==
  IF StatsLock \in tx[p].locks
  THEN stats' = tx[p].row /\ active' = active \cup {tx[p].now}
  ELSE UNCHANGED <<stats, active>>

\* The balance, the ledger and the counters of the day, and the end of the
\* transaction: nothing of it for an award of nothing.
Pay(p) ==
  /\ tx[p].step = "pay"
  /\ Free(p, Wanted(p))
  /\ CommitRow(p)
  /\ earned' = [earned EXCEPT ![tx[p].payday] = @ + tx[p].grant]
  /\ IF practice[p].kind = "speaking" /\ Stage(p, "bread") /\ tx[p].grant > 0
     THEN spoken' = [spoken EXCEPT ![tx[p].today] = @ + 1]
     ELSE UNCHANGED spoken
  /\ IF Stage(p, "quest")
     THEN /\ progress' = [progress EXCEPT ![tx[p].today] = Target]
          /\ paid' = [paid EXCEPT ![tx[p].today] = @ + 1]
     ELSE UNCHANGED <<progress, paid>>
  /\ Ends(p)
  /\ UNCHANGED <<day, claimed, cron, bought, faults>>

(* advanceDailyQuestAndGrantRewardsTx.                                       *)

StartQuest(p) ==
  /\ Stage(p, "quest") /\ ~Opened(p)
  /\ tx' = [tx EXCEPT ![p] = [NoTx EXCEPT !.step = "quest", !.today = day]]
  /\ UNCHANGED <<day, stats, rewards, claimed, practice, cron, bought, active, faults>>

\* What one more practice does to the quest of p's day: nothing when it is complete,
\* a step when it does not complete it.
Counted(p) ==
  LET value == progress[tx[p].today]
  IN /\ value # Target - 1
     /\ progress' = [progress EXCEPT ![tx[p].today] = IF value = Target THEN @ ELSE @ + 1]
     /\ Ends(p)
     /\ UNCHANGED <<day, stats, earned, spoken, paid, claimed, cron, bought, active, faults>>

\* MUTANT of LockQuest: neither the advisory lock nor the row is waited for.
LockQuestUnlocked(p) ==
  /\ tx[p].step = "quest"
  /\ \/ Counted(p)
     \/ /\ progress[tx[p].today] = Target - 1
        /\ tx' = [tx EXCEPT ![p].step = "streak"]
        /\ UNCHANGED <<day, stats, rewards, claimed, practice, cron, bought, active, faults>>

\* The practice that completes it goes on to the rewards, under the lock.
LockQuest(p) ==
  /\ tx[p].step = "quest" /\ Free(p, Wanted(p))
  /\ \/ Counted(p)
     \/ /\ progress[tx[p].today] = Target - 1
        /\ Take(p, Wanted(p), [tx[p] EXCEPT !.step = "streak"])
        /\ UNCHANGED <<day, stats, rewards, claimed, practice, cron, bought, active, faults>>

(* Failures.                                                                 *)

InHand(p) == practice[p].stage \in {"xp", "bread", "quest"}

\* A transaction fails, or the statement that would open it.
Fail(p) ==
  /\ InHand(p) /\ Fault /\ GivesUp(p)
  /\ UNCHANGED <<day, stats, rewards, claimed, cron, bought, active>>

\* p and q wait for each other: PostgreSQL rolls one of them back.
Deadlock(p, q) ==
  /\ Opened(p) /\ Opened(q)
  /\ p # q /\ Wanted(p) \in tx[q].locks /\ Wanted(q) \in tx[p].locks
  /\ GivesUp(p)
  /\ UNCHANGED <<day, stats, rewards, claimed, cron, bought, active, faults>>

-----------------------------------------------------------------------------
(* The daily rollover.                                                       *)

\* 00:01, or the catch-up of a backend that starts later in the day.
EnqueueDaily ==
  /\ job.state = "none"
  /\ job' = [job EXCEPT !.state = "queued"]
  /\ UNCHANGED <<day, stats, rewards, claimed, practice, tx, rollover, processed, settled, bought, active, faults>>

\* A backend that starts removes the failed job of the day and adds it again.
CatchUp ==
  /\ job.state = "failed"
  /\ job' = [state |-> "queued", tries |-> 0]
  /\ UNCHANGED <<day, stats, rewards, claimed, practice, tx, rollover, processed, settled, bought, active, faults>>

TakeDaily ==
  /\ job.state = "queued"
  /\ job' = [state |-> "active", tries |-> job.tries + 1]
  /\ rollover' = [pc |-> "batch", frozen |-> FALSE]
  /\ UNCHANGED <<day, stats, rewards, claimed, practice, tx, processed, settled, bought, active, faults>>

\* lastStreakUpdate is before the start of the previous day, and there is a streak.
Lapsed(row, d) == row.streak > 0 /\ row.last # Never /\ row.last < d - 1

\* MUTANT of Batch: the day is marked before its learners are handled.
BatchMarksFirst ==
  /\ rollover.pc = "batch"
  /\ rollover' = IF processed # day /\ Lapsed(stats, day)
                 THEN [rollover EXCEPT !.pc = "write", !.frozen = stats.freezes > 0]
                 ELSE [rollover EXCEPT !.pc = "mark"]
  /\ processed' = day
  /\ UNCHANGED <<day, stats, rewards, claimed, practice, tx, job, settled, bought, active, faults>>

\* findMany of a batch: the learner's row, without locking it.
Batch ==
  /\ rollover.pc = "batch"
  /\ rollover' = IF processed # day /\ Lapsed(stats, day)
                 THEN [rollover EXCEPT !.pc = "write", !.frozen = stats.freezes > 0]
                 ELSE [rollover EXCEPT !.pc = "mark"]
  /\ UNCHANGED <<day, stats, rewards, claimed, practice, tx, job, processed, settled, bought, active, faults>>

\* The freeze is spent and the streak dated to the start of the run, or it is over.
WriteOff ==
  /\ rollover.pc = "write" /\ StatsFree
  /\ stats' = IF rollover.frozen
              THEN [stats EXCEPT !.freezes = @ - 1, !.last = day]
              ELSE [stats EXCEPT !.streak = 0]
  /\ settled' = [settled EXCEPT ![day] = @ + 1]
  /\ rollover' = [rollover EXCEPT !.pc = "batch"]
  /\ UNCHANGED <<day, rewards, claimed, practice, tx, job, processed, bought, active, faults>>

Mark ==
  /\ rollover.pc = "mark"
  /\ processed' = day
  /\ job' = [state |-> "done", tries |-> 0]
  /\ rollover' = IdleRollover
  /\ UNCHANGED <<day, stats, rewards, claimed, practice, tx, settled, bought, active, faults>>

\* The job after a run that did not finish.
Returned == [job EXCEPT !.state = IF job.tries < JobAttempts THEN "queued" ELSE "failed"]

FailRollover ==
  /\ rollover.pc # "idle" /\ Fault
  /\ job' = Returned
  /\ rollover' = IdleRollover
  /\ UNCHANGED <<day, stats, rewards, claimed, practice, tx, processed, settled, bought, active>>

\* The backend stops: what it had open is rolled back, its events are forgotten.
Crash ==
  /\ Fault
  /\ tx' = [p \in Practices |-> NoTx]
  /\ practice' = [p \in Practices |->
       IF InHand(p) /\ practice[p].kind = "quiz"
       THEN [practice[p] EXCEPT !.stage = "lost"] ELSE practice[p]]
  /\ job' = IF rollover.pc = "idle" THEN job ELSE Returned
  /\ rollover' = IdleRollover
  /\ UNCHANGED <<day, stats, rewards, claimed, processed, settled, bought, active>>

-----------------------------------------------------------------------------
(* The market and the calendar.                                              *)

\* A "Khien" of the market is credited as it is paid for.
BuyFreeze ==
  /\ bought < MaxFreezes /\ StatsFree
  /\ bought' = bought + 1
  /\ stats' = [stats EXCEPT !.freezes = @ + 1]
  /\ UNCHANGED <<day, rewards, claimed, practice, tx, cron, active, faults>>

\* A transaction is open for seconds: it may see one midnight, not two. The job of a
\* day, retries included, is over long before the day is.
Midnight ==
  /\ day < MaxDay
  /\ \A p \in Practices : Opened(p) => tx[p].today = day
  /\ job.state \in {"none", "done", "failed"}
  /\ day' = day + 1
  /\ job' = NoJob
  /\ UNCHANGED <<stats, rewards, claimed, practice, tx, rollover, processed, settled, bought, active, faults>>

-----------------------------------------------------------------------------

PracticeStep(p) ==
  \/ ReadStreak(p) \/ WriteStreak(p) \/ WriteQuestStreak(p)
  \/ StartBread(p) \/ LockQuota(p) \/ LockDaily(p) \/ Pay(p)
  \/ StartQuest(p) \/ LockQuest(p)
  \/ \E q \in Practices : Deadlock(p, q)

RolloverStep == EnqueueDaily \/ TakeDaily \/ Batch \/ WriteOff \/ Mark

Next ==
  \/ \E p \in Practices : PracticeStep(p) \/ Fail(p) \/ SubmitSpeaking(p)
  \/ \E p \in Practices, q \in Quizzes : SubmitQuiz(p, q)
  \/ RolloverStep \/ CatchUp \/ FailRollover \/ Crash
  \/ BuyFreeze \/ Midnight

Spec == Init /\ [][Next]_vars

-----------------------------------------------------------------------------
(* Properties.                                                               *)

\* Every row has its shape.
TypeOK ==
  /\ day \in Days /\ stats \in StatsType
  /\ earned \in [Days -> Nat] /\ spoken \in [Days -> Nat]
  /\ progress \in [Days -> 0 .. Target] /\ paid \in [Days -> Nat]
  /\ claimed \subseteq Quizzes
  /\ practice \in [Practices -> [kind : Kinds, stage : Stages]]
  /\ tx \in [Practices -> TxType]
  /\ job \in JobType /\ rollover \in RolloverType
  /\ processed \in Days \cup {Never} /\ settled \in [Days -> Nat]
  /\ bought \in 0 .. MaxFreezes /\ active \subseteq Days /\ faults \in 0 .. MaxFaults

\* However its rewards race, a day pays no more than its cap and its speaking quota:
\* the awards of quizzes, recordings and the quest read and raise the same row, on
\* the day each of them started or reached it.
BreadWithinCaps == \A d \in Days : earned[d] <= Cap /\ spoken[d] <= Quota

\* The quest of a day pays once, with the practice that completes it, although
\* that practice may be rolled back after counting and others run beside it.
QuestPaidWhenDone ==
  \A d \in Days : paid[d] = (IF progress[d] = Target THEN 1 ELSE 0)

\* A streak counts no day twice and none without practice, whatever XP and quest
\* transactions, freezes and the rollover did to its row.
StreakEarned == stats.streak <= Cardinality(active)

\* The rollover of a day decides about a learner exactly once, whatever fails and is
\* retried: it never spends a second freeze, nor a freeze and the streak, and once
\* the day is marked as processed no streak with a day missed lives on.
RolledOverOnce ==
  /\ \A d \in Days : settled[d] <= 1
  /\ processed = day => ~ Lapsed(stats, day)

(* What the code does not guarantee.                                         *)

\* The learner cannot owe freezes.
FreezesOwned == stats.freezes >= 0

\* Only a missed day costs a streak.
LostByLapse == [][stats'.streak < stats.streak => stats.last < day - 1]_vars

\* A quiz that was done is rewarded, when nothing fails.
QuizRewarded == \A p \in Practices : ~ Stage(p, "lost")

=============================================================================
