# Verification of the BreadTrans backend

BreadTrans is a NestJS backend for learning English: exercises and exams, an
asynchronous speaking scorer, an arena of live duels, and an economy of "Bread"
(Bánh Mì) that learners earn, stake and spend. PostgreSQL (through Prisma) holds
the durable state, Redis holds locks, live matches, queues and sessions, BullMQ
delivers jobs to a worker process, and socket.io pushes results to learners.

This directory holds TLA+ models of the parts where those pieces race, the TLC
configurations that check them on small instances, and TLAPS proofs for every
value of the constants.

    tlc -workers 2 -config <run>.cfg <MC module>
    tlapm <Proofs module>.tla

## 1. Inventory

| Component | State it keeps | Operations | Talks to | What is hard | What makes it correct |
|---|---|---|---|---|---|
| Speaking scoring (`modules/speaking`, `worker/`) | `SpeakingSubmission` rows with a lease, BullMQ jobs | submit, claim, score, persist, time out | API → queue → worker → Redis events | abandoned runs that go on after a timeout, stalled jobs, crashes, lost enqueues | one live run per submission, fenced writes, a bounded number of attempts, every submission settles |
| Speaking reconciliation (same) | a snapshot per 30 s cycle | recover stale rows, re-enqueue, declare exhausted | the rows and the queue | acts on what it read earlier, one scheduler per API instance | never takes a live lease, never overwrites a result |
| Speaking post-processing | `feedbackStatus`, `rewardStatus` and leases, `SpeakingRewardLedger` | claim, reword, the five reward effects, persist, tell, recover | queue, AI, ledger | leases nobody renews, a reward cut off between two effects, rows a learner has only once | every effect once, a completed reward of a practice was paid, an exam recording never, both settle |
| Speaking upload intents | `SpeakingUploadIntent` | create, finalize, clean up | object store | count-then-create, finalize twice | one submission per intent |
| Arena duel (`events/arena.gateway.ts`) | match JSON in Redis, timers in the process, `GameBattle`, balances | escrow, rounds, answer, disconnect, rejoin, forfeit, settle, sweep | sockets, Redis, Postgres | timers against messages, lost updates, locks that expire, restarts | stakes paid out once and to whom the score names |
| Arena queue (same) | Redis lists and sets | join, cancel, match | the duel | a mutex, a set and a list that disagree | in one queue or one match, never stuck |
| Bread market (`modules/market`) | `MarketOrder`, `MarketPhysicalRedemption`, stock | check out, approve, reject, fulfilment failed | ledger | double clicks, two admins, the last unit | charged once; Bread or gift; no unit sold twice |
| Bread ledger, gamification (`modules/gamification`) | `UserStats`, `BanhTransaction`, `DailyBanhEarning`, `UserQuestProgress`, streaks, pets, leagues | award, deduct, quests | everybody | transactions that lock the same rows in different orders, a row read before it is locked, midnight in between | balance is the sum of the ledger; caps hold; a quest pays once; no day counts twice in a streak |
| System jobs (`jobs/`) | one BullMQ job per kind and day, `lastProcessedDay` | enqueue, run, retry, catch up | streaks, notifications | a run cut off after some learners, retries, a catch-up at a start | the rollover of a day decides about a learner once |
| Plan purchases, PayOS, bank transfers (`modules/subscription`, `modules/payment`) | `PlanPurchase`, `PlanPayment`, `PayOSPaymentIntent`, `BankTransaction` | create, replace, report, confirm, reject, hold, expire, synchronize, cancel, ingest | PayOS, bank feed, webhooks | late and repeated webhooks, an expiry that races a payment, status writes computed from older reads | one purchase open, nothing granted unpaid, no money acknowledged and lost |
| Subscriptions (`modules/subscription`) | `Subscription`, `SubscriptionEvent`, `Referral` | renew, upgrade, try, grant, extend, revoke, reward | confirmations | a reward to a friend whose row is not locked; any order of operations | plans do not overlap, one waits at most, a referral pays once |
| TOEIC attempts (`modules/toeic`) | `ToeicAttempt`, answers | start, begin, save, submit, expire, cancel | assessments | deadline against saves, nobody watches the clock | one result, of the answers in time |
| TOEIC assessments (same) | sessions, their sections, linked answers | open a session, open and close a section | attempts, speaking, writing | no lock between what a request reads and writes | a completed session is closed, a closed paper was handed in, no late answer counts |
| Authentication | Redis sessions, OTPs | rotate, verify, reset | – | two refreshes | one valid session per device |
| Diagnostic test, writing | sessions, queued graders | start, answer, grade | AI | like speaking | – |
| Content, quiz, grammar, reading, vocabulary, admin, support, users, notifications, uploads, AI providers, backups | rows written by single statements | CRUD, I/O | – | little shared state | – |

`PROJECT.json` lists them with their sources and status, and the hazards line by
line with the properties that watch them.

## 2. Plan

| Order | Module | What | Status |
|---|---|---|---|
| 1 | `SpeakingScoring`, `SubmissionContract` (+ `MC`, `Proofs`) | the scoring pipeline with its scheduler, and what it promises about a submission | done, refinement proved |
| 2 | `ArenaMatch`, `StakeContract` (+ `MC`, `Proofs`) | the duel and what it promises about stakes | done, refinement proved |
| 3 | `MarketOrders` (+ `MC`, `Proofs`) | orders, reviews and the Bread they move | done, proved |
| 4 | `PlanPurchase`, `PaymentContract` (+ `MC`, `Proofs`) | purchases, PayOS orders, webhooks, polls, the sweep, admins, transfers | done, refinement proved |
| 5 | `PlanTerms` (+ `MC`, `Proofs`) | the plans a learner holds over time | done, proved |
| 6 | `SpeakingPostProcessing` (+ `MC`), `SpeakingPostProofs` | feedback and reward jobs, from where `SpeakingScoring` enqueues them | done, proved |
| 7 | `ToeicAttempt`, `ToeicSession` (+ `MC`, `Proofs`) | attempts against their deadline, composed into the sessions of an assessment | done, proved |
| 8 | `ArenaQueue` | joining, cancelling and matching, up to the escrow of `ArenaMatch` | planned |
| 9 | `StudyRewards` (+ `MC`, `Proofs`) | a day's bread, quest, streak and the daily rollover | done, proved |
| 10 | upload intents | count-then-create limits, finalizing | planned |

Every safety property of the passing runs is a theorem. Still worth proving: what the proofs of section 6 take as hypotheses could be split further
(`LiveLeaseKept` with several schedulers that never meet the same row), and whatever
modules 8 and 10 will promise.

How they compose. `SpeakingScoring` ends where it enqueues the jobs that
`SpeakingPostProcessing` starts from (its `post` is the other's `job`, and only a
completed submission has them). `ToeicSession` extends `ToeicAttempt`, so that the
attempts of a session are worked on by the operations of that module while requests
open and close sections. `PlanPurchase` decides whether a confirmation happens and
leaves open what the learner's other plans say; `PlanTerms` is what it then does to
them. `SubmissionContract`, `StakeContract` and `PaymentContract` are the abstract
specifications that `SpeakingScoring`, `ArenaMatch` and `PlanPurchase` implement; the
first is also what `SpeakingPostProcessing` may expect of the jobs it is handed.

## 3. The modules

### SpeakingScoring and SubmissionContract

One action is one statement against Postgres or Redis, or one answer of the
object store or of the scoring provider; everything the code awaits in between is
where others interleave.

* `row` is the submission (status, `workerId`, attempts, error, score,
  `feedbackStatus`, `rewardStatus`). `row.expired` stands for
  `processingStartedAt` being older than the lease, `row.due` for
  `nextAttemptAt` having passed; time passes by `LeaseExpires`, `RetryComesDue`.
* `job` is the BullMQ job under the submission's deterministic id, with the run
  that holds its lock; `TakeJob`, `BackoffElapses`, `Stalled`, `LockLost` and
  `JobSettled` are what BullMQ does (external, as `src/` uses it).
* `run` is an execution of `processScoreJob`, `run.pc` the place in `executeJob`,
  `run.timeout` the place in its catch block: after a timeout both go on, the
  abandoned `executeJob` and the retry that the catch block schedules.
* `rec` is a cycle of the scheduler at one candidate of its snapshot: `Snapshot`,
  `Inspect`, then the statements of the branch it chose.
* `sent` counts what the learner is told and her progress records.
* Every crash, timeout, failed statement and lost lock spends one of `MaxFaults`.

`Slow` is the model's only assumption about time. The code sets limits to outlast
others (the lease exceeds the job timeout, and the queue's lock is as long as the
lease). With `Slow = FALSE` they do; with `Slow = TRUE` an event loop may block or
clocks disagree, so a lease or lock may be lost while its holder lives.

`SubmissionContract` is what a learner and the post-processing may rely on: an open
submission is judged once (scored, silent or failed); the event, the count of the
attempt as progress and the jobs the score asked for follow in this order, each at most
once, and may be cut off; only a scored submission has its missing jobs made up for.
Giving up (`RETRY_EXHAUSTED`) may come at any time, as the scheduler's update matches
the id only. `SpeakingScoring` implements it with `verdict` and `asked` read off the
row, `next` off the place of the run that settled it (`FollowUp`), `told` and `counted`
off `sent`, and `jobs` being `post`.

### ArenaMatch and StakeContract

* `battle` is the `GameBattle` row, `ledger` what the duel took from and gave to
  each balance, `stored` the match JSON in Redis, `ended` and `revealed` the
  rounds whose end is claimed and whose answer was broadcast.
* `timer`, `pauses`, `grace`, `calls` are the gateway's timers and the
  continuations of handlers that are waiting for a Redis call.
* `edit` is the `updateMatch` in progress, its read and its save being two steps.
  The update lock (3 s) is assumed not to expire within one read and one write.
* `fin` are the finalizers (settlement and the forfeits) between their read, the
  10 s settlement lock (which may expire), the transaction that claims the row,
  and the final save. `sweep` is the refund of stale escrows.
* `Crash` restarts the process: timers, continuations and sockets are gone.

The gateway is one process with one Redis connection, which answers in order; a
player has one current socket. `Over` is the stutter of a finished duel.
`StakeContract` is the abstract promise: both stakes are taken together, held and
paid out once, to the winner, to both in a draw, or to both when the duel is given
up. `ArenaMatch` implements it by `held <- escrowed`, `over <- settled or
cancelled`.

### MarketOrders

* `order` is the `MarketOrder` under each checkout key, `redemption` the status of
  its gift, `stock`, `balance`, `boost` (`doubleBanhUntil` in the future) and
  `ledger` (`BanhTransaction`; what was done at all is what is in the set).
* `checkout` and `review` are requests between what they read before their
  transaction and the transaction, which is one action: its advisory lock, row
  locks and compare-and-sets make it so. The approval is not a transaction, so its
  two statements are two actions, `Approve` and `Release`.
* `overridden` is a history variable: orders that an approval took out of another
  state than pending.

A basket is one unit of one product: a gift (physical, to be approved) or a boost
card (approved at once). Learners have a valid shipping profile. Only the market
moves Bread in the model.

### PlanPurchase and PaymentContract

One learner and one plan version, whose purchases compete for being the open one.

* `row` is `PlanPurchase` with its `PlanPayment`; their changes stand in
  transactions that hold the learner's row and both of theirs, so each is one
  action, and the two statuses are two fields that the code writes separately.
* `intent` is the `PayOSPaymentIntent`, `link` the order as PayOS has it, `hook` the
  webhook of a paid order: sent, confirmed or refused, held, marked, accepted. PayOS
  repeats it until it is accepted, also after an answer that was lost.
* `request` is a learner's checkout, poll or cancellation between its steps: the
  call to PayOS and the write that follows it are two actions, and the write uses
  what was read before (`request.val`). `sweep` is the same for
  `expireStalePurchases` at one purchase.
* `bank` are the transfers of a purchase made before PayOS (`legacy`), the only ones
  that have a receiving account; ingest reads unlocked and confirms later.
* `window` is how far the payment window has run out: open, lapsed, ten minutes past
  it (stale), a day past it.
* Whether the learner's other plans allow the purchase, and whether a checkout
  repeats the promo code of the last, may be answered either way every time.

`PaymentContract` is the promise: a purchase is opened, closed, held, granted or
refused; at most one is open; granted and refused are final; a payment is
acknowledged to PayOS only when its purchase is granted, in review or refused.
`PlanPurchase` implements it by `stage <- Stage(p)`, read off the two statuses, and
`acked <- Accepted`, the webhooks PayOS will not repeat.

### PlanTerms

* `term` is the `Subscription` made for each cause (a purchase, an admin's request, a
  trial, a week for a friend), in whole days; `grown` says that a reward or an
  extension moved its end. `referral` and `rewards` are `Referral` and the
  `REFERRAL_REWARD` events, `used` the idempotency keys with an event.
* Every operation locks the learner's `User` row and is one action, but for those
  that read something before somebody else can write it: a confirmation is what
  `decideRenewal` read (`ConfirmStart`), what the transaction read last
  (`ConfirmCheck`) and its commit, because it also writes the plans of the friend, whose
  row it does not lock; a refusal rolls back, except when a bank transfer confirms, which
  catches it inside the transaction and commits what was ended before
  (`ConfirmRefused`); an admin's extension is its read and its write, because that
  friend's reward may come between them.
* `Converted` is `upgradeConversionMs` for two prices, by whole days.

### ToeicAttempt and ToeicSession

* `attempt` are the attempts of one learner at one paper in one mode; `saved`,
  `scored` and `at` remember when the answers were last saved, which answers were
  scored and `submittedAt`. Each operation locks the row it decides on, so it is one
  action. There is no action for an expiry: as in the code, `FinalizeExpired` is taken by
  whoever looks.
* `session` and `section` are `ToeicAssessmentAttempt` and its components, `paper` the
  attempt of the Listening & Reading section, `answers` what was recorded or written,
  with the section it is linked to, `req` the requests of the server between their
  reads and writes. `Free` is the row lock that an update takes until it commits, and
  `Last` what `completeParentIfReady` sees: others' commits and its own writes.

### StudyRewards

* One learner. `practice` is a handler, of `quiz.submitted` or of the reward job of a
  recording, at the award it is at (XP with the streak, bread, quest); `tx` is the
  transaction it has open, with the locks it holds, the day it took at each call of
  `getVietnamDayKey`, the row it read and the bread granted. Each statement that may wait
  for a lock is an action (`ReadStreak`, `WriteStreak`, `LockQuota`, `LockDaily`,
  `LockQuest`, `Pay`); `Deadlock` is PostgreSQL choosing a victim.
* What a transaction wrote is seen when it commits, and a lock is what makes others wait
  for that, so the rows change at the end (`Pay`, `WriteStreak`, `Counted`).
* `rollover` is `triggerDailyCron`: the batch read without locks, the write of the row, the
  mark of the day; `job` is the system job that runs it.
* A transaction sees one midnight at most, and the job of a day, retries included, is over
  before the next (`Midnight`): they take seconds and minutes.

### SpeakingPostProcessing

* `row` is one of the pairs `feedbackStatus`/`feedbackWorkerId` and
  `rewardStatus`/`rewardWorkerId`; `job`, `run` and `rec` are as in `SpeakingScoring`.
  A run has no time limit here and its lease is not renewed: `LeaseExpires` is always
  possible.
* A reward is asked for whether or not the recording is one of an exam
  (`speaking-processor.service.ts:518`). `row[t].eligible` is what
  `RewardEligibilityService` answers: the exercise is not of an `EXAM_INTERNAL` set,
  which never changes while there are recordings of it. `Eligibility` reads it before
  the first effect; if it is not, the listener returns and the reward is COMPLETED with
  nothing paid ("Exam recordings are graded but never rewarded").
* An eligible reward goes through XP, BANH, PET, BADGE and QUEST. Each is a transaction that
  reserves the effect in `ledger` (a unique row) and applies it: `Begin` is its
  insert, which waits for another transaction that holds the same one, and the read
  of the row a learner has only once (`once`: a leaderboard entry, a pet's badge);
  `Commit` is the rest. A run that finds its reservation taken goes on (`Skip`), and so
  does one that meets a unique-constraint error of any other row (`TakenForDone`).
* A run draws a token nothing remembers (`Drawn`); which of several makes no difference,
  so it is always the same one.
* `done` counts the effects applied and the events published.

## 4. Runs

| Run | Instance | Shows |
|---|---|---|
| `speaking_scoring` | 1 submission, 2 runs, 1 scheduler, 2 attempts, 2 faults, all four kinds of recording | `OneLiveRun`, `LiveLeaseKept`, `OnlyExhaustionOverrides`, `AttemptsBounded`, `ToldOnce` |
| `speaking_live` | the same with `Slow`, 1 fault, speech and silence, fairness | `HonoursContract`, `EverySubmissionSettles`, `PostProcessingScheduled` |
| `speaking_rewards` | 1 feedback, or reward of a practice or exam recording, 2 runs, 1 scheduler, 2 attempts, 2 faults, a learner with a leaderboard entry and no pet badge, fairness | `OncePerSubmission`, `CompletedIsPaid`, `SettledKept`, `PostProcessingSettles` |
| `arena_duel` | 2 rounds, 1 socket each, 1 fault | `StakesConserved`, `ScoreJustifiesPayout`, `RevealedOnce`, `RefundedOnlyIfBroken`, `HonoursContract` |
| `arena_live` | 1 round, 2 sockets, 1 fault, fairness | `StakesReturned` |
| `market_orders` | 2 learners with 1 Bread, 2 keys, 1 unit of each product, 2 checkouts and 2 reviews at a time | `BalanceIsLedger`, `ChargedOnce`, `BreadOrGift`, `StatusTellsRefund`, `UnitsConserved` |
| `plan_purchases` | 2 purchases, 1 request at a time, 3 in all, no cut-off | `HonoursContract`, `RowsAgree` |
| `plan_settling` | 1 purchase (new or `legacy`), 2 requests, 2 transfers, 1 cut-off, fairness | `AutoGrantIsPaid`, `SweepClosesFirst`, `StaleCloses`, `PaidIsSettled` |
| `plan_terms` | 2 learners, one the other's friend, 4 purchases, 1 admin request, 3 days | `SoldWithoutOverlap`, `OneQueued`, `RewardedOnce` |
| `toeic_papers` | 2 sessions and 3 attempts at one paper, 2 requests, 2 instants | `ScoredAsSubmitted`, `ClosedWasHandedIn` |
| `toeic_answers` | 1 session of a Speaking and a Writing section, 2 answers, 2 requests, 3 instants | `DoneIsClosed`, `LinkedInTime` |
| `study_rewards` | 3 practices at 1 quiz or as recordings, quest of 2, cap 3 for awards of 2, quota 1, 2 days, 1 freeze, 1 fault | `BreadWithinCaps`, `QuestPaidWhenDone`, `StreakEarned`, `RolledOverOnce` |

Why the bounds are enough. *Speaking*: submissions share nothing but the cycle, so
one submission with two run identities (a run identity is free again when nothing
remembers it) meets every race of two executions; two attempts reach the
exhausted branch; two faults are a crash followed by a timeout or a lost lock.
*Arena*: two rounds are the first and the last; one fault (a disconnect, a
crash, a failed call or an expired lock) is enough to abandon a duel, and the two
finalizers, a forfeit of either player and the sweep are all there. With two
sockets per player a player drops and comes back. *Market*: two
keys let two learners compete for one unit and one learner for one Bread, two
reviews are two admins. *Purchases*: races between purchases are between an old one
and the one that replaces or follows it, so two purchases meet them; races around
one purchase (webhook, poll, cancellation, sweep, admin, transfer, all at once) are in
`plan_settling`, where two requests let an older status write come after a newer one.
*Terms*: a term of two days in a model of three runs out, is renewed, upgraded and
revoked; three purchases of one learner are one more than may be in force and queued.
*TOEIC*: two requests are every race of two; two instants are before and after a
deadline, the third lets a section be opened after the session. Two sections and a
paper stand for the three families: a section only looks at whether the others are
closed. *Study*: three practices are the two that complete a quest and one beside them; the
second award of 2 is cut to what the cap of 3 leaves; two days are a midnight, and the
first day starts with the streak of a day that is, or is not, missed. Deadlock checking is on where the model stutters explicitly when it is done
(speaking scoring, arena); elsewhere the bounded keys, calls, purchases or days are
used up and every decision made in the end, and it is off.

## 5. Fairness

Weak fairness where the runtime owes a step: Node runs every continuation and
timer that is due, BullMQ delivers waiting jobs and repairs stalled ones, backoff,
leases and `nextAttemptAt` run out, the escrow sweep and the purchase sweep run every
five minutes, PayOS finishes a payment it is processing and repeats a webhook.
Strong fairness only for the scheduler's `Snapshot` of a candidate: the interval
comes round for ever, and a row that is a candidate again and again is found.
Faults are bounded, so they stop; nobody owes an answer, a click or a submission, and time need not pass for a purchase.

## 6. Proofs

All theorems hold for every value of the constants under the named assumptions of
the modules (positive attempts, stakes and prices, natural bounds, null values
outside their sets).

* `SpeakingScoringProofs`. `TypeCorrect`; `NoDuplicateRuns`: `~Slow` implies
  `OneLiveRun`. `OneLiveRun` is not inductive by itself: `LockInv` says why it
  holds, a live run's job is active under that run's lock, and a job has one lock;
  every action of the queue and of the scheduler is shown to leave the lock of a
  live run alone. `OnlyExhaustion` proves the action property
  `OnlyExhaustionOverrides` with `SnapshotInv`: a scheduler's exhausted verdict
  rests on an attempt count that can only have grown since. `ToldOnlyOnce` needs
  `TellInv`: who is about to tell has just settled the row with its token, nobody told
  before, and nobody else is about to; it needs no hypothesis, so a lost lease or a
  second scheduler cannot make it fail. `LeaseKept` assumes `~Slow` and one scheduler
  (with two, `SpeakingScoring_revoked.cfg` refutes it): `LeaseInv` adds to `LockInv`
  that the lease of a live run that holds a row has not run out (`HoldInv`), that nobody
  works on a submission whose request has not enqueued it yet (`AcceptInv`) and that the
  scheduler resets or gives up a row only with its job gone or failed (`RecInv`).
  `ClaimsBounded`, under the same hypotheses, charges every claim beyond the limit to a
  fault. The faults alone are not inductive: a run that timed out before its claim still
  claims later, so its timeout is set aside for it (`Slack`, the faults less the
  cardinality of `Stale`), and `BoundInv` bounds the attempts by the limit and `Slack`.
  `ScoringHonoursContract` is the refinement of `SubmissionContract`, again without a
  hypothesis: it holds with any number of schedulers and lost leases. It adds `KnownInv`
  (who works on a submission works on a row that exists) and `OweInv` (the run that owes
  a follow-up judged the submission and is alone in owing one, and the row still asks
  for what its score did). Every step of a run passes the submission on unchanged,
  judges it or pays one follow-up (`RunFollows`); every other step accepts, gives up,
  repairs or rests (`OthersFollow`); each class is a step of the contract or a stutter.
* `ArenaMatchProofs`. `TypeCorrect`; `BreadConserved`, from the row's claim:
  balance and status change together; `ContractKept`: the refinement of
  `StakeContract`, step by step; `PayoutJustified` with `SettleInv`: the copy a settlement
  carries names its winner, a finalizer about to save has claimed the row for that
  winner, and an update in progress carries no settled state. `ShownOnce` follows a round
  from its `round_ended` key through the one continuation that broadcasts it
  (`RevealInv`). `RefundIsRepair` needs to know that an unbroken match always has a
  next step: `ChainInv` says that without a fault there is a round `k` such that exactly
  the rounds before it are over and `k` waits for its pause, is being saved, runs, or is
  being settled (`Due`, `Starting`, `Running`, `Settling`). The delicate phase is `Due`:
  round 0 can be answered before it starts, which leaves a stale pause and a stale save
  behind the round that is due. Nothing is then pending long enough for the sweep to find
  it, as the guard of `SweepFinds` spells out.
* `MarketOrdersProofs`. One inductive invariant `IInv`: types, `ReviewInv` (a
  review's order exists), `ChargedOnce`, `GiftInv` (an order without row has neither
  refund nor redemption; a gift's redemption is cancelled iff refunded) and
  `StatusInv` (a decision nothing overrode is refunded by exactly one entry). From
  it `TypeCorrect` (no balance or stock below zero), `OrdersChargedOnce`,
  `NeverBoth` and `StatusTruthful`. `NoUnitLost` adds `UnitInv`: the orders
  not given back are finitely many, and a step adds or removes the one order it writes, so
  that the cardinality and the stock move together. `BalanceReconciles` proves
  `BalanceIsLedger`: the ledger is finite and every step adds at most one entry and moves
  its learner's balance by the same amount (`LedgerInv`). The sum is a recursive
  function that takes a chosen element first; that it exists, is unique and does not
  depend on the choice is proved from strict inclusion of finite sets being well-founded
  (`SubsetInduction`, over a set of good subsets rather than a predicate).
* `PlanTermsProofs`. A reward writes the plans of a friend whose rows nobody locked, so a
  confirmation's decision may be of plans that changed since. The invariant `IInv`
  says what stays true of it to the commit: what it decided (`Decided`: no plan of the
  learner waits if its own will), what it checked (`Checked`: the place it found is free),
  the plan it is about to end (`Ending`) and the one whose end it is about to write
  (`Moving`). A refused transfer only cuts plans short (`RefusedOne`). From it `SoldApart`, `OneWaits`, `ReferralPaysOnce` and `SoldWithItsPlan`. A
  plan whose end was moved later is outside `SoldApart`, as `PlanTerms_overlap.cfg` shows
  it must be.
* `PlanPurchaseProofs`. The invariant `IInv` adds to `RowsAgree`, `OneOpen` and
  `AutoGrantIsPaid` why they hold: purchases are made in the order of their ids, a
  webhook exists only for a paid order and is marked only when its purchase is decided
  (`HookInv`), only a granted purchase has a source, and past its reading the sweep
  knows its order is closed, which no later step of PayOS undoes (`SweepInv`). One lemma
  (`StepsRows`) classifies what any step does to the rows; `PurchasesHonourContract`
  maps each class to a step of `PaymentContract`, and the types, `AcceptedKept`,
  `SweptIsClosed` and the rest follow from the invariant.
* `ToeicSessionProofs`. Nothing locks a section between a request's read and its write,
  so the invariant says what a request may still rely on (`RequestInv`): a clock may be
  started under it but not moved (`ClockInv`), a paper it saw submitted stays submitted,
  and a section it saw closed stays closed in the sense of `closed`, although its status
  may go back. From it `CompletedWasClosed`, `PaperHandedIn` and `NothingLateCounts`; the
  attempts by themselves give `ResultsMatchAnswers` and `OnePaperOpen`.
* `SpeakingPostProofs`. Leases do not exclude runs here, so the proof rests on the
  ledger: `Apart` says that two runs of a task are never inside the same effect or both
  about to tell of it, `Booked` that what was done is what the ledger has, `Sound` that a
  run past an effect left it in the ledger or met its one-off row (`SeenTo`), and that
  only the runs of an eligible reward get there. From it `PaidOnce` and `PaidInFull`: of
  the effects every practice earns (`Promised`) a completed reward lacks at most those
  whose row came to exist since the start, and an exam recording was paid
  nothing. `SettlementKept` is the action property that a run which lost its task changes no settled status.
* `StudyRewardsProofs`. `CapsHold`, `QuestPaysOnce`, `StreaksAreEarned` and `RolloverOnce`
  from what the row locks are for: `LockInv` says that no two transactions hold the same
  lock, which ones a transaction holds where it is, and what they keep as it was read (the
  day's earnings, its quota, the quest's count); `StreakInv` that the streak a transaction
  has read or will write is at most the days practised; `RolloverInv` that what the
  rollover of today decided stays decided.

Only model-checked: liveness (`EverySubmissionSettles`, `PostProcessingScheduled`,
`StakesReturned`, `PostProcessingSettles`, `StaleCloses`, `PaidIsSettled`), which needs
fairness and ENABLED.

## 7. What the checks found

Properties that TLC refutes, kept as configurations to run by hand
(`tlc -config <cfg> <MC module>`), each a counterexample of a few steps. A definition marked REFUTED in a module is one of
these.

| Configuration | Property | What happens |
|---|---|---|
| `MarketOrders_refunded_twice` | `RefundedOnce` | An approval that read the order before a rejection overrides it; a failed delivery then refunds the order again under another reference, although "retrying this action never double-refunds" (`market.service.ts:659-660`). |
| `MarketOrders_doubled` | `RefundIsPrice` | A refund paid under a running boost is doubled; the notice names the price (`market.service.ts:639`). |
| `SpeakingScoring_overwritten` | `SettledForever` | The scheduler's exhausted update matches the id only and turns a submission that completed in between into FAILED; "do not re-score or overwrite" (`speaking-processor.service.ts:188`). Nothing else can (`OnlyExhaustion`). |
| `SpeakingScoring_revoked` | `LiveLeaseKept` | Two API instances recover one stale row; the slower one resets the lease a new run just took (`speaking-reconciliation.scheduler.ts:38`). |
| `SpeakingPostProcessing_short` | `CompletedIsWhole` | A leaderboard entry created elsewhere at the same moment makes `awardXp` fail on its unique row, which the listener takes for "already processed" (209-215): the reward of a practice is COMPLETED without its XP, against test 7 of `speaking-reward-forced-crash.integration.spec.ts` (574). |
| `ArenaMatch_late` | `NoAnswerAfterReveal` | An answer counts for 2.5 s after the correct one was shown, as the round index moves only with the next round (`arena.gateway.ts:951`). |
| `ArenaMatch_grace` | `ForfeitersAreAway` | A player who rejoined in time, and was told so (1141), is paid out as absent. |
| `ArenaMatch_revived` | `FinalStateKept` | The settled match is overwritten by an update that read it before; no Bread moves by it (`BreadConserved`). |
| `PlanPurchase_refused` | `ReplacedIsAccepted` | The order of a superseded purchase stays payable at PayOS; once paid its webhook is refused for ever, though late money "waits for an admin instead of being refused" (`plan-purchase.service.ts`, `holdPaidPurchaseForReview`). |
| `PlanPurchase_stuck` | `StaleAlwaysCloses` | A checkout cut off between the intent and its link leaves an order PayOS does not know: every sweep fails at it and the purchase stays open. |
| `PlanTerms_lost` | `RewardsAdd` | Two invited learners pay at once: both confirmations read the end of the friend's plan before either writes it, and one week is lost ("both get 7 more days", `referral.logic.ts`). |
| `PlanTerms_overlap` | `OneInForce` | An admin extends a plan that has a renewal queued after it: both are in force, which `resolveEffectivePlan` refuses with an error (`subscription.service.ts:146-149`). |
| `PlanTerms_refused` | `EndedForAPlan` | While a learner's purchase waits, another confirmation gives her a week; her transfer is then refused, but the refusal is caught inside the transaction (`payment-reconciliation.service.ts:141-158`): the trial (or the lower plan) it had ended stays ended, and no plan is given. |
| `ToeicSession_blocked` | `NothingLeftInTheWay` | The paper of an abandoned session ran out but nobody looks at it: the unique index refuses the Listening & Reading section of every new session, though starting "always opens a new session" (`toeic-assessment-session.ts:1-3`). |
| `ToeicSession_reopened` | `ClosedStaysClosed` | An opening that read the section before a closing committed writes it back to IN_PROGRESS. |
| `StudyRewards_owing` | `FreezesOwned` | The rollover read a lapsed row; practice spends the freeze on the day missed, then the rollover spends it again: the learner owes one (`gamification.service.ts`, `triggerDailyCron`). |
| `StudyRewards_unlucky` | `LostByLapse` | The same race without a freeze: the streak of a learner who just practised is set to 0. |
| `StudyRewards_unrewarded` | `QuizRewarded` | A bread award holds the day's row and waits for the learner's, a quest award holds the learner's and waits for the day's; PostgreSQL rolls one back, its event is logged and dropped, and the quiz counts as rewarded. |

Not stated as properties, since nothing in the code promises otherwise:

* a database error while silence is being recorded is reported as invalid audio;
* an approved gift whose release was cut off stays PENDING and cannot be reviewed again;
  an admin's absolute stock write forgets purchases made since the form was opened;
* checkout and refund take product and balance rows in opposite orders, and two
  learners who invited each other lock their rows crosswise at confirmation: Postgres
  may abort one of them;
* a retried checkout key hands out a payment link for a purchase that expired meanwhile;
  a new purchase silently expires one whose transfer was reported; a second payment of a
  purchase that is completed is acknowledged and shows up nowhere; a poll's late write may
  take an intent back from PAID;
* two sections closed at the same moment each see the other open, and the session is
  never completed; a section closed without having been opened has no clock;
* the failure of a terminal feedback run is published even when another run holds the
  task; a crash after the XP commit loses `gamification.xp_earned` for the quests.

## 8. Not modelled

The components marked `not_modelled` in `PROJECT.json`, with the reason at each:
those of the plan above, and CRUD, authoring, seeding, dashboards, AI prompting and
object storage, whose state is written by single statements and read by nobody in
between; they are most of the repository's lines.

Within modelled components:

* speaking: the upload-intent path to a submission and the per-plan limits; scores
  beyond null/zero/positive; the legacy polling mode of the worker;
* post-processing: amounts and daily quotas, wording, the rate limit, a submission that
  loses its COMPLETED status afterwards, a day that changes between two attempts;
* arena: matchmaking before the pair is popped, points beyond one per answer;
* market: catalog administration and manual adjustments;
* study: XP amounts, levels, badges, the pet and the league; vocabulary and TOEIC awards, which
  end in the same award of bread; batches of more than one learner;
* purchases: prices, promo codes, frozen terms; signatures and amounts that do not match
  (refused before anything is written); transfers that match no purchase;
* terms: the catalog, entitlements, notices; a free plan is no plan here;
* TOEIC: the one-pass listening sections of old attempts, integrity events, the content
  of papers, optional sections, grading after the session.

A bound named in a module (`MaxFaults`, `MaxCalls`, `MaxPurchases`, `MaxDay`, `MaxNow`,
`MaxAnswers`, `MaxSockets`) caps histories only; the proofs hold for all their values.
