----------------------- MODULE SpeakingPostProcessing -----------------------
(* What follows a score: the feedback and the reward of a submission, each a  *)
(* job of its own, claimed and fenced like the scoring (module                *)
(* SpeakingScoring, which ends where these jobs are enqueued), but without a  *)
(* time limit: the lease of a run may expire while it works. The reward is a  *)
(* series of transactions, each reserved in a ledger, so that a later run can *)
(* go on where one was cut off.                                               *)
(*                                                                            *)
(* Every action is one statement, one transaction, or one call.               *)
EXTENDS Integers, Sequences

CONSTANTS
  Tasks,         \* the feedbacks and rewards asked for
  Runs,          \* identities a run can draw as its workerToken
  Schedulers,    \* API instances, each with a SpeakingReconciliationScheduler
  JobAttempts,   \* MAX_ATTEMPTS, and `attempts` of the jobs
  MaxFaults,     \* bound on crashes, failed statements and calls, and lost locks
  AtFirst,       \* effects whose one-off rows the learner has from the start
  NoRun, NoTask

Kinds   == {"FEEDBACK", "REWARD"}
Effects == <<"XP", "BANH", "PET", "BADGE", "QUEST">>

\* Effects that may create a row a learner has only once: the leaderboard entry,
\* the badge for a grown pet.
OneOff == {"XP", "PET"}

ASSUME AttemptsAssumption == JobAttempts \in Nat \ {0} /\ MaxFaults \in Nat
ASSUME FirstAssumption    == AtFirst \subseteq OneOff
ASSUME NullAssumption     == NoRun \notin Runs /\ NoTask \notin Tasks

VARIABLES
  row,      \* feedback- and rewardStatus, -WorkerId and -StartedAt, and the exercise
  job,      \* the BullMQ job of each task
  run,      \* the runs of processFeedback and processReward
  rec,      \* the schedulers' cycles
  ledger,   \* SpeakingRewardLedger, by reward
  once,     \* the effects whose one-off rows exist
  done,     \* how often each effect was applied, and what was published
  faults

vars == <<row, job, run, rec, ledger, once, done, faults>>

-----------------------------------------------------------------------------

EffectNames == {"XP", "BANH", "PET", "BADGE", "QUEST"}
Outputs     == EffectNames \cup {"earned", "completed", "failed"}

\* eligible: the exercise is of a set outside the exams. It stays what it is: a
\* set keeps its scope, and an exercise its set, while there are recordings of it.
RowType == [kind : Kinds, status : {"PENDING", "PROCESSING", "COMPLETED", "FAILED"},
            worker : Runs \cup {NoRun}, expired : BOOLEAN, eligible : BOOLEAN]
JobType == [state : {"none", "waiting", "active", "delayed", "completed", "failed"},
            made : Nat, holder : Runs \cup {NoRun}]

\* step: the effect under way; saw: its one-off row was there.
Places == {"load", "claim", "eligible", "work", "commit", "earned", "persist", "tell",
           "catch", "tellFailed", "return", "throw"}
RunType == [pc : Places, task : Tasks, attempt : Nat, step : 1 .. Len(Effects) + 1,
            saw : BOOLEAN]
RecType == [pc : {"inspect", "remove", "reset", "enqueue", "fail"}, task : Tasks,
            status : {"PENDING", "PROCESSING"}]

NoJob   == [state |-> "none", made |-> 0, holder |-> NoRun]
IdleRun == [pc |-> "idle", task |-> NoTask, attempt |-> 0, step |-> 1, saw |-> FALSE]
IdleRec == [pc |-> "idle", task |-> NoTask, status |-> "PENDING"]

Asked == [kind |-> "FEEDBACK", status |-> "PENDING", worker |-> NoRun,
          expired |-> FALSE, eligible |-> TRUE]

\* The scoring asked for the job, which may have failed: for a reward, whether or
\* not the recording is one of an exam. A feedback does not ask.
Init ==
  /\ row \in [Tasks -> {Asked} \cup {[Asked EXCEPT !.kind = "REWARD", !.eligible = e] : e \in BOOLEAN}]
  /\ job \in [Tasks -> {NoJob, [NoJob EXCEPT !.state = "waiting"]}]
  /\ run = [r \in Runs |-> IdleRun]
  /\ rec = [c \in Schedulers |-> IdleRec]
  /\ ledger = [t \in Tasks |-> {}]
  /\ once = AtFirst
  /\ done = [t \in Tasks |-> [o \in Outputs |-> 0]]
  /\ faults = 0

Settled(t) == row[t].status \in {"COMPLETED", "FAILED"}
Rewards(t) == row[t].kind = "REWARD"

\* The fence of a run's writes: PROCESSING under its own token.
Holds(r, t) == row[t].status = "PROCESSING" /\ row[t].worker = r

Unused(r) == run[r] = IdleRun /\ \A t \in Tasks : ~ Holds(r, t) /\ job[t].holder # r

\* A run draws a token nothing remembers; which of them makes no difference.
Drawn(r) == Unused(r) /\ r = CHOOSE q \in Runs : Unused(q)

Fault == faults < MaxFaults /\ faults' = faults + 1

Goto(r, pc) == run' = [run EXCEPT ![r].pc = pc]

Sent(t, o) == done' = [done EXCEPT ![t][o] = @ + 1]

\* queue.add under the deterministic id.
Added(t) == IF job[t].state = "none" THEN [NoJob EXCEPT !.state = "waiting"] ELSE job[t]

-----------------------------------------------------------------------------
(* The queue and time.                                                       *)

TakeJob(r, t) ==
  /\ job[t].state = "waiting" /\ Drawn(r)
  /\ job' = [job EXCEPT ![t].state = "active", ![t].holder = r]
  /\ run' = [run EXCEPT ![r] =
       [pc |-> "load", task |-> t, attempt |-> job[t].made + 1, step |-> 1, saw |-> FALSE]]
  /\ UNCHANGED <<row, rec, ledger, once, done, faults>>

BackoffElapses(t) ==
  /\ job[t].state = "delayed"
  /\ job' = [job EXCEPT ![t].state = "waiting"]
  /\ UNCHANGED <<row, run, rec, ledger, once, done, faults>>

Working(r, t) == run[r].task = t /\ job[t].holder = r

\* The stalled check: back to waiting, or failed when it stalled too often.
LockGone(t, state) ==
  /\ job[t].state = "active"
  /\ job' = [job EXCEPT ![t].state = state, ![t].holder = NoRun]
  /\ UNCHANGED <<row, run, rec, ledger, once, done>>

Stalled(t, state) == (\A r \in Runs : ~ Working(r, t)) /\ LockGone(t, state) /\ UNCHANGED faults

\* Its worker lives, but could not renew the lock in time.
LockLost(t, state) == (\E r \in Runs : Working(r, t)) /\ LockGone(t, state) /\ Fault

\* Nothing limits the time of a run: its lease expires whether it works or not.
LeaseExpires(t) ==
  /\ row[t].status = "PROCESSING" /\ ~ row[t].expired
  /\ row' = [row EXCEPT ![t].expired = TRUE]
  /\ UNCHANGED <<job, run, rec, ledger, once, done, faults>>

-----------------------------------------------------------------------------
(* processFeedback and processReward.                                        *)

Load(r) ==
  /\ run[r].pc = "load"
  /\ Goto(r, IF row[run[r].task].status = "COMPLETED" THEN "return" ELSE "claim")
  /\ UNCHANGED <<row, job, rec, ledger, once, done, faults>>

Claimable(t) ==
  row[t].status = "PENDING" \/ (row[t].status = "PROCESSING" /\ row[t].expired)

Claim(r) ==
  LET t == run[r].task IN
  /\ run[r].pc = "claim"
  /\ IF Claimable(t)
     THEN /\ row' = [row EXCEPT ![t].status = "PROCESSING", ![t].worker = r, ![t].expired = FALSE]
          /\ Goto(r, IF Rewards(t) THEN "eligible" ELSE "work")
     ELSE Goto(r, "return") /\ UNCHANGED row
  /\ UNCHANGED <<job, rec, ledger, once, done, faults>>

\* handleSpeakingSubmittedEvent: "Exam recordings are graded but never rewarded".
\* It returns, and the reward is stored as complete with nothing paid.
Eligibility(r) ==
  /\ run[r].pc = "eligible"
  /\ Goto(r, IF row[run[r].task].eligible THEN "work" ELSE "persist")
  /\ UNCHANGED <<row, job, rec, ledger, once, done, faults>>

\* The wording of the feedback arrives; nothing is stored yet.
Reword(r) ==
  /\ run[r].pc = "work" /\ ~ Rewards(run[r].task)
  /\ Goto(r, "persist")
  /\ UNCHANGED <<row, job, rec, ledger, once, done, faults>>

Effect(r) == Effects[run[r].step]
\* handleSpeakingSubmittedEvent goes on to the next effect, or returns.
NextEffect(r) ==
  run' = [run EXCEPT ![r].step = @ + 1, ![r].saw = FALSE,
                     ![r].pc = IF run[r].step = Len(Effects) THEN "persist" ELSE "work"]

\* An effect that is reserved in the ledger, or does not apply: the badge is owned
\* or not earned, no such quest is assigned today or it is completed.
Skip(r) ==
  /\ run[r].pc = "work" /\ Rewards(run[r].task)
  /\ Effect(r) \in ledger[run[r].task] \cup {"BADGE", "QUEST"}
  /\ NextEffect(r)
  /\ UNCHANGED <<row, job, rec, ledger, once, done, faults>>

\* MUTANT of Begin: the reservation is read, not inserted.
BeginUnreserved(r) ==
  /\ run[r].pc = "work" /\ Rewards(run[r].task)
  /\ Effect(r) \notin ledger[run[r].task]
  /\ run' = [run EXCEPT ![r].pc = "commit", ![r].saw = Effect(r) \in once]
  /\ UNCHANGED <<row, job, rec, ledger, once, done, faults>>

\* executeRewardEffect reserves the effect: an insert waits for the transaction
\* that holds the same one. Then it looks for the one-off row.
Begin(r) ==
  /\ run[r].pc = "work" /\ Rewards(run[r].task)
  /\ Effect(r) \notin ledger[run[r].task]
  /\ \A q \in Runs : ~ (run[q].pc = "commit" /\ run[q].task = run[r].task
                          /\ run[q].step = run[r].step)
  /\ run' = [run EXCEPT ![r].pc = "commit", ![r].saw = Effect(r) \in once]
  /\ UNCHANGED <<row, job, rec, ledger, once, done, faults>>

\* The one-off row has come to exist since the transaction looked for it.
Conflict(r) == Effect(r) \in OneOff \cap once /\ ~ run[r].saw

\* MUTANT of Commit: the reservation is committed before the effect.
CommitReservationOnly(r) ==
  /\ run[r].pc = "commit"
  /\ ledger' = [ledger EXCEPT ![run[r].task] = @ \cup {Effect(r)}]
  /\ run' = [run EXCEPT ![r].pc = "catch"]
  /\ UNCHANGED <<row, job, rec, once, done, faults>>

\* Reservation and effect together; awardXp creates the leaderboard entry.
Commit(r) ==
  LET t == run[r].task IN
  /\ run[r].pc = "commit" /\ ~ Conflict(r)
  /\ ledger' = [ledger EXCEPT ![t] = @ \cup {Effect(r)}]
  /\ Sent(t, Effect(r))
  /\ once' = IF Effect(r) = "XP" THEN once \cup {"XP"} ELSE once
  /\ IF Effect(r) = "XP" THEN Goto(r, "earned") ELSE NextEffect(r)
  /\ UNCHANGED <<row, job, rec, faults>>

\* The pet may reach the level of its badge with this very practice.
CommitBadge(r) ==
  /\ run[r].pc = "commit" /\ Effect(r) = "PET" /\ "PET" \notin once
  /\ ledger' = [ledger EXCEPT ![run[r].task] = @ \cup {"PET"}]
  /\ Sent(run[r].task, "PET")
  /\ once' = once \cup {"PET"}
  /\ NextEffect(r)
  /\ UNCHANGED <<row, job, rec, faults>>

\* A unique-constraint error rolls back and counts as "already processed".
TakenForDone(r) ==
  /\ run[r].pc = "commit" /\ Conflict(r)
  /\ NextEffect(r)
  /\ UNCHANGED <<row, job, rec, ledger, once, done, faults>>

\* gamification.xp_earned, for the quests that count XP.
Earned(r) ==
  /\ run[r].pc = "earned"
  /\ Sent(run[r].task, "earned")
  /\ NextEffect(r)
  /\ UNCHANGED <<row, job, rec, ledger, once, faults>>

Persist(r) ==
  LET t == run[r].task IN
  /\ run[r].pc = "persist"
  /\ IF Holds(r, t)
     THEN row' = [row EXCEPT ![t].status = "COMPLETED"] /\ Goto(r, "tell")
     ELSE Goto(r, "return") /\ UNCHANGED row
  /\ UNCHANGED <<job, rec, ledger, once, done, faults>>

Tell(r) ==
  /\ run[r].pc = "tell"
  /\ Sent(run[r].task, "completed") /\ Goto(r, "return")
  /\ UNCHANGED <<row, job, rec, ledger, once, faults>>

Last(r) == run[r].attempt >= JobAttempts

\* MUTANT of Catch: the write matches the id only.
CatchUnfenced(r) ==
  /\ run[r].pc = "catch"
  /\ row' = [row EXCEPT ![run[r].task].status = IF Last(r) THEN "FAILED" ELSE "PENDING"]
  /\ Goto(r, IF Last(r) THEN "return" ELSE "throw")
  /\ UNCHANGED <<job, rec, ledger, once, done, faults>>

Catch(r) ==
  LET t == run[r].task IN
  /\ run[r].pc = "catch"
  /\ row' = IF Holds(r, t)
            THEN [row EXCEPT ![t].status = IF Last(r) THEN "FAILED" ELSE "PENDING"] ELSE row
  /\ Goto(r, IF ~ Last(r) THEN "throw" ELSE IF Rewards(t) THEN "return" ELSE "tellFailed")
  /\ UNCHANGED <<job, rec, ledger, once, done, faults>>

TellFailed(r) ==
  /\ run[r].pc = "tellFailed"
  /\ Sent(run[r].task, "failed") /\ Goto(r, "return")
  /\ UNCHANGED <<row, job, rec, ledger, once, faults>>

\* BullMQ settles a job only for the worker that still holds its lock.
JobSettled(r, t) ==
  IF job[t].state # "active" \/ job[t].holder # r THEN job[t]
  ELSE IF run[r].pc = "return" THEN [job[t] EXCEPT !.state = "completed", !.holder = NoRun]
  ELSE [state |-> IF job[t].made + 1 < JobAttempts THEN "delayed" ELSE "failed",
        made |-> job[t].made + 1, holder |-> NoRun]

End(r) ==
  /\ run[r].pc \in {"return", "throw"}
  /\ job' = [job EXCEPT ![run[r].task] = JobSettled(r, run[r].task)]
  /\ run' = [run EXCEPT ![r] = IdleRun]
  /\ UNCHANGED <<row, rec, ledger, once, done, faults>>

\* A statement, a transaction or a call fails, before the try or inside it.
Fails(r) ==
  /\ run[r].pc \in Places \ {"return", "throw"} /\ Fault
  /\ Goto(r, IF run[r].pc \in {"load", "claim", "catch", "tellFailed"} THEN "throw" ELSE "catch")
  /\ UNCHANGED <<row, job, rec, ledger, once, done>>

\* The worker process dies; its open transaction is rolled back.
Crash(r) ==
  /\ run[r] # IdleRun /\ Fault
  /\ run' = [run EXCEPT ![r] = IdleRun]
  /\ UNCHANGED <<row, job, rec, ledger, once, done>>

\* A quiz is rewarded, or the pet fed: the one-off row comes to exist.
Elsewhere(e) ==
  /\ e \in OneOff \ once
  /\ once' = once \cup {e}
  /\ UNCHANGED <<row, job, run, rec, ledger, done, faults>>

-----------------------------------------------------------------------------
(* reconcilePostProcessingJobs, one candidate at a time.                     *)

Candidate(t) ==
  row[t].status = "PENDING" \/ (row[t].status = "PROCESSING" /\ row[t].expired)

Snapshot(c, t) ==
  /\ rec[c] = IdleRec /\ Candidate(t)
  /\ rec' = [rec EXCEPT ![c] = [pc |-> "inspect", task |-> t, status |-> row[t].status]]
  /\ UNCHANGED <<row, job, run, ledger, once, done, faults>>

\* MUTANT of Remedy: of the PENDING ones, only a missing job is looked for.
RemedyMissing(c, j) ==
  IF rec[c].status = "PROCESSING"
  THEN CASE j.state = "none" -> "reset" [] j.state = "active" -> "skip" [] OTHER -> "remove"
  ELSE IF j.state = "none" THEN "enqueue" ELSE "skip"

Remedy(c, j) ==
  IF rec[c].status = "PROCESSING"
  THEN CASE j.state = "none" -> "reset" [] j.state = "active" -> "skip" [] OTHER -> "remove"
  ELSE CASE j.state = "none" -> "enqueue"
         [] j.state = "completed" -> "remove"
         [] j.state = "failed" -> IF j.made < JobAttempts THEN "remove" ELSE "fail"
         [] OTHER -> "skip"

Inspect(c) ==
  /\ rec[c].pc = "inspect"
  /\ LET remedy == Remedy(c, job[rec[c].task]) IN
       rec' = [rec EXCEPT ![c] = IF remedy = "skip" THEN IdleRec ELSE [@ EXCEPT !.pc = remedy]]
  /\ UNCHANGED <<row, job, run, ledger, once, done, faults>>

\* job.remove() throws on a job some worker has locked.
Remove(c) ==
  LET t == rec[c].task IN
  /\ rec[c].pc = "remove"
  /\ IF job[t].state = "active"
     THEN rec' = [rec EXCEPT ![c] = IdleRec] /\ UNCHANGED job
     ELSE /\ job' = [job EXCEPT ![t] = NoJob]
          /\ rec' = [rec EXCEPT ![c].pc = IF rec[c].status = "PROCESSING" THEN "reset" ELSE "enqueue"]
  /\ UNCHANGED <<row, run, ledger, once, done, faults>>

\* The update matches the status, and throws when it has changed.
Reset(c) ==
  LET t == rec[c].task IN
  /\ rec[c].pc = "reset"
  /\ IF row[t].status = "PROCESSING"
     THEN /\ row' = [row EXCEPT ![t].status = "PENDING", ![t].worker = NoRun]
          /\ rec' = [rec EXCEPT ![c].pc = "enqueue"]
     ELSE rec' = [rec EXCEPT ![c] = IdleRec] /\ UNCHANGED row
  /\ UNCHANGED <<job, run, ledger, once, done, faults>>

Enqueue(c) ==
  /\ rec[c].pc = "enqueue"
  /\ job' = [job EXCEPT ![rec[c].task] = Added(rec[c].task)]
  /\ rec' = [rec EXCEPT ![c] = IdleRec]
  /\ UNCHANGED <<row, run, ledger, once, done, faults>>

\* The update matches the id only.
FailExhausted(c) ==
  /\ rec[c].pc = "fail"
  /\ row' = [row EXCEPT ![rec[c].task].status = "FAILED"]
  /\ rec' = [rec EXCEPT ![c] = IdleRec]
  /\ UNCHANGED <<job, run, ledger, once, done, faults>>

CycleFails(c) ==
  /\ rec[c] # IdleRec /\ Fault
  /\ rec' = [rec EXCEPT ![c] = IdleRec]
  /\ UNCHANGED <<row, job, run, ledger, once, done>>

-----------------------------------------------------------------------------

RunStep(r) ==
  \/ Load(r) \/ Claim(r) \/ Eligibility(r) \/ Reword(r) \/ Skip(r) \/ Begin(r) \/ Commit(r)
  \/ CommitBadge(r) \/ TakenForDone(r) \/ Earned(r) \/ Persist(r) \/ Tell(r) \/ Catch(r)
  \/ TellFailed(r) \/ End(r)

CycleStep(c) == Inspect(c) \/ Remove(c) \/ Reset(c) \/ Enqueue(c) \/ FailExhausted(c)

Stall(t) == \E state \in {"waiting", "failed"} : Stalled(t, state)

Next ==
  \/ \E t \in Tasks :
       \/ \E r \in Runs : TakeJob(r, t)
       \/ BackoffElapses(t) \/ LeaseExpires(t) \/ Stall(t)
       \/ \E state \in {"waiting", "failed"} : LockLost(t, state)
  \/ \E r \in Runs : RunStep(r) \/ Fails(r) \/ Crash(r)
  \/ \E c \in Schedulers :
       CycleStep(c) \/ CycleFails(c) \/ \E t \in Tasks : Snapshot(c, t)
  \/ \E e \in OneOff : Elsewhere(e)

\* Continuations run, BullMQ delivers and repairs its jobs, time passes, and the
\* 30 s interval comes round for every candidate.
Fairness ==
  /\ \A r \in Runs : WF_vars(RunStep(r))
  /\ \A t \in Tasks :
       /\ WF_vars(\E r \in Runs : TakeJob(r, t)) /\ WF_vars(BackoffElapses(t))
       /\ WF_vars(LeaseExpires(t)) /\ WF_vars(Stall(t))
       /\ \A c \in Schedulers : SF_vars(Snapshot(c, t))
  /\ \A c \in Schedulers : WF_vars(CycleStep(c))

Spec     == Init /\ [][Next]_vars
FairSpec == Spec /\ Fairness

-----------------------------------------------------------------------------
(* Properties.                                                               *)

\* Types: the status columns, the jobs, the runs and the cycles.
TypeOK ==
  /\ row \in [Tasks -> RowType] /\ job \in [Tasks -> JobType]
  /\ run \in [Runs -> RunType \cup {IdleRun}] /\ rec \in [Schedulers -> RecType \cup {IdleRec}]
  /\ ledger \in [Tasks -> SUBSET EffectNames] /\ once \subseteq OneOff
  /\ done \in [Tasks -> [Outputs -> Nat]] /\ faults \in 0 .. MaxFaults

\* Whatever crashes, takeovers and runs whose lease expired under them: each effect
\* of a reward is applied at most once, its XP counts for the quests at most once,
\* and the learner hears of its completion at most once.
OncePerSubmission ==
  \A t \in Tasks : \A o \in Outputs \ {"failed"} : done[t][o] <= 1

\* The effects every eligible recording earns.
Promised == {"XP", "BANH", "PET"}

\* The reward of a practice recording is complete only when it was paid out: no run
\* skips an effect that another one began and did not finish. One may be missing
\* only if its one-off row came to exist meanwhile. That of an exam recording is
\* never paid, however it ends.
CompletedIsPaid ==
  \A t \in Tasks : Rewards(t) =>
    IF row[t].eligible
    THEN row[t].status = "COMPLETED" =>
           \A e \in Promised : done[t][e] = 1 \/ e \in once \ AtFirst
    ELSE \A e \in EffectNames : done[t][e] = 0

\* A run that was taken over neither reopens nor fails what its successor settled;
\* only the scheduler's update by id can.
SettledKept ==
  [][\A t \in Tasks : Settled(t) /\ row'[t].status # row[t].status =>
       \E c \in Schedulers : rec[c].pc = "fail" /\ rec[c].task = t]_vars

\* Every feedback and every reward asked for is settled.
PostProcessingSettles == \A t \in Tasks : <>Settled(t)

\* REFUTED: "rewardStatus is not marked COMPLETED while an eligible effect is missing".
CompletedIsWhole ==
  \A t \in Tasks : Rewards(t) /\ row[t].eligible /\ row[t].status = "COMPLETED" =>
    \A e \in Promised : done[t][e] = 1

=============================================================================
