--------------------------- MODULE SpeakingScoring ---------------------------
(* The BullMQ scoring pipeline of Speaking submissions: the API that accepts  *)
(* a recording, the queue, the worker runs that claim, score and persist it,  *)
(* their timeout handler, and the scheduler that repairs what was lost.       *)
(*                                                                            *)
(* Every action is one statement against PostgreSQL or Redis, or one answer   *)
(* of the object store or the scoring provider: what the code awaits between  *)
(* two of them is where other runs, schedulers and crashes interleave.        *)
EXTENDS Integers, FiniteSets

CONSTANTS
  Submissions,   \* ids of SpeakingSubmission rows
  Runs,          \* identities a run of processScoreJob can draw as its workerToken
  Schedulers,    \* API instances, each with a SpeakingReconciliationScheduler
  MaxAttempts,   \* MAX_ATTEMPTS of the processor and of the scheduler
  JobAttempts,   \* `attempts` of the BullMQ jobs
  MaxFaults,     \* bound on crashes, timeouts, failed statements and lost locks
  Recordings,    \* the kinds of recording submitted, of those in Audio
  Slow,          \* may a step outlast the time limit that was set to outlast it?
  NoRun, NoSub   \* null, as a workerToken and as a submission id

ASSUME AttemptsAssumption == MaxAttempts \in Nat \ {0} /\ JobAttempts \in Nat \ {0}
ASSUME FaultsAssumption   == MaxFaults \in Nat
ASSUME SlowAssumption == Slow \in BOOLEAN
ASSUME NullAssumption     == NoRun \notin Runs /\ NoSub \notin Submissions

VARIABLES
  row,     \* the SpeakingSubmission rows
  job,     \* the BullMQ score job of each submission
  post,    \* the kinds of post-processing job that exist for each submission
  api,     \* where the request that accepts the submission stands
  run,     \* the runs of processScoreJob
  rec,     \* the schedulers' cycles
  sent,    \* what left the system: Redis events and learner progress records
  faults   \* faults spent so far

vars == <<row, job, post, api, run, rec, sent, faults>>

-----------------------------------------------------------------------------
(* Data.                                                                     *)

\* What a recording turns out to be. "missing": the object is not in storage.
Audio    == {"speech", "silent", "invalid", "missing"}
ASSUME RecordingsAssumption == Recordings \subseteq Audio

Statuses == {"NONE", "PENDING", "PROCESSING", "COMPLETED", "FAILED"}
Errors   == {"none", "TRANSIENT", "LEASE_EXPIRED_RESET", "RETRY_EXHAUSTED",
             "AUDIO_OBJECT_NOT_FOUND", "INVALID_AUDIO", "NO_SPEECH"}
\* overallScore: null, 0, or above 0.
Scores   == {"null", "zero", "positive"}
PostKinds == {"FEEDBACK", "REWARD"}

RowType == [status : Statuses, worker : Runs \cup {NoRun}, attempts : Nat,
            expired : BOOLEAN, due : BOOLEAN, error : Errors, score : Scores,
            feedback : {"NOT_REQUESTED", "PENDING"},
            reward : {"NOT_REQUESTED", "PENDING"}, audio : Audio]

JobType == [state : {"none", "waiting", "active", "delayed", "completed", "failed"},
            made : Nat, holder : Runs \cup {NoRun}]

\* Where executeJob stands; the last three are how it ends.
Working == {"load", "claim", "download", "silent", "invalid", "missing", "score",
            "retry", "persist", "tellFailed", "tell", "progress", "enqueuePost"}
Ends    == {"return", "throw", "unrecoverable"}

\* `after`: how executeJob ends once FAILED has been published.
\* `timeout`: where the catch block of processScoreJob stands.
RunType == [pc : Working \cup Ends \cup {"idle"}, sub : Submissions,
            attempt : Nat, score : Scores, after : Ends,
            timeout : {"none", "read", "retry", "tellFailed", "throw", "done"},
            timeoutAttempt : Nat]

RecType == [pc : {"inspect", "remove", "reset", "enqueue", "fail"},
            sub : Submissions, status : {"PENDING", "PROCESSING"}, attempts : Nat]

SentType == [completed : Nat, failed : Nat, progress : Nat]

NewRow == [status |-> "NONE", worker |-> NoRun, attempts |-> 0, expired |-> FALSE,
           due |-> TRUE, error |-> "none", score |-> "null",
           feedback |-> "NOT_REQUESTED", reward |-> "NOT_REQUESTED",
           audio |-> "speech"]
NoJob   == [state |-> "none", made |-> 0, holder |-> NoRun]
IdleRun == [pc |-> "idle", sub |-> NoSub, attempt |-> 0, score |-> "null",
            after |-> "throw", timeout |-> "none", timeoutAttempt |-> 0]
IdleRec == [pc |-> "idle", sub |-> NoSub, status |-> "NONE", attempts |-> 0]

Init ==
  /\ row  = [s \in Submissions |-> NewRow]
  /\ job  = [s \in Submissions |-> NoJob]
  /\ post = [s \in Submissions |-> {}]
  /\ api  = [s \in Submissions |-> "idle"]
  /\ run  = [r \in Runs |-> IdleRun]
  /\ rec  = [c \in Schedulers |-> IdleRec]
  /\ sent = [s \in Submissions |-> [completed |-> 0, failed |-> 0, progress |-> 0]]
  /\ faults = 0

-----------------------------------------------------------------------------
(* Helpers.                                                                  *)

Settled(s) == row[s].status \in {"COMPLETED", "FAILED"}

\* The fence of every write of a run: status PROCESSING under its own token.
Holds(r, s) == row[s].status = "PROCESSING" /\ row[s].worker = r

TimedOut(r) == run[r].timeout # "none"

\* executeJob is under way and its abort signal has not fired.
Live(r) == run[r].pc \in Working /\ ~TimedOut(r)

\* The promise given to BullMQ is unsettled: the worker renews the job's lock.
Busy(r) == IF TimedOut(r) THEN run[r].timeout # "done" ELSE run[r].pc # "idle"

\* A new UUID is an identity nobody can still confuse with an earlier run.
Unused(r) ==
  /\ run[r] = IdleRun
  /\ \A s \in Submissions : ~Holds(r, s) /\ job[s].holder # r

\* Spend one fault.
Fault == faults < MaxFaults /\ faults' = faults + 1

Goto(r, pc) == run' = [run EXCEPT ![r].pc = pc]

\* queue.add under the deterministic job id: a no-op while any job has that id.
Added(s) == IF job[s].state = "none" THEN [NoJob EXCEPT !.state = "waiting"] ELSE job[s]

\* BullMQ settles a job only for the worker that still holds its lock.
JobSettled(r, s, end) ==
  IF job[s].state # "active" \/ job[s].holder # r THEN job[s]
  ELSE CASE end = "return"        -> [job[s] EXCEPT !.state = "completed", !.holder = NoRun]
         [] end = "unrecoverable" -> [job[s] EXCEPT !.state = "failed", !.holder = NoRun]
         [] end = "throw" ->
              [state  |-> IF job[s].made + 1 < JobAttempts THEN "delayed" ELSE "failed",
               made   |-> job[s].made + 1,
               holder |-> NoRun]

\* The row as each write leaves it.
Accepted(s, a)    == [row[s] EXCEPT !.status = "PENDING", !.audio = a]
Claimed(s, r)     == [row[s] EXCEPT !.status = "PROCESSING", !.expired = FALSE,
                                    !.worker = r, !.attempts = @ + 1]
FailedWith(s, e)  == [row[s] EXCEPT !.status = "FAILED", !.score = "null", !.error = e,
                                    !.due = TRUE]
ToRetry(s)        == [row[s] EXCEPT !.status = "PENDING", !.error = "TRANSIENT", !.due = FALSE]
Silent(s)         == [row[s] EXCEPT !.status = "COMPLETED", !.score = "null",
                                    !.error = "NO_SPEECH", !.due = TRUE]
Scored(s, score)  == [row[s] EXCEPT
                        !.status = "COMPLETED", !.score = score, !.due = TRUE,
                        !.error = IF score = "null" THEN "NO_SPEECH" ELSE "none",
                        !.feedback = "PENDING",
                        !.reward = IF score = "positive" THEN "PENDING" ELSE "NOT_REQUESTED"]
Recovered(s)      == [row[s] EXCEPT !.status = "PENDING", !.due = TRUE,
                                    !.error = "LEASE_EXPIRED_RESET"]
Exhausted(s)      == [row[s] EXCEPT !.status = "FAILED", !.due = TRUE,
                                    !.error = "RETRY_EXHAUSTED"]

\* handleTransientFailure once its fence has let it through.
AfterTransientFailure(s, attempt) ==
  IF attempt >= MaxAttempts THEN FailedWith(s, "TRANSIENT") ELSE ToRetry(s)

-----------------------------------------------------------------------------
(* The API: submitAudio and finalizeUpload.                                  *)

Submit(s, a) ==
  /\ row[s].status = "NONE"
  /\ row' = [row EXCEPT ![s] = Accepted(s, a)]
  /\ api' = [api EXCEPT ![s] = "enqueue"]
  /\ UNCHANGED <<job, post, run, rec, sent, faults>>

SubmitEnqueue(s) ==
  /\ api[s] = "enqueue"
  /\ api' = [api EXCEPT ![s] = "done"]
  /\ job' = [job EXCEPT ![s] = Added(s)]
  /\ UNCHANGED <<row, post, run, rec, sent, faults>>

\* Redis is unreachable, or the API dies after the row is committed.
SubmitEnqueueFails(s) ==
  /\ api[s] = "enqueue" /\ Fault
  /\ api' = [api EXCEPT ![s] = "done"]
  /\ UNCHANGED <<row, job, post, run, rec, sent>>

-----------------------------------------------------------------------------
(* The queue (BullMQ) and time.                                              *)

TakeJob(r, s) ==
  /\ job[s].state = "waiting" /\ Unused(r)
  /\ job' = [job EXCEPT ![s].state = "active", ![s].holder = r]
  /\ run' = [run EXCEPT ![r] = [IdleRun EXCEPT !.pc = "load", !.sub = s]]
  /\ UNCHANGED <<row, post, api, rec, sent, faults>>

BackoffElapses(s) ==
  /\ job[s].state = "delayed"
  /\ job' = [job EXCEPT ![s].state = "waiting"]
  /\ UNCHANGED <<row, post, api, run, rec, sent, faults>>

\* The stalled check finds an active job without a lock: back to waiting, or
\* failed when it stalled too often.
LockGone(s, state) ==
  /\ job' = [job EXCEPT ![s].state = state, ![s].holder = NoRun]
  /\ UNCHANGED <<row, post, api, run, rec, sent>>

\* Its worker died.
Stalled(s, state) ==
  /\ job[s].state = "active" /\ \A r \in Runs : Busy(r) => job[s].holder # r
  /\ LockGone(s, state)
  /\ UNCHANGED faults

\* Its worker lives but could not renew the lock: only if steps may be slow,
\* because lockDuration is the lease and the lease exceeds the job timeout.
LockLost(s, state) ==
  /\ Slow /\ Fault
  /\ job[s].state = "active" /\ \E r \in Runs : Busy(r) /\ job[s].holder = r
  /\ LockGone(s, state)

\* nextAttemptAt passes.
RetryComesDue(s) ==
  /\ row[s].status = "PENDING" /\ ~row[s].due
  /\ row' = [row EXCEPT ![s].due = TRUE]
  /\ UNCHANGED <<job, post, api, run, rec, sent, faults>>

\* processingStartedAt falls behind the cutoff of the lease.
LeaseRunsOut(s) ==
  /\ row[s].status = "PROCESSING" /\ ~row[s].expired
  /\ row' = [row EXCEPT ![s].expired = TRUE]
  /\ UNCHANGED <<job, post, api, run, rec, sent>>

\* The lease is the job timeout plus a margin: its holder timed out or ended.
LeaseExpires(s) ==
  /\ \A r \in Runs : Live(r) => ~Holds(r, s)
  /\ LeaseRunsOut(s)
  /\ UNCHANGED faults

\* The holder lives: a blocked event loop, or two clocks that disagree.
LeaseExpiresEarly(s) ==
  /\ Slow /\ Fault
  /\ \E r \in Runs : Live(r) /\ Holds(r, s)
  /\ LeaseRunsOut(s)

-----------------------------------------------------------------------------
(* executeJob.                                                               *)

\* MUTANT of Load: the attempt is BullMQ's attemptsMade, not the row's count.
LoadJobAttempt(r) ==
  /\ run[r].pc = "load"
  /\ LET s == run[r].sub IN
       run' = [run EXCEPT ![r].pc = IF row[s].status = "COMPLETED" THEN "return" ELSE "claim",
                          ![r].attempt = job[s].made + 1]
  /\ UNCHANGED <<row, job, post, api, rec, sent, faults>>

Load(r) ==
  /\ run[r].pc = "load"
  /\ LET s == run[r].sub IN
       run' = [run EXCEPT ![r].pc = IF row[s].status = "COMPLETED" THEN "return" ELSE "claim",
                          ![r].attempt = row[s].attempts + 1]
  /\ UNCHANGED <<row, job, post, api, rec, sent, faults>>

Claimable(s) ==
  \/ row[s].status = "PENDING"
  \/ row[s].status = "PROCESSING" /\ row[s].expired

Claim(r) ==
  /\ run[r].pc = "claim"
  /\ LET s == run[r].sub IN
       IF Claimable(s)
       THEN /\ row' = [row EXCEPT ![s] = Claimed(s, r)]
            /\ Goto(r, IF TimedOut(r) THEN "throw" ELSE "download")
       ELSE Goto(r, "return") /\ UNCHANGED row
  /\ UNCHANGED <<job, post, api, rec, sent, faults>>

\* Download, abort check and byte validation: no state of ours changes. A
\* storage failure other than a missing object is "retry".
Download(r) ==
  /\ run[r].pc = "download"
  /\ LET audio == row[run[r].sub].audio IN
       \/ audio = "missing" /\ Goto(r, "missing")
       \/ Goto(r, "retry")
       \/ audio # "missing" /\ TimedOut(r) /\ Goto(r, "throw")
       \/ audio = "speech" /\ ~TimedOut(r) /\ Goto(r, "score")
       \/ audio \in {"silent", "invalid"} /\ ~TimedOut(r) /\ Goto(r, audio)
  /\ UNCHANGED <<row, job, post, api, rec, sent, faults>>

\* The provider answers, fails, or answers after the abort.
Score(r) ==
  /\ run[r].pc = "score"
  /\ \/ Goto(r, "retry")
     \/ TimedOut(r) /\ Goto(r, "throw")
     \/ /\ ~TimedOut(r)
        /\ \E score \in Scores :
             run' = [run EXCEPT ![r].pc = "persist", ![r].score = score]
  /\ UNCHANGED <<row, job, post, api, rec, sent, faults>>

\* A transient failure of storage or provider, counted with the attempt read
\* before the claim.
Retry(r) ==
  /\ run[r].pc = "retry"
  /\ LET s == run[r].sub IN
       IF Holds(r, s)
       THEN /\ row' = [row EXCEPT ![s] = AfterTransientFailure(s, run[r].attempt)]
            /\ run' = [run EXCEPT
                 ![r].pc = IF run[r].attempt >= MaxAttempts THEN "tellFailed" ELSE "throw",
                 ![r].after = "throw"]
       ELSE Goto(r, "throw") /\ UNCHANGED row
  /\ UNCHANGED <<job, post, api, rec, sent, faults>>

\* MUTANT of FailForGood: the write matches the id only.
FailForGoodUnfenced(r) ==
  /\ run[r].pc \in {"missing", "invalid"}
  /\ row' = [row EXCEPT ![run[r].sub] = FailedWith(run[r].sub, "INVALID_AUDIO")]
  /\ run' = [run EXCEPT ![r].pc = "tellFailed", ![r].after = "unrecoverable"]
  /\ UNCHANGED <<job, post, api, rec, sent, faults>>

\* Missing object or invalid audio: FAILED for good, and the job must not retry.
FailForGood(r) ==
  /\ run[r].pc \in {"missing", "invalid"}
  /\ LET s == run[r].sub IN
       IF Holds(r, s)
       THEN /\ row' = [row EXCEPT ![s] = FailedWith(s,
                  IF run[r].pc = "missing" THEN "AUDIO_OBJECT_NOT_FOUND" ELSE "INVALID_AUDIO")]
            /\ run' = [run EXCEPT ![r].pc = "tellFailed", ![r].after = "unrecoverable"]
       ELSE Goto(r, "unrecoverable") /\ UNCHANGED row
  /\ UNCHANGED <<job, post, api, rec, sent, faults>>

TellFailed(r) ==
  /\ run[r].pc = "tellFailed"
  /\ sent' = [sent EXCEPT ![run[r].sub].failed = @ + 1]
  /\ Goto(r, run[r].after)
  /\ UNCHANGED <<row, job, post, api, rec, faults>>

\* A silent recording is COMPLETED without a score and without post-processing.
PersistSilent(r) ==
  /\ run[r].pc = "silent"
  /\ LET s == run[r].sub IN
       IF Holds(r, s)
       THEN /\ row' = [row EXCEPT ![s] = Silent(s)]
            /\ Goto(r, "tell")
       ELSE Goto(r, "return") /\ UNCHANGED row
  /\ UNCHANGED <<job, post, api, rec, sent, faults>>

\* MUTANT of Persist: nobody looks whether the update matched the row.
PersistUnheard(r) ==
  /\ run[r].pc = "persist"
  /\ LET s == run[r].sub IN
       row' = [row EXCEPT ![s] = IF Holds(r, s) THEN Scored(s, run[r].score) ELSE @]
  /\ Goto(r, "tell")
  /\ UNCHANGED <<job, post, api, rec, sent, faults>>

Persist(r) ==
  /\ run[r].pc = "persist"
  /\ LET s == run[r].sub IN
       IF Holds(r, s)
       THEN /\ row' = [row EXCEPT ![s] = Scored(s, run[r].score)]
            /\ Goto(r, "tell")
       ELSE Goto(r, "return") /\ UNCHANGED row
  /\ UNCHANGED <<job, post, api, rec, sent, faults>>

\* speaking.completed; the silent path ends here (it asked for no feedback).
TellCompleted(r) ==
  /\ run[r].pc = "tell"
  /\ sent' = [sent EXCEPT ![run[r].sub].completed = @ + 1]
  /\ Goto(r, IF row[run[r].sub].audio = "silent" THEN "return" ELSE "progress")
  /\ UNCHANGED <<row, job, post, api, rec, faults>>

\* recordSpeakingAttempt counts every scored attempt, a 0 included.
RecordProgress(r) ==
  /\ run[r].pc = "progress"
  /\ sent' = [sent EXCEPT ![run[r].sub].progress =
                             IF run[r].score = "null" THEN @ ELSE @ + 1]
  /\ Goto(r, "enqueuePost")
  /\ UNCHANGED <<row, job, post, api, rec, faults>>

EnqueuePost(r) ==
  /\ run[r].pc = "enqueuePost"
  /\ post' = [post EXCEPT ![run[r].sub] =
                @ \cup IF run[r].score = "positive" THEN PostKinds ELSE {"FEEDBACK"}]
  /\ Goto(r, "return")
  /\ UNCHANGED <<row, job, api, rec, sent, faults>>

\* The error is logged and swallowed; the first of the two may have got through.
EnqueuePostFails(r) ==
  /\ run[r].pc = "enqueuePost" /\ Fault
  /\ \E some \in {{}, {"FEEDBACK"}} : post' = [post EXCEPT ![run[r].sub] = @ \cup some]
  /\ Goto(r, "return")
  /\ UNCHANGED <<row, job, api, rec, sent>>

\* A statement of executeJob throws. The silent write stands inside the try
\* whose catch records INVALID_AUDIO.
StatementFails(r) ==
  /\ run[r].pc \in {"load", "claim", "missing", "invalid", "silent", "retry", "persist"}
  /\ Fault
  /\ Goto(r, IF run[r].pc = "silent" THEN "invalid" ELSE "throw")
  /\ UNCHANGED <<row, job, post, api, rec, sent>>

\* executeJob ends; BullMQ hears of it unless the timeout won the race.
End(r) ==
  /\ run[r].pc \in Ends
  /\ LET s == run[r].sub IN
       job' = IF TimedOut(r) THEN job ELSE [job EXCEPT ![s] = JobSettled(r, s, run[r].pc)]
  /\ IF TimedOut(r) /\ run[r].timeout # "done" THEN Goto(r, "idle")
     ELSE run' = [run EXCEPT ![r] = IdleRun]
  /\ UNCHANGED <<row, post, api, rec, sent, faults>>

-----------------------------------------------------------------------------
(* The timeout of processScoreJob. executeJob is only told to abort: it runs *)
(* on, and a statement already in flight still reaches the database.         *)

Timeout(r) ==
  /\ Live(r) /\ Fault
  /\ run' = [run EXCEPT ![r].timeout = "read"]
  /\ UNCHANGED <<row, job, post, api, rec, sent>>

TimeoutRead(r) ==
  /\ run[r].timeout = "read"
  /\ run' = [run EXCEPT ![r].timeout = "retry",
                        ![r].timeoutAttempt = row[run[r].sub].attempts]
  /\ UNCHANGED <<row, job, post, api, rec, sent, faults>>

\* MUTANT of TimeoutRetry: the write matches the id only.
TimeoutRetryUnfenced(r) ==
  /\ run[r].timeout = "retry"
  /\ row' = [row EXCEPT ![run[r].sub] =
               AfterTransientFailure(run[r].sub, run[r].timeoutAttempt)]
  /\ run' = [run EXCEPT ![r].timeout = "throw"]
  /\ UNCHANGED <<job, post, api, rec, sent, faults>>

TimeoutRetry(r) ==
  /\ run[r].timeout = "retry"
  /\ LET s == run[r].sub IN
       IF Holds(r, s)
       THEN /\ row' = [row EXCEPT ![s] = AfterTransientFailure(s, run[r].timeoutAttempt)]
            /\ run' = [run EXCEPT ![r].timeout =
                         IF run[r].timeoutAttempt >= MaxAttempts THEN "tellFailed" ELSE "throw"]
       ELSE run' = [run EXCEPT ![r].timeout = "throw"] /\ UNCHANGED row
  /\ UNCHANGED <<job, post, api, rec, sent, faults>>

TimeoutTellFailed(r) ==
  /\ run[r].timeout = "tellFailed"
  /\ sent' = [sent EXCEPT ![run[r].sub].failed = @ + 1]
  /\ run' = [run EXCEPT ![r].timeout = "throw"]
  /\ UNCHANGED <<row, job, post, api, rec, faults>>

TimeoutStatementFails(r) ==
  /\ run[r].timeout \in {"read", "retry"} /\ Fault
  /\ run' = [run EXCEPT ![r].timeout = "throw"]
  /\ UNCHANGED <<row, job, post, api, rec, sent>>

\* The error reaches BullMQ; executeJob may still be running.
TimeoutThrow(r) ==
  /\ run[r].timeout = "throw"
  /\ job' = [job EXCEPT ![run[r].sub] = JobSettled(r, run[r].sub, "throw")]
  /\ run' = [run EXCEPT ![r] = IF @.pc = "idle" THEN IdleRun ELSE [@ EXCEPT !.timeout = "done"]]
  /\ UNCHANGED <<row, post, api, rec, sent, faults>>

\* The worker process dies: executeJob and the timer with it.
Crash(r) ==
  /\ run[r] # IdleRun /\ Fault
  /\ run' = [run EXCEPT ![r] = IdleRun]
  /\ UNCHANGED <<row, job, post, api, rec, sent>>

-----------------------------------------------------------------------------
(* reconcilePendingSubmissions, one candidate per cycle.                     *)

\* findMany: rows PENDING and due, submitted at least STALE_PENDING_MS ago (the
\* API has long enqueued them by then), or PROCESSING under an expired lease.
Candidate(s) ==
  \/ row[s].status = "PENDING" /\ row[s].due /\ (api[s] = "done" \/ Slow)
  \/ row[s].status = "PROCESSING" /\ row[s].expired

Snapshot(c, s) ==
  /\ rec[c].pc = "idle" /\ Candidate(s)
  /\ rec' = [rec EXCEPT ![c] = [pc |-> "inspect", sub |-> s, status |-> row[s].status,
                                attempts |-> row[s].attempts]]
  /\ UNCHANGED <<row, job, post, api, run, sent, faults>>

\* MUTANT of Remedy: a stale PROCESSING row is reset without looking at its job.
RemedyBlind(c, state) ==
  IF rec[c].status = "PROCESSING" THEN "reset"
  ELSE CASE state = "none"      -> "enqueue"
         [] state = "completed" -> "remove"
         [] state = "failed"    -> IF rec[c].attempts < MaxAttempts THEN "remove" ELSE "fail"
         [] OTHER               -> "skip"

\* MUTANT of Remedy: the failed job of a PENDING row is taken for a healthy one.
RemedyFailedSkipped(c, state) ==
  IF rec[c].status = "PROCESSING"
  THEN CASE state = "none"   -> "reset"
         [] state = "active" -> "skip"
         [] OTHER            -> "remove"
  ELSE CASE state = "none"      -> "enqueue"
         [] state = "completed" -> "remove"
         [] OTHER               -> "skip"

\* What the scheduler does about a job in this state.
Remedy(c, state) ==
  IF rec[c].status = "PROCESSING"
  THEN CASE state = "none"   -> "reset"
         [] state = "active" -> "skip"
         [] OTHER            -> "remove"
  ELSE CASE state = "none"      -> "enqueue"
         [] state = "completed" -> "remove"
         [] state = "failed"    -> IF rec[c].attempts < MaxAttempts THEN "remove" ELSE "fail"
         [] OTHER               -> "skip"

\* getJob and getState.
Inspect(c) ==
  /\ rec[c].pc = "inspect"
  /\ LET remedy == Remedy(c, job[rec[c].sub].state) IN
       rec' = [rec EXCEPT ![c] = IF remedy = "skip" THEN IdleRec ELSE [@ EXCEPT !.pc = remedy]]
  /\ UNCHANGED <<row, job, post, api, run, sent, faults>>

\* MUTANT of Remove: the job goes even while a worker holds its lock.
RemoveLocked(c) ==
  /\ rec[c].pc = "remove"
  /\ job' = [job EXCEPT ![rec[c].sub] = NoJob]
  /\ rec' = [rec EXCEPT ![c].pc = IF rec[c].status = "PROCESSING" THEN "reset" ELSE "enqueue"]
  /\ UNCHANGED <<row, post, api, run, sent, faults>>

\* job.remove() throws on a job some worker has locked.
Remove(c) ==
  /\ rec[c].pc = "remove"
  /\ LET s == rec[c].sub IN
       IF job[s].state = "active" THEN rec' = [rec EXCEPT ![c] = IdleRec] /\ UNCHANGED job
       ELSE /\ job' = [job EXCEPT ![s] = NoJob]
            /\ rec' = [rec EXCEPT ![c].pc =
                         IF rec[c].status = "PROCESSING" THEN "reset" ELSE "enqueue"]
  /\ UNCHANGED <<row, post, api, run, sent, faults>>

\* The update matches id and status; it throws when the row has moved on.
Reset(c) ==
  /\ rec[c].pc = "reset"
  /\ LET s == rec[c].sub IN
       IF row[s].status = "PROCESSING"
       THEN /\ row' = [row EXCEPT ![s] = Recovered(s)]
            /\ rec' = [rec EXCEPT ![c].pc = "enqueue"]
       ELSE rec' = [rec EXCEPT ![c] = IdleRec] /\ UNCHANGED row
  /\ UNCHANGED <<job, post, api, run, sent, faults>>

Enqueue(c) ==
  /\ rec[c].pc = "enqueue"
  /\ job' = [job EXCEPT ![rec[c].sub] = Added(rec[c].sub)]
  /\ rec' = [rec EXCEPT ![c] = IdleRec]
  /\ UNCHANGED <<row, post, api, run, sent, faults>>

\* Attempts exhausted: the update matches the id only, and publishes nothing.
FailExhausted(c) ==
  /\ rec[c].pc = "fail"
  /\ row' = [row EXCEPT ![rec[c].sub] = Exhausted(rec[c].sub)]
  /\ rec' = [rec EXCEPT ![c] = IdleRec]
  /\ UNCHANGED <<job, post, api, run, sent, faults>>

\* A statement or Redis call of the cycle fails, or its instance restarts.
CycleFails(c) ==
  /\ rec[c].pc # "idle" /\ Fault
  /\ rec' = [rec EXCEPT ![c] = IdleRec]
  /\ UNCHANGED <<row, job, post, api, run, sent>>

\* MUTANT of EnqueueMissingPost: only feedback is looked for.
EnqueueMissingFeedback(s) ==
  /\ row[s].status = "COMPLETED" /\ row[s].feedback = "PENDING" /\ "FEEDBACK" \notin post[s]
  /\ post' = [post EXCEPT ![s] = @ \cup {"FEEDBACK"}]
  /\ UNCHANGED <<row, job, api, run, rec, sent, faults>>

\* reconcilePostProcessingJobs for a job that is missing.
EnqueueMissingPost(s) ==
  /\ row[s].status = "COMPLETED"
  /\ \/ row[s].feedback = "PENDING" /\ "FEEDBACK" \notin post[s]
        /\ post' = [post EXCEPT ![s] = @ \cup {"FEEDBACK"}]
     \/ row[s].reward = "PENDING" /\ "REWARD" \notin post[s]
        /\ post' = [post EXCEPT ![s] = @ \cup {"REWARD"}]
  /\ UNCHANGED <<row, job, api, run, rec, sent, faults>>

-----------------------------------------------------------------------------
(* The next-state relation.                                                  *)

ApiNext(s) ==
  \/ \E a \in Recordings : Submit(s, a)
  \/ SubmitEnqueue(s)
  \/ SubmitEnqueueFails(s)

QueueNext(s) ==
  \/ \E r \in Runs : TakeJob(r, s)
  \/ BackoffElapses(s)
  \/ \E state \in {"waiting", "failed"} : Stalled(s, state) \/ LockLost(s, state)
  \/ RetryComesDue(s)
  \/ LeaseExpires(s)
  \/ LeaseExpiresEarly(s)

\* What a run does when nothing goes wrong around it.
ExecStep(r) ==
  \/ Load(r) \/ Claim(r) \/ Download(r) \/ Score(r) \/ Retry(r)
  \/ FailForGood(r) \/ TellFailed(r) \/ PersistSilent(r) \/ Persist(r)
  \/ TellCompleted(r) \/ RecordProgress(r) \/ EnqueuePost(r) \/ End(r)

TimeoutStep(r) ==
  TimeoutRead(r) \/ TimeoutRetry(r) \/ TimeoutTellFailed(r) \/ TimeoutThrow(r)

RunFault(r) ==
  \/ EnqueuePostFails(r) \/ StatementFails(r) \/ Timeout(r)
  \/ TimeoutStatementFails(r) \/ Crash(r)

CycleStep(c) ==
  Inspect(c) \/ Remove(c) \/ Reset(c) \/ Enqueue(c) \/ FailExhausted(c)

Done == (\A s \in Submissions : Settled(s)) /\ UNCHANGED vars

Next ==
  \/ \E s \in Submissions : ApiNext(s) \/ QueueNext(s) \/ EnqueueMissingPost(s)
  \/ \E r \in Runs : ExecStep(r) \/ TimeoutStep(r) \/ RunFault(r)
  \/ \E c \in Schedulers : \/ \E s \in Submissions : Snapshot(c, s)
                            \/ CycleStep(c)
                            \/ CycleFails(c)
  \/ Done

\* Node's event loop runs every continuation, BullMQ delivers every waiting
\* job and repairs every stalled one, time passes, and the 30 s interval comes
\* round for every candidate. Nothing makes a user submit.
Fairness ==
  /\ \A r \in Runs : WF_vars(ExecStep(r)) /\ WF_vars(TimeoutStep(r))
  /\ \A s \in Submissions :
       /\ WF_vars(SubmitEnqueue(s))
       /\ WF_vars(\E r \in Runs : TakeJob(r, s))
       /\ WF_vars(BackoffElapses(s))
       /\ WF_vars(\E state \in {"waiting", "failed"} : Stalled(s, state))
       /\ WF_vars(RetryComesDue(s)) /\ WF_vars(LeaseExpires(s))
       /\ WF_vars(EnqueueMissingPost(s))
       /\ \A c \in Schedulers : SF_vars(Snapshot(c, s))
  /\ \A c \in Schedulers : WF_vars(CycleStep(c))

Spec     == Init /\ [][Next]_vars
FairSpec == Spec /\ Fairness

-----------------------------------------------------------------------------
(* Properties.                                                               *)

\* Types: the shape of every row, job, run and cycle (the Prisma model, BullMQ's
\* job states, the locals of processScoreJob and of the scheduler).
TypeOK ==
  /\ row \in [Submissions -> RowType]
  /\ job \in [Submissions -> JobType]
  /\ post \in [Submissions -> SUBSET PostKinds]
  /\ api \in [Submissions -> {"idle", "enqueue", "done"}]
  /\ run \in [Runs -> RunType \cup {IdleRun}]
  /\ rec \in [Schedulers -> RecType \cup {IdleRec}]
  /\ sent \in [Submissions -> SentType]
  /\ faults \in 0 .. MaxFaults

\* A COMPLETED row is never re-scored or overwritten, a FAILED one never revived
\* ("Idempotency: If already COMPLETED, do not re-score or overwrite").
SettledForever ==
  [][\A s \in Submissions : Settled(s) =>
        row'[s].status = row[s].status /\ row'[s].score = row[s].score]_vars

\* What the code does guarantee: no run, stale, slow or timed out, touches a
\* settled row. Only the scheduler's unfenced RETRY_EXHAUSTED does, and only on
\* a row that was claimed beyond MAX_ATTEMPTS.
OnlyExhaustionOverrides ==
  [][\A s \in Submissions :
        Settled(s) /\ (row'[s].status # row[s].status \/ row'[s].score # row[s].score) =>
          /\ row[s].attempts > MaxAttempts
          /\ row'[s] = Exhausted(s)]_vars

\* The learner hears of each submission at most once and only when it is
\* settled, and her progress counts it at most once (publishEvent,
\* recordSpeakingAttempt), however many runs worked on it.
ToldOnce ==
  \A s \in Submissions :
    /\ sent[s].completed + sent[s].failed <= 1
    /\ sent[s].progress <= sent[s].completed
    /\ sent[s].completed + sent[s].failed = 1 => Settled(s)

\* No two live runs work on one submission: the queue's lock, the deterministic
\* job id and the scheduler together never create a duplicate.
OneLiveRun ==
  \A r1, r2 \in Runs :
    Live(r1) /\ Live(r2) /\ run[r1].sub = run[r2].sub => r1 = r2

\* A submission is claimed beyond MAX_ATTEMPTS only as often as something broke.
AttemptsBounded ==
  \A s \in Submissions : row[s].attempts <= MaxAttempts + faults

\* A live run keeps the row it claimed: nobody else's step takes its lease away
\* ("resets to PENDING ... if worker lease expired").
LiveLeaseKept ==
  [][\A r \in Runs, s \in Submissions :
        Live(r) /\ Holds(r, s) /\ run'[r] = run[r] =>
          row'[s].status = "PROCESSING" /\ row'[s].worker = r]_vars

\* Every accepted submission is eventually scored or failed.
EverySubmissionSettles ==
  \A s \in Submissions : row[s].status = "PENDING" ~> Settled(s)

\* Every score that asks for feedback or a reward gets the job for it.
PostProcessingScheduled ==
  \A s \in Submissions :
    /\ row[s].feedback = "PENDING" ~> (row[s].status = "COMPLETED" => "FEEDBACK" \in post[s])
    /\ row[s].reward = "PENDING" ~> (row[s].status = "COMPLETED" => "REWARD" \in post[s])

-----------------------------------------------------------------------------
(* The contract the scoring keeps (SubmissionContract).                      *)

\* What the row tells of the submission's verdict.
Verdict(s) ==
  CASE row[s].status = "NONE"      -> "none"
    [] row[s].status = "COMPLETED" -> IF row[s].feedback = "PENDING" THEN "scored" ELSE "silent"
    [] row[s].status = "FAILED"    -> IF row[s].error = "RETRY_EXHAUSTED" THEN "givenUp" ELSE "failed"
    [] OTHER                       -> "open"

Asked(s) == {kind \in PostKinds :
  "PENDING" = IF kind = "FEEDBACK" THEN row[s].feedback ELSE row[s].reward}

\* What the run that settled the submission has still to do for it.
AboutTo(s, pc) == \E r \in Runs : run[r].sub = s /\ run[r].pc = pc
FollowUp(s) ==
  CASE AboutTo(s, "tell")        -> "tellCompleted"
    [] AboutTo(s, "progress")    -> "count"
    [] AboutTo(s, "enqueuePost") -> "handOver"
    [] AboutTo(s, "tellFailed") \/ (\E r \in Runs : run[r].sub = s /\ run[r].timeout = "tellFailed")
                                 -> "tellFailed"
    [] OTHER                     -> "nothing"

Heard(s) ==
  CASE sent[s].completed = 0 /\ sent[s].failed = 0 -> "nothing"
    [] sent[s].completed = 1 /\ sent[s].failed = 0 -> "completed"
    [] sent[s].completed = 0 /\ sent[s].failed = 1 -> "failed"
    [] OTHER                                       -> "more than once"

Contract ==
  INSTANCE SubmissionContract WITH
    verdict <- [s \in Submissions |-> Verdict(s)],
    asked   <- [s \in Submissions |-> Asked(s)],
    next    <- [s \in Submissions |-> FollowUp(s)],
    told    <- [s \in Submissions |-> Heard(s)],
    counted <- [s \in Submissions |-> sent[s].progress],
    jobs    <- post

\* Whatever runs, retries and recoveries do to a submission, it is judged once,
\* by the run that still holds it, and what follows the verdict follows it once
\* and in order; post-processing gets the jobs the score asked for and no other.
HonoursContract == Contract!Spec

=============================================================================
