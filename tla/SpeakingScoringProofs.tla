----------------------- MODULE SpeakingScoringProofs -----------------------
(* Theorems of SpeakingScoring, for any numbers of submissions, runs,        *)
(* schedulers, attempts and faults.                                          *)
EXTENDS SpeakingScoring, FiniteSetTheorems, TLAPS

-----------------------------------------------------------------------------
(* What the helpers return.                                                  *)

\* Every write leaves a well-formed row.
LEMMA RowHelpers ==
  ASSUME NEW s \in Submissions, row[s] \in RowType
  PROVE  /\ \A a \in Audio : Accepted(s, a) \in RowType
         /\ \A r \in Runs : Claimed(s, r) \in RowType
         /\ \A e \in Errors : FailedWith(s, e) \in RowType
         /\ \A n \in Nat : AfterTransientFailure(s, n) \in RowType
         /\ Silent(s) \in RowType
         /\ \A x \in Scores : Scored(s, x) \in RowType
         /\ Recovered(s) \in RowType
         /\ Exhausted(s) \in RowType
         /\ [row[s] EXCEPT !.due = TRUE] \in RowType
         /\ [row[s] EXCEPT !.expired = TRUE] \in RowType
<1> USE DEF RowType
<1>1. ASSUME NEW a \in Audio PROVE Accepted(s, a) \in RowType
  BY DEF Accepted, Statuses
<1>2. ASSUME NEW r \in Runs PROVE Claimed(s, r) \in RowType
  <2>1. row[s].attempts + 1 \in Nat OBVIOUS
  <2>2. "PROCESSING" \in Statuses BY DEF Statuses
  <2>3. r \in Runs \cup {NoRun} OBVIOUS
  <2>4. QED BY <2>1, <2>2, <2>3 DEF Claimed
<1>3. ASSUME NEW e \in Errors PROVE FailedWith(s, e) \in RowType
  BY DEF FailedWith, Statuses, Scores
<1>4. ASSUME NEW n \in Nat PROVE AfterTransientFailure(s, n) \in RowType
  <2>1. "TRANSIENT" \in Errors BY DEF Errors
  <2>2. ToRetry(s) \in RowType BY <2>1 DEF ToRetry, Statuses
  <2>3. QED BY <1>3, <2>1, <2>2 DEF AfterTransientFailure
<1>5. Silent(s) \in RowType
  BY DEF Silent, Statuses, Errors, Scores
<1>6. ASSUME NEW x \in Scores PROVE Scored(s, x) \in RowType
  BY DEF Scored, Statuses, Errors
<1>7. Recovered(s) \in RowType
  BY DEF Recovered, Statuses, Errors
<1>8. Exhausted(s) \in RowType
  BY DEF Exhausted, Statuses, Errors
<1>9. [row[s] EXCEPT !.due = TRUE] \in RowType /\ [row[s] EXCEPT !.expired = TRUE] \in RowType
  OBVIOUS
<1>10. QED BY <1>1, <1>2, <1>3, <1>4, <1>5, <1>6, <1>7, <1>8, <1>9

\* Queue operations leave a well-formed job.
LEMMA JobHelpers ==
  ASSUME NEW s \in Submissions, job[s] \in JobType
  PROVE  /\ Added(s) \in JobType
         /\ \A r \in Runs, end \in Ends : JobSettled(r, s, end) \in JobType
         /\ [job[s] EXCEPT !.state = "waiting"] \in JobType
         /\ \A r \in Runs : [job[s] EXCEPT !.state = "active", !.holder = r] \in JobType
         /\ \A state \in {"waiting", "failed"} :
              [job[s] EXCEPT !.state = state, !.holder = NoRun] \in JobType
<1>1. Added(s) \in JobType
  BY DEF JobType, Added, NoJob
<1>2. ASSUME NEW r \in Runs, NEW end \in Ends PROVE JobSettled(r, s, end) \in JobType
  <2>1. [job[s] EXCEPT !.state = "completed", !.holder = NoRun] \in JobType
    BY DEF JobType
  <2>2. [job[s] EXCEPT !.state = "failed", !.holder = NoRun] \in JobType
    BY DEF JobType
  <2>3. [state  |-> IF job[s].made + 1 < JobAttempts THEN "delayed" ELSE "failed",
         made   |-> job[s].made + 1, holder |-> NoRun] \in JobType
    BY AttemptsAssumption DEF JobType
  <2>4. QED BY <2>1, <2>2, <2>3 DEF JobSettled, Ends
<1>3. [job[s] EXCEPT !.state = "waiting"] \in JobType
  BY DEF JobType
<1>4. ASSUME NEW r \in Runs
      PROVE  [job[s] EXCEPT !.state = "active", !.holder = r] \in JobType
  BY DEF JobType
<1>5. ASSUME NEW state \in {"waiting", "failed"}
      PROVE  [job[s] EXCEPT !.state = state, !.holder = NoRun] \in JobType
  BY DEF JobType
<1>6. QED BY <1>1, <1>2, <1>3, <1>4, <1>5

\* A run that does something is not IdleRun.
LEMMA BusyRun ==
  ASSUME TypeOK, NEW r \in Runs, run[r].pc # "idle" \/ run[r].timeout # "none"
  PROVE  run[r] \in RunType /\ run[r].sub \in Submissions
<1>1. run[r] # IdleRun BY DEF IdleRun
<1>2. run[r] \in RunType BY <1>1 DEF TypeOK
<1>3. QED BY <1>2 DEF RunType

\* Counting one more message.
LEMMA SentHelpers ==
  ASSUME NEW s \in Submissions, sent[s] \in SentType
  PROVE  /\ [sent[s] EXCEPT !.completed = @ + 1] \in SentType
         /\ [sent[s] EXCEPT !.failed = @ + 1] \in SentType
         /\ [sent[s] EXCEPT !.progress = @ + 1] \in SentType
BY DEF SentType

\* Spending a fault stays within the bound.
LEMMA FaultHelper ==
  ASSUME faults \in 0 .. MaxFaults, Fault
  PROVE  faults' \in 0 .. MaxFaults
BY FaultsAssumption DEF Fault

-----------------------------------------------------------------------------
(* Type correctness.                                                         *)

\* Every initial state is well typed.
LEMMA InitType == Init => TypeOK
<1> SUFFICES ASSUME Init PROVE TypeOK
  OBVIOUS
<1>1. NewRow \in RowType
  BY DEF NewRow, RowType, Statuses, Errors, Scores, Audio
<1>2. NoJob \in JobType
  BY DEF NoJob, JobType
<1>3. 0 \in 0 .. MaxFaults
  BY FaultsAssumption
<1>4. QED BY <1>1, <1>2, <1>3 DEF Init, TypeOK, SentType

\* The API's steps keep the types.
LEMMA ApiType ==
  ASSUME TypeOK, NEW s \in Submissions, ApiNext(s)
  PROVE  TypeOK'
<1>a. job[s] \in JobType /\ row[s] \in RowType
  BY DEF TypeOK
<1>1. ASSUME NEW a \in Recordings, Submit(s, a) PROVE TypeOK'
  BY <1>1, <1>a, RecordingsAssumption, RowHelpers DEF Submit, TypeOK
<1>2. CASE SubmitEnqueue(s)
  BY <1>2, <1>a, JobHelpers DEF SubmitEnqueue, TypeOK
<1>3. CASE SubmitEnqueueFails(s)
  BY <1>3, FaultHelper DEF SubmitEnqueueFails, TypeOK
<1>4. QED BY <1>1, <1>2, <1>3, ApiNext(s) DEF ApiNext

\* The queue's steps and the passing of time keep the types.
LEMMA QueueType ==
  ASSUME TypeOK, NEW s \in Submissions, QueueNext(s)
  PROVE  TypeOK'
<1>a. job[s] \in JobType /\ row[s] \in RowType
  BY DEF TypeOK
<1>1. ASSUME NEW r \in Runs, TakeJob(r, s) PROVE TypeOK'
  <2>1. [IdleRun EXCEPT !.pc = "load", !.sub = s] \in RunType
    BY DEF RunType, IdleRun, Working, Ends, Scores
  <2>2. QED BY <1>1, <1>a, <2>1, JobHelpers DEF TakeJob, TypeOK
<1>2. CASE BackoffElapses(s)
  BY <1>2, <1>a, JobHelpers DEF BackoffElapses, TypeOK
<1>3. ASSUME NEW state \in {"waiting", "failed"}, Stalled(s, state) \/ LockLost(s, state)
      PROVE  TypeOK'
  <2>1. faults' \in 0 .. MaxFaults
    BY <1>3, FaultHelper DEF Stalled, LockLost, TypeOK
  <2>2. LockGone(s, state)
    BY <1>3 DEF Stalled, LockLost
  <2>3. QED BY <1>a, <2>1, <2>2, JobHelpers DEF LockGone, TypeOK
<1>4. CASE RetryComesDue(s)
  BY <1>4, <1>a, RowHelpers DEF RetryComesDue, TypeOK
<1>5. CASE LeaseExpires(s) \/ LeaseExpiresEarly(s)
  <2>1. faults' \in 0 .. MaxFaults
    BY <1>5, FaultHelper DEF LeaseExpires, LeaseExpiresEarly, TypeOK
  <2>2. LeaseRunsOut(s)
    BY <1>5 DEF LeaseExpires, LeaseExpiresEarly
  <2>3. QED BY <1>a, <2>1, <2>2, RowHelpers DEF LeaseRunsOut, TypeOK
<1>6. QED BY <1>1, <1>2, <1>3, <1>4, <1>5, QueueNext(s) DEF QueueNext

\* Moving a run on keeps the type of run.
LEMMA GotoType ==
  ASSUME TypeOK, NEW r \in Runs, run[r] \in RunType,
         NEW pc \in Working \cup Ends \cup {"idle"}, Goto(r, pc)
  PROVE  run' \in [Runs -> RunType \cup {IdleRun}]
<1>1. [run[r] EXCEPT !.pc = pc] \in RunType
  BY DEF RunType
<1>2. QED BY <1>1 DEF Goto, TypeOK

\* The steps of executeJob keep the types.
LEMMA ExecType ==
  ASSUME TypeOK, NEW r \in Runs, ExecStep(r)
  PROVE  TypeOK'
<1>a. run[r].pc # "idle"
  BY DEF ExecStep, Load, Claim, Download, Score, Retry, FailForGood, TellFailed, PersistSilent,
         Persist, TellCompleted, RecordProgress, EnqueuePost, End, Ends
<1>b. run[r] \in RunType /\ run[r].sub \in Submissions
  BY <1>a, BusyRun
<1>c. /\ run[r].attempt \in Nat /\ run[r].score \in Scores /\ run[r].after \in Ends
      /\ run[r].pc \in Working \cup Ends \cup {"idle"}
  BY <1>b DEF RunType
<1>d. /\ row[run[r].sub] \in RowType /\ row[run[r].sub].attempts + 1 \in Nat
      /\ job[run[r].sub] \in JobType /\ sent[run[r].sub] \in SentType
  BY <1>b DEF TypeOK, RowType
<1> DEFINE s == run[r].sub
<1>1. CASE Load(r)
  <2>1. [run[r] EXCEPT !.pc = IF row[s].status = "COMPLETED" THEN "return" ELSE "claim",
                       !.attempt = row[s].attempts + 1] \in RunType
    BY <1>b, <1>d DEF RunType, Working, Ends
  <2>2. QED BY <1>1, <2>1 DEF Load, TypeOK
<1>2. CASE Claim(r)
  <2>1. run' \in [Runs -> RunType \cup {IdleRun}]
    BY <1>2, <1>b, GotoType DEF Claim, Working, Ends
  <2>2. Claimed(s, r) \in RowType
    BY <1>b, <1>d, RowHelpers
  <2>3. row' \in [Submissions -> RowType]
    BY <1>2, <1>b, <2>2 DEF Claim, TypeOK
  <2>4. QED BY <1>2, <2>1, <2>3 DEF Claim, TypeOK
<1>3. CASE Download(r)
  <2>1. run' \in [Runs -> RunType \cup {IdleRun}]
    BY <1>3, <1>b, GotoType DEF Download, Working, Ends
  <2>2. QED BY <1>3, <2>1 DEF Download, TypeOK
<1>4. CASE Score(r)
  <2>1. ASSUME NEW x \in Scores, run' = [run EXCEPT ![r].pc = "persist", ![r].score = x]
        PROVE  run' \in [Runs -> RunType \cup {IdleRun}]
    <3>1. [run[r] EXCEPT !.pc = "persist", !.score = x] \in RunType
      BY <1>b DEF RunType, Working
    <3>2. QED BY <2>1, <3>1 DEF TypeOK
  <2>2. run' \in [Runs -> RunType \cup {IdleRun}]
    BY <1>4, <1>b, <2>1, GotoType DEF Score, Working, Ends
  <2>3. QED BY <1>4, <2>2 DEF Score, TypeOK
<1>5. CASE Retry(r)
  <2>1. \A pc \in {"tellFailed", "throw"} :
          [run[r] EXCEPT !.pc = pc, !.after = "throw"] \in RunType
    BY <1>b DEF RunType, Working, Ends
  <2>2. run' \in [Runs -> RunType \cup {IdleRun}]
    BY <1>5, <1>b, <2>1, GotoType DEF Retry, Working, Ends, TypeOK
  <2>3. AfterTransientFailure(s, run[r].attempt) \in RowType
    BY <1>b, <1>c, <1>d, RowHelpers
  <2>4. row' \in [Submissions -> RowType]
    BY <1>5, <1>b, <2>3 DEF Retry, TypeOK
  <2>5. QED BY <1>5, <2>2, <2>4 DEF Retry, TypeOK
<1>6. CASE FailForGood(r)
  <2>1. [run[r] EXCEPT !.pc = "tellFailed", !.after = "unrecoverable"] \in RunType
    BY <1>b DEF RunType, Working, Ends
  <2>2. run' \in [Runs -> RunType \cup {IdleRun}]
    BY <1>6, <1>b, <2>1, GotoType DEF FailForGood, Working, Ends, TypeOK
  <2>3. row' \in [Submissions -> RowType]
    BY <1>6, <1>b, <1>d, RowHelpers DEF FailForGood, Errors, TypeOK
  <2>4. QED BY <1>6, <2>2, <2>3 DEF FailForGood, TypeOK
<1>7. CASE TellFailed(r)
  <2>1. run' \in [Runs -> RunType \cup {IdleRun}]
    BY <1>7, <1>b, <1>c, GotoType DEF TellFailed
  <2>2. sent' \in [Submissions -> SentType]
    BY <1>7, <1>b, <1>d, SentHelpers DEF TellFailed, TypeOK
  <2>3. QED BY <1>7, <2>1, <2>2 DEF TellFailed, TypeOK
<1>8. CASE PersistSilent(r)
  <2>1. run' \in [Runs -> RunType \cup {IdleRun}]
    BY <1>8, <1>b, GotoType DEF PersistSilent, Working, Ends
  <2>2. row' \in [Submissions -> RowType]
    BY <1>8, <1>b, <1>d, RowHelpers DEF PersistSilent, TypeOK
  <2>3. QED BY <1>8, <2>1, <2>2 DEF PersistSilent, TypeOK
<1>9. CASE Persist(r)
  <2>1. run' \in [Runs -> RunType \cup {IdleRun}]
    BY <1>9, <1>b, GotoType DEF Persist, Working, Ends
  <2>2. Scored(s, run[r].score) \in RowType
    BY <1>b, <1>c, <1>d, RowHelpers
  <2>3. row' \in [Submissions -> RowType]
    BY <1>9, <1>b, <2>2 DEF Persist, TypeOK
  <2>4. QED BY <1>9, <2>1, <2>3 DEF Persist, TypeOK
<1>10. CASE TellCompleted(r)
  <2>1. run' \in [Runs -> RunType \cup {IdleRun}]
    BY <1>10, <1>b, GotoType DEF TellCompleted, Working, Ends
  <2>2. sent' \in [Submissions -> SentType]
    BY <1>10, <1>b, <1>d, SentHelpers DEF TellCompleted, TypeOK
  <2>3. QED BY <1>10, <2>1, <2>2 DEF TellCompleted, TypeOK
<1>11. CASE RecordProgress(r)
  <2>1. run' \in [Runs -> RunType \cup {IdleRun}]
    BY <1>11, <1>b, GotoType DEF RecordProgress, Working
  <2>2. [sent[s] EXCEPT !.progress = IF run[r].score = "null" THEN @ ELSE @ + 1] \in SentType
    BY <1>d DEF SentType
  <2>3. sent' \in [Submissions -> SentType]
    BY <1>11, <1>b, <2>2 DEF RecordProgress, TypeOK
  <2>4. QED BY <1>11, <2>1, <2>3 DEF RecordProgress, TypeOK
<1>12. CASE EnqueuePost(r)
  <2>1. run' \in [Runs -> RunType \cup {IdleRun}]
    BY <1>12, <1>b, GotoType DEF EnqueuePost, Ends
  <2>2. post' \in [Submissions -> SUBSET PostKinds]
    BY <1>12, <1>b DEF EnqueuePost, PostKinds, TypeOK
  <2>3. QED BY <1>12, <2>1, <2>2 DEF EnqueuePost, TypeOK
<1>13. CASE End(r)
  <2>1. run' \in [Runs -> RunType \cup {IdleRun}]
    BY <1>13, <1>b, GotoType DEF End, TypeOK
  <2>2. job' \in [Submissions -> JobType]
    BY <1>13, <1>b, <1>d, JobHelpers DEF End, TypeOK
  <2>3. QED BY <1>13, <2>1, <2>2 DEF End, TypeOK
<1>14. QED
  BY <1>1, <1>2, <1>3, <1>4, <1>5, <1>6, <1>7, <1>8, <1>9, <1>10, <1>11, <1>12, <1>13,
     ExecStep(r) DEF ExecStep

\* The timeout handler, the faults of a run and its crash keep the types.
LEMMA TimeoutType ==
  ASSUME TypeOK, NEW r \in Runs, TimeoutStep(r) \/ RunFault(r)
  PROVE  TypeOK'
<1>1. CASE TimeoutStep(r)
  <2>a. run[r].timeout # "none"
    BY <1>1 DEF TimeoutStep, TimeoutRead, TimeoutRetry, TimeoutTellFailed, TimeoutThrow
  <2>b. run[r] \in RunType /\ run[r].sub \in Submissions
    BY <2>a, BusyRun
  <2>c. run[r].timeoutAttempt \in Nat
    BY <2>b DEF RunType
  <2>d. /\ row[run[r].sub] \in RowType /\ row[run[r].sub].attempts \in Nat
        /\ job[run[r].sub] \in JobType /\ sent[run[r].sub] \in SentType
    BY <2>b DEF TypeOK, RowType
  <2>e. \A t \in {"retry", "tellFailed", "throw", "done"} :
          [run[r] EXCEPT !.timeout = t] \in RunType
    BY <2>b DEF RunType
  <2> DEFINE s == run[r].sub
  <2>1. CASE TimeoutRead(r)
    <3>1. [run[r] EXCEPT !.timeout = "retry", !.timeoutAttempt = row[s].attempts] \in RunType
      BY <2>b, <2>d DEF RunType
    <3>2. QED BY <2>1, <3>1 DEF TimeoutRead, TypeOK
  <2>2. CASE TimeoutRetry(r)
    <3>1. run' \in [Runs -> RunType \cup {IdleRun}]
      BY <2>2, <2>e DEF TimeoutRetry, TypeOK
    <3>2. AfterTransientFailure(s, run[r].timeoutAttempt) \in RowType
      BY <2>b, <2>c, <2>d, RowHelpers
    <3>3. row' \in [Submissions -> RowType]
      BY <2>2, <2>b, <3>2 DEF TimeoutRetry, TypeOK
    <3>4. QED BY <2>2, <3>1, <3>3 DEF TimeoutRetry, TypeOK
  <2>3. CASE TimeoutTellFailed(r)
    <3>1. sent' \in [Submissions -> SentType]
      BY <2>3, <2>b, <2>d, SentHelpers DEF TimeoutTellFailed, TypeOK
    <3>2. QED BY <2>3, <2>e, <3>1 DEF TimeoutTellFailed, TypeOK
  <2>4. CASE TimeoutThrow(r)
    <3>1. JobSettled(r, s, "throw") \in JobType
      BY <2>b, <2>d, JobHelpers DEF Ends
    <3>2. QED BY <2>4, <2>b, <2>e, <3>1 DEF TimeoutThrow, TypeOK
  <2>5. QED BY <1>1, <2>1, <2>2, <2>3, <2>4 DEF TimeoutStep
<1>2. CASE RunFault(r)
  <2>a. faults' \in 0 .. MaxFaults
    BY <1>2, FaultHelper DEF RunFault, EnqueuePostFails, StatementFails, Timeout,
       TimeoutStatementFails, Crash, TypeOK
  <2>b. CASE Crash(r)
    BY <2>a, <2>b DEF Crash, TypeOK
  <2>c. CASE run[r].pc # "idle" \/ run[r].timeout # "none"
    <3>a. run[r] \in RunType /\ run[r].sub \in Submissions
      BY <2>c, BusyRun
    <3>1. CASE EnqueuePostFails(r)
      <4>1. run' \in [Runs -> RunType \cup {IdleRun}]
        BY <3>1, <3>a, GotoType DEF EnqueuePostFails, Ends
      <4>2. post' \in [Submissions -> SUBSET PostKinds]
        BY <3>1, <3>a DEF EnqueuePostFails, PostKinds, TypeOK
      <4>3. QED BY <3>1, <2>a, <4>1, <4>2 DEF EnqueuePostFails, TypeOK
    <3>2. CASE StatementFails(r)
      <4>1. run' \in [Runs -> RunType \cup {IdleRun}]
        BY <3>2, <3>a, GotoType DEF StatementFails, Ends, Working
      <4>2. QED BY <3>2, <2>a, <4>1 DEF StatementFails, TypeOK
    <3>3. CASE Timeout(r) \/ TimeoutStatementFails(r)
      <4>1. \A t \in {"read", "throw"} : [run[r] EXCEPT !.timeout = t] \in RunType
        BY <3>a DEF RunType
      <4>2. QED BY <3>3, <2>a, <4>1 DEF Timeout, TimeoutStatementFails, TypeOK
    <3>4. QED BY <1>2, <2>b, <3>1, <3>2, <3>3 DEF RunFault
  <2>d. QED
    BY <1>2, <2>b, <2>c DEF RunFault, EnqueuePostFails, StatementFails, Timeout,
       TimeoutStatementFails, Live, Working
<1>3. QED BY <1>1, <1>2

\* The scheduler's steps keep the types.
LEMMA CycleType ==
  ASSUME TypeOK, NEW c \in Schedulers,
         CycleStep(c) \/ CycleFails(c) \/ \E s \in Submissions : Snapshot(c, s)
  PROVE  TypeOK'
<1>1. ASSUME NEW s \in Submissions, Snapshot(c, s) PROVE TypeOK'
  <2>1. row[s].status \in {"PENDING", "PROCESSING"} /\ row[s].attempts \in Nat
    BY <1>1 DEF Snapshot, Candidate, TypeOK, RowType
  <2>2. [pc |-> "inspect", sub |-> s, status |-> row[s].status, attempts |-> row[s].attempts]
          \in RecType
    BY <2>1 DEF RecType
  <2>3. QED BY <1>1, <2>2 DEF Snapshot, TypeOK
<1>2. CASE CycleFails(c)
  BY <1>2, FaultHelper DEF CycleFails, TypeOK
<1>3. CASE CycleStep(c)
  <2>a. rec[c] # IdleRec
    BY <1>3 DEF CycleStep, Inspect, Remove, Reset, Enqueue, FailExhausted, IdleRec
  <2>b. rec[c] \in RecType /\ rec[c].sub \in Submissions
    BY <2>a DEF TypeOK, RecType
  <2>c. /\ row[rec[c].sub] \in RowType
        /\ job[rec[c].sub] \in JobType
    BY <2>b DEF TypeOK
  <2>d. \A pc \in {"remove", "reset", "enqueue", "fail"} : [rec[c] EXCEPT !.pc = pc] \in RecType
    BY <2>b DEF RecType
  <2>1. CASE Inspect(c)
    BY <2>1, <2>d DEF Inspect, Remedy, TypeOK
  <2>2. CASE Remove(c)
    <3>1. NoJob \in JobType
      BY DEF NoJob, JobType
    <3>2. QED BY <2>2, <2>d, <3>1 DEF Remove, TypeOK
  <2>3. CASE Reset(c)
    <3>1. row' \in [Submissions -> RowType]
      BY <2>3, <2>b, <2>c, RowHelpers DEF Reset, TypeOK
    <3>2. QED BY <2>3, <2>d, <3>1 DEF Reset, TypeOK
  <2>4. CASE Enqueue(c)
    BY <2>4, <2>b, <2>c, JobHelpers DEF Enqueue, TypeOK
  <2>5. CASE FailExhausted(c)
    <3>1. row' \in [Submissions -> RowType]
      BY <2>5, <2>b, <2>c, RowHelpers DEF FailExhausted, TypeOK
    <3>2. QED BY <2>5, <3>1 DEF FailExhausted, TypeOK
  <2>6. QED BY <1>3, <2>1, <2>2, <2>3, <2>4, <2>5 DEF CycleStep
<1>4. QED BY <1>1, <1>2, <1>3

\* Every step keeps the types.
LEMMA NextType == TypeOK /\ [Next]_vars => TypeOK'
<1> SUFFICES ASSUME TypeOK, [Next]_vars PROVE TypeOK'
  OBVIOUS
<1>1. ASSUME NEW s \in Submissions, EnqueueMissingPost(s) PROVE TypeOK'
  BY <1>1 DEF EnqueueMissingPost, PostKinds, TypeOK
<1>2. CASE UNCHANGED vars
  BY <1>2 DEF vars, TypeOK
<1>3. QED
  BY <1>1, <1>2, ApiType, QueueType, ExecType, TimeoutType, CycleType DEF Next, Done

\* Rows, jobs, runs and cycles always have the shape the code gives them.
THEOREM TypeCorrect == Spec => []TypeOK
  BY InitType, NextType, PTL DEF Spec

-----------------------------------------------------------------------------
(* One live run per submission.                                              *)

\* A live run holds the lock of its job: the inductive form of OneLiveRun.
LockInv ==
  \A r \in Runs : Live(r) =>
    job[run[r].sub].state = "active" /\ job[run[r].sub].holder = r

\* A live run works on a submission.
LEMMA LiveRun ==
  ASSUME TypeOK, NEW q \in Runs, Live(q)
  PROVE  run[q] \in RunType /\ run[q].sub \in Submissions
BY BusyRun DEF Live, Working

\* A run's step changes no other run, and leaves its own submission alone.
LEMMA RunStepFrame ==
  ASSUME TypeOK, NEW r \in Runs, ExecStep(r) \/ TimeoutStep(r) \/ RunFault(r)
  PROVE  /\ \A q \in Runs \ {r} : run'[q] = run[q]
         /\ Live(r)' => Live(r) /\ run'[r].sub = run[r].sub
<1>1. CASE Crash(r) \/ End(r) \/ TimeoutThrow(r)
  <2>1. \A q \in Runs \ {r} : run'[q] = run[q]
    BY <1>1 DEF Crash, End, TimeoutThrow, Goto, TypeOK
  <2>2. CASE Crash(r)
    BY <2>1, <2>2 DEF Crash, Live, IdleRun, Working, TypeOK
  <2>3. CASE End(r)
    <3>1. run[r] \in RunType
      BY <2>3, BusyRun DEF End, Ends
    <3>2. run'[r].pc = "idle"
      BY <2>3, <3>1 DEF End, Goto, RunType, IdleRun, TypeOK
    <3>3. QED BY <2>1, <3>2 DEF Live, Working
  <2>4. CASE TimeoutThrow(r)
    <3>1. run[r] \in RunType
      BY <2>4, BusyRun DEF TimeoutThrow
    <3>2. run'[r].pc = "idle" \/ run'[r].timeout # "none"
      BY <2>4, <3>1 DEF TimeoutThrow, RunType, IdleRun, TypeOK
    <3>3. QED BY <2>1, <3>2 DEF Live, TimedOut, Working
  <2>5. QED BY <1>1, <2>2, <2>3, <2>4
<1>2. CASE \/ TimeoutRead(r) \/ TimeoutRetry(r) \/ TimeoutTellFailed(r)
           \/ TimeoutStatementFails(r) \/ Timeout(r)
  <2>1. run[r] \in RunType
    BY <1>2, BusyRun, LiveRun DEF TimeoutRead, TimeoutRetry, TimeoutTellFailed,
       TimeoutStatementFails, Timeout
  <2>2. run'[r].timeout # "none" /\ \A q \in Runs \ {r} : run'[q] = run[q]
    BY <1>2, <2>1 DEF TimeoutRead, TimeoutRetry, TimeoutTellFailed, TimeoutStatementFails,
       Timeout, RunType, TypeOK
  <2>3. QED BY <2>2 DEF Live, TimedOut
<1>3. CASE (ExecStep(r) /\ ~End(r)) \/ EnqueuePostFails(r) \/ StatementFails(r)
  <2>1. run[r].pc \in Working
    BY <1>3 DEF ExecStep, Load, Claim, Download, Score, Retry, FailForGood, TellFailed,
       PersistSilent, Persist, TellCompleted, RecordProgress, EnqueuePost, EnqueuePostFails,
       StatementFails, Working
  <2>2. run[r] \in RunType
    BY <2>1, BusyRun DEF Working
  <2>a. run \in [Runs -> RunType \cup {IdleRun}]
    BY DEF TypeOK
  <2>b. ASSUME NEW pc, NEW attempt, NEW score, NEW after,
               \/ Goto(r, pc)
               \/ run' = [run EXCEPT ![r].pc = pc, ![r].attempt = attempt]
               \/ run' = [run EXCEPT ![r].pc = pc, ![r].score = score]
               \/ run' = [run EXCEPT ![r].pc = pc, ![r].after = after]
        PROVE  /\ run'[r].sub = run[r].sub /\ run'[r].timeout = run[r].timeout
               /\ \A q \in Runs \ {r} : run'[q] = run[q]
    BY <2>2, <2>a, <2>b DEF Goto, RunType
  <2>c. \E pc, attempt, score, after :
               \/ Goto(r, pc)
               \/ run' = [run EXCEPT ![r].pc = pc, ![r].attempt = attempt]
               \/ run' = [run EXCEPT ![r].pc = pc, ![r].score = score]
               \/ run' = [run EXCEPT ![r].pc = pc, ![r].after = after]
    <3>1. CASE Load(r) \/ Score(r)
      BY <3>1 DEF Load, Score
    <3>2. CASE Retry(r) \/ FailForGood(r)
      BY <3>2 DEF Retry, FailForGood
    <3>3. CASE \/ Claim(r) \/ Download(r) \/ TellFailed(r) \/ PersistSilent(r) \/ Persist(r)
               \/ TellCompleted(r) \/ RecordProgress(r) \/ EnqueuePost(r)
               \/ EnqueuePostFails(r) \/ StatementFails(r)
      BY <3>3 DEF Claim, Download, TellFailed, PersistSilent, Persist, TellCompleted,
         RecordProgress, EnqueuePost, EnqueuePostFails, StatementFails
    <3>4. QED BY <1>3, <3>1, <3>2, <3>3 DEF ExecStep
  <2>3. /\ run'[r].sub = run[r].sub /\ run'[r].timeout = run[r].timeout
        /\ \A q \in Runs \ {r} : run'[q] = run[q]
    BY <2>b, <2>c
  <2>4. QED BY <2>1, <2>3 DEF Live, TimedOut
<1>4. QED BY <1>1, <1>2, <1>3 DEF ExecStep, TimeoutStep, RunFault

\* A run's own steps leave its lock alone until the run is no longer live.
LEMMA RunKeepsLock ==
  ASSUME TypeOK, LockInv, NEW r \in Runs, ExecStep(r) \/ TimeoutStep(r) \/ RunFault(r)
  PROVE  LockInv'
<1> SUFFICES ASSUME NEW q \in Runs, Live(q)'
             PROVE  job'[run'[q].sub].state = "active" /\ job'[run'[q].sub].holder = q
  BY DEF LockInv
<1>1. Live(q) /\ run'[q].sub = run[q].sub
  BY RunStepFrame DEF Live, TimedOut
<1>2. run[q].sub \in Submissions
  BY <1>1, LiveRun
<1>3. CASE UNCHANGED job
  BY <1>1, <1>3 DEF LockInv
<1>4. CASE End(r) \/ TimeoutThrow(r)
  <2>1. q # r
    BY <1>1, <1>4 DEF End, TimeoutThrow, Live, TimedOut, Working, Ends
  <2>2. job[run[q].sub].holder = q
    BY <1>1 DEF LockInv
  <2>3. job'[run[q].sub] = job[run[q].sub]
    BY <1>2, <1>4, <2>1, <2>2 DEF End, TimeoutThrow, JobSettled, TypeOK
  <2>4. QED BY <1>1, <2>3 DEF LockInv
<1>5. QED
  BY <1>3, <1>4 DEF ExecStep, TimeoutStep, RunFault, Load, Claim, Download, Score, Retry, FailForGood,
     TellFailed, PersistSilent, Persist, TellCompleted, RecordProgress, EnqueuePost,
     TimeoutRead, TimeoutRetry, TimeoutTellFailed, EnqueuePostFails,
     StatementFails, Timeout, TimeoutStatementFails, Crash

\* Nobody else takes the lock of a live run, as long as no step is slow.
LEMMA OthersKeepLock ==
  ASSUME TypeOK, LockInv, ~Slow, NEW s \in Submissions,
         ApiNext(s) \/ QueueNext(s)
  PROVE  LockInv'
<1> SUFFICES ASSUME NEW q \in Runs, Live(q)'
             PROVE  job'[run'[q].sub].state = "active" /\ job'[run'[q].sub].holder = q
  BY DEF LockInv
<1>1. CASE ApiNext(s)
  <2>1. run' = run
    BY <1>1 DEF ApiNext, Submit, SubmitEnqueue, SubmitEnqueueFails
  <2>2. Live(q) BY <2>1 DEF Live, TimedOut
  <2>3. run[q].sub \in Submissions BY <2>2, LiveRun
  <2>4. job[run[q].sub].state = "active" BY <2>2 DEF LockInv
  <2>5. job'[run[q].sub] = job[run[q].sub]
    BY <1>1, <2>3, <2>4 DEF ApiNext, Submit, SubmitEnqueue, SubmitEnqueueFails, Added, TypeOK
  <2>6. QED BY <2>1, <2>2, <2>5 DEF LockInv
<1>2. ASSUME NEW r \in Runs, TakeJob(r, s) PROVE job'[run'[q].sub].state = "active" /\ job'[run'[q].sub].holder = q
  <2>1. CASE q = r
    <3>1. run'[q].sub = s
      BY <1>2, <2>1 DEF TakeJob, IdleRun, TypeOK
    <3>2. QED BY <1>2, <2>1, <3>1 DEF TakeJob, TypeOK, JobType
  <2>2. CASE q # r
    <3>1. run'[q] = run[q]
      BY <1>2, <2>2 DEF TakeJob, TypeOK
    <3>2. Live(q)
      BY <3>1 DEF Live, TimedOut
    <3>3. run[q].sub # s
      BY <1>2, <3>2 DEF LockInv, TakeJob
    <3>4. run[q].sub \in Submissions
      BY <3>2, LiveRun
    <3>5. QED BY <1>2, <3>1, <3>2, <3>3, <3>4 DEF LockInv, TakeJob, TypeOK
  <2>3. QED BY <2>1, <2>2
<1>3. ASSUME run' = run, job' = job \/ (job[s].state # "active" /\ \A x \in Submissions \ {s} : job'[x] = job[x])
      PROVE  job'[run'[q].sub].state = "active" /\ job'[run'[q].sub].holder = q
  <2>1. Live(q) BY <1>3 DEF Live, TimedOut
  <2>2. run[q].sub \in Submissions BY <2>1, LiveRun
  <2>3. QED BY <1>3, <2>1, <2>2 DEF LockInv
<1>4. ASSUME NEW state \in {"waiting", "failed"}, Stalled(s, state)
      PROVE job'[run'[q].sub].state = "active" /\ job'[run'[q].sub].holder = q
  <2>1. run' = run BY <1>4 DEF Stalled, LockGone
  <2>2. Live(q) BY <2>1 DEF Live, TimedOut
  <2>3. Busy(q) BY <2>2 DEF Live, Busy, Working
  <2>4. run[q].sub # s BY <1>4, <2>2, <2>3 DEF LockInv, Stalled
  <2>5. run[q].sub \in Submissions BY <2>2, LiveRun
  <2>6. QED BY <1>4, <2>1, <2>2, <2>4, <2>5 DEF LockInv, Stalled, LockGone, TypeOK
<1>5. CASE BackoffElapses(s)
  BY <1>3, <1>5 DEF BackoffElapses, TypeOK
<1>6. CASE RetryComesDue(s) \/ LeaseExpires(s) \/ LeaseExpiresEarly(s)
  BY <1>3, <1>6 DEF RetryComesDue, LeaseExpires, LeaseExpiresEarly, LeaseRunsOut
<1>7. CASE QueueNext(s)
  BY <1>2, <1>4, <1>5, <1>6, <1>7 DEF QueueNext, LockLost
<1>8. QED BY <1>1, <1>7

\* The scheduler never removes a job that is being worked on.
LEMMA CycleKeepsLock ==
  ASSUME TypeOK, LockInv, NEW c \in Schedulers,
         CycleStep(c) \/ CycleFails(c) \/ \E s \in Submissions : Snapshot(c, s)
  PROVE  LockInv'
<1> SUFFICES ASSUME NEW q \in Runs, Live(q)'
             PROVE  job'[run'[q].sub].state = "active" /\ job'[run'[q].sub].holder = q
  BY DEF LockInv
<1>1. run' = run
  BY DEF CycleStep, CycleFails, Snapshot, Inspect, Remove, Reset, Enqueue, FailExhausted
<1>2. Live(q) BY <1>1 DEF Live, TimedOut
<1>3. job[run[q].sub].state = "active" BY <1>2 DEF LockInv
<1>4. run[q].sub \in Submissions BY <1>2, LiveRun
<1>5. job'[run[q].sub] = job[run[q].sub]
  BY <1>3, <1>4 DEF CycleStep, CycleFails, Snapshot, Inspect, Remove, Reset, Enqueue, FailExhausted,
     Added, TypeOK
<1>6. QED BY <1>1, <1>2, <1>5 DEF LockInv

\* As long as no step outlasts its time limit, the queue never has two live
\* runs on one submission, whatever crashes, times out or is repaired.
THEOREM NoDuplicateRuns == ~Slow => (Spec => []OneLiveRun)
<1> SUFFICES ASSUME ~Slow PROVE Spec => []OneLiveRun
  OBVIOUS
<1>1. Init => LockInv
  BY DEF Init, LockInv, Live, IdleRun, Working
<1>2. TypeOK /\ LockInv /\ [Next]_vars => LockInv'
  <2> SUFFICES ASSUME TypeOK, LockInv, [Next]_vars PROVE LockInv'
    OBVIOUS
  <2>1. CASE UNCHANGED vars \/ \E s \in Submissions : EnqueueMissingPost(s)
    BY <2>1 DEF vars, EnqueueMissingPost, LockInv, Live, TimedOut
  <2>2. QED
    BY <2>1, RunKeepsLock, OthersKeepLock, CycleKeepsLock DEF Next, Done
<1>3. LockInv => OneLiveRun
  BY DEF LockInv, OneLiveRun
<1>4. QED BY <1>1, <1>2, <1>3, TypeCorrect, PTL DEF Spec

-----------------------------------------------------------------------------
(* What a settled row can suffer.                                            *)

\* A write of the scheduler that gives a row up as RETRY_EXHAUSTED.
GivenUp(s) ==
  \E c \in Schedulers : rec[c].pc = "fail" /\ rec[c].sub = s /\ row'[s] = Exhausted(s)

\* The legitimate moves of a row: accepted, claimed, written under its lease,
\* or waiting for its retry to come due.
Moves(s) ==
  \/ row[s].status = "NONE" /\ row'[s].status = "PENDING" /\ row'[s].attempts = row[s].attempts
  \/ /\ row[s].status \in {"PENDING", "PROCESSING"} /\ row'[s].status = "PROCESSING"
     /\ row'[s].attempts = row[s].attempts + 1
  \/ /\ row[s].status = "PROCESSING" /\ row'[s].status # "NONE"
     /\ row'[s].attempts = row[s].attempts
  \/ row[s].status = "PENDING" /\ row'[s].status = "PENDING" /\ row'[s].attempts = row[s].attempts

\* Writes keep the attempt counter, except the claim.
LEMMA RowHelperFields ==
  ASSUME NEW s \in Submissions, row[s] \in RowType
  PROVE  /\ \A a : Accepted(s, a).status = "PENDING" /\ Accepted(s, a).attempts = row[s].attempts
         /\ \A r : Claimed(s, r).status = "PROCESSING" /\ Claimed(s, r).attempts = row[s].attempts + 1
         /\ \A e : FailedWith(s, e).status = "FAILED" /\ FailedWith(s, e).attempts = row[s].attempts
         /\ \A n : LET w == AfterTransientFailure(s, n) IN
                    w.status \in {"PENDING", "FAILED"} /\ w.attempts = row[s].attempts
         /\ Silent(s).status = "COMPLETED" /\ Silent(s).attempts = row[s].attempts
         /\ \A x : Scored(s, x).status = "COMPLETED" /\ Scored(s, x).attempts = row[s].attempts
         /\ Recovered(s).status = "PENDING" /\ Recovered(s).attempts = row[s].attempts
BY DEF RowType, Accepted, Claimed, FailedWith, AfterTransientFailure, ToRetry, Silent, Scored,
       Recovered

\* Every step leaves a row alone, makes a legitimate move or gives it up.
LEMMA RowMoves ==
  ASSUME TypeOK, Next, NEW s \in Submissions
  PROVE  row'[s] = row[s] \/ Moves(s) \/ GivenUp(s)
<1>a. row \in [Submissions -> RowType] /\ row[s] \in RowType
  BY DEF TypeOK
<1>1. ASSUME NEW x \in Submissions, ApiNext(x) PROVE row'[s] = row[s] \/ Moves(s)
  BY <1>1, <1>a, RowHelperFields
     DEF ApiNext, Submit, SubmitEnqueue, SubmitEnqueueFails, Moves
<1>2. ASSUME NEW x \in Submissions, QueueNext(x) PROVE row'[s] = row[s] \/ Moves(s)
  <2>1. CASE RetryComesDue(x)
    BY <2>1, <1>a DEF RetryComesDue, Moves, RowType
  <2>2. CASE LeaseRunsOut(x)
    BY <2>2, <1>a DEF LeaseRunsOut, Moves, RowType
  <2>3. QED
    BY <1>2, <2>1, <2>2 DEF QueueNext, TakeJob, BackoffElapses, Stalled, LockLost, LockGone,
       LeaseExpires, LeaseExpiresEarly
<1>3. ASSUME NEW r \in Runs, ExecStep(r) PROVE row'[s] = row[s] \/ Moves(s)
  <2>1. CASE Claim(r)
    BY <2>1, <1>a, RowHelperFields DEF Claim, Claimable, Moves
  <2>2. CASE Retry(r)
    BY <2>2, <1>a, RowHelperFields DEF Retry, Holds, Moves
  <2>3. CASE FailForGood(r)
    BY <2>3, <1>a, RowHelperFields DEF FailForGood, Holds, Moves
  <2>4. CASE PersistSilent(r)
    BY <2>4, <1>a, RowHelperFields DEF PersistSilent, Holds, Moves
  <2>5. CASE Persist(r)
    BY <2>5, <1>a, RowHelperFields DEF Persist, Holds, Moves
  <2>6. QED
    BY <1>3, <2>1, <2>2, <2>3, <2>4, <2>5 DEF ExecStep, Load, Download, Score, TellFailed,
       TellCompleted, RecordProgress, EnqueuePost, End
<1>4. ASSUME NEW r \in Runs, TimeoutStep(r) \/ RunFault(r) PROVE row'[s] = row[s] \/ Moves(s)
  <2>1. CASE TimeoutRetry(r)
    BY <2>1, <1>a, RowHelperFields DEF TimeoutRetry, Holds, Moves
  <2>2. QED
    BY <1>4, <2>1 DEF TimeoutStep, TimeoutRead, TimeoutTellFailed, TimeoutThrow, RunFault,
       EnqueuePostFails, StatementFails, Timeout, TimeoutStatementFails, Crash
<1>5. ASSUME NEW c \in Schedulers, CycleStep(c) PROVE row'[s] = row[s] \/ Moves(s) \/ GivenUp(s)
  <2>1. CASE Reset(c)
    BY <2>1, <1>a, RowHelperFields DEF Reset, Moves
  <2>2. CASE FailExhausted(c)
    BY <2>2, <1>a DEF FailExhausted, GivenUp
  <2>3. QED BY <1>5, <2>1, <2>2 DEF CycleStep, Inspect, Remove, Enqueue
<1>6. ASSUME NEW c \in Schedulers, CycleFails(c) \/ \E x \in Submissions : Snapshot(c, x)
      PROVE  row'[s] = row[s]
  BY <1>6 DEF CycleFails, Snapshot
<1>7. ASSUME NEW x \in Submissions, EnqueueMissingPost(x) PROVE row'[s] = row[s]
  BY <1>7 DEF EnqueueMissingPost
<1>8. CASE Done
  BY <1>8 DEF Done, vars
<1>9. QED BY <1>1, <1>2, <1>3, <1>4, <1>5, <1>6, <1>7, <1>8 DEF Next

\* What a scheduler's snapshot still tells of its row: it was PENDING or
\* PROCESSING, and if it was PENDING and is now claimed or COMPLETED, it was
\* claimed since. A cycle gives up only what its snapshot saw exhausted.
SnapshotOf(c) ==
  LET s == rec[c].sub IN
    /\ row[s].status # "NONE"
    /\ rec[c].attempts <= row[s].attempts
    /\ rec[c].status = "PENDING" /\ row[s].status \in {"PROCESSING", "COMPLETED"} =>
         rec[c].attempts < row[s].attempts
    /\ rec[c].pc = "fail" => rec[c].status = "PENDING" /\ rec[c].attempts >= MaxAttempts

SnapshotInv == \A c \in Schedulers : rec[c].pc # "idle" => SnapshotOf(c)

\* Rows move on without making a snapshot a lie.
LEMMA SnapshotAges ==
  ASSUME TypeOK, TypeOK', SnapshotInv, NEW c \in Schedulers, rec[c].pc # "idle",
         rec'[c].pc # "idle", rec'[c].sub = rec[c].sub, rec'[c].status = rec[c].status,
         rec'[c].attempts = rec[c].attempts,
         rec'[c].pc = "fail" => rec[c].status = "PENDING" /\ rec[c].attempts >= MaxAttempts,
         LET s == rec[c].sub IN row'[s] = row[s] \/ Moves(s) \/ GivenUp(s)
  PROVE  SnapshotOf(c)'
<1> DEFINE s == rec[c].sub
<1>1. rec[c] # IdleRec
  BY DEF IdleRec
<1>2. rec[c].attempts \in Nat /\ s \in Submissions
  BY <1>1 DEF TypeOK, RecType
<1>3. row[s] \in RowType /\ row'[s] \in RowType
  BY <1>2 DEF TypeOK
<1>4. row[s].attempts \in Nat
  BY <1>3 DEF RowType
<1>5. SnapshotOf(c)
  BY DEF SnapshotInv
<1>6. CASE row'[s] = row[s]
  BY <1>5, <1>6 DEF SnapshotOf
<1>7. CASE GivenUp(s)
  <2>1. row'[s].status = "FAILED" /\ row'[s].attempts = row[s].attempts
    BY <1>3, <1>7 DEF GivenUp, Exhausted, RowType
  <2>2. QED BY <1>5, <2>1 DEF SnapshotOf
<1>8. CASE Moves(s)
  BY <1>2, <1>4, <1>5, <1>8 DEF SnapshotOf, Moves
<1>9. QED BY <1>6, <1>7, <1>8

\* Every step keeps every snapshot honest.
LEMMA SnapshotStep == TypeOK /\ TypeOK' /\ SnapshotInv /\ [Next]_vars => SnapshotInv'
<1> SUFFICES ASSUME TypeOK, TypeOK', SnapshotInv, [Next]_vars,
                    NEW c \in Schedulers, rec'[c].pc # "idle"
             PROVE  SnapshotOf(c)'
  BY DEF SnapshotInv
<1>1. CASE UNCHANGED vars
  BY <1>1 DEF vars, SnapshotInv, SnapshotOf
<1>2. CASE Next
  <2>1. ASSUME NEW s \in Submissions, Snapshot(c, s) PROVE SnapshotOf(c)'
    <3>1. /\ rec'[c] = [pc |-> "inspect", sub |-> s, status |-> row[s].status,
                        attempts |-> row[s].attempts]
          /\ row' = row
      BY <2>1 DEF Snapshot, TypeOK
    <3>2. row[s].status \in {"PENDING", "PROCESSING"}
      BY <2>1 DEF Snapshot, Candidate
    <3>3. row[s].attempts \in Nat
      BY DEF TypeOK, RowType
    <3>4. row[s].status = "PENDING" => row[s].status \notin {"PROCESSING", "COMPLETED"}
      OBVIOUS
    <3>5. QED BY <3>1, <3>2, <3>3, <3>4 DEF SnapshotOf
  <2>2. CASE rec'[c] = rec[c]
    <3>1. rec[c] # IdleRec /\ rec[c].pc # "idle"
      BY <2>2 DEF IdleRec
    <3>2. rec[c].sub \in Submissions
      BY <3>1 DEF TypeOK, RecType
    <3>3. SnapshotOf(c)
      BY <3>1 DEF SnapshotInv
    <3>4. QED BY <1>2, <2>2, <3>1, <3>2, <3>3, RowMoves, SnapshotAges DEF SnapshotOf
  <2>3. CASE CycleStep(c)
    <3>1. rec[c] # IdleRec /\ rec[c].pc # "idle"
      BY <2>3 DEF CycleStep, Inspect, Remove, Reset, Enqueue, FailExhausted, IdleRec
    <3>2. rec[c] \in RecType
      BY <3>1 DEF TypeOK
    <3>3. rec[c].sub \in Submissions
      BY <3>2 DEF RecType
    <3>4. /\ rec'[c].sub = rec[c].sub /\ rec'[c].status = rec[c].status
          /\ rec'[c].attempts = rec[c].attempts
          /\ rec'[c].pc = "fail" => rec[c].status # "PROCESSING" /\ ~(rec[c].attempts < MaxAttempts)
      <4>1. rec'[c].pc # IdleRec.pc
        BY DEF IdleRec
      <4>2. CASE Inspect(c)
        BY <2>3, <3>2, <4>1, <4>2 DEF Inspect, Remedy, RecType, TypeOK
      <4>3. CASE Remove(c) \/ Reset(c)
        BY <3>2, <4>1, <4>3 DEF Remove, Reset, RecType, TypeOK
      <4>4. CASE Enqueue(c) \/ FailExhausted(c)
        BY <4>1, <4>4 DEF Enqueue, FailExhausted, TypeOK
      <4>5. QED BY <2>3, <4>2, <4>3, <4>4 DEF CycleStep
    <3>5. rec[c].status \in {"PENDING", "PROCESSING"}
      BY <3>2 DEF RecType
    <3>6. rec[c].attempts >= MaxAttempts \/ rec[c].attempts < MaxAttempts
      BY <3>2, AttemptsAssumption DEF RecType
    <3>7. QED BY <1>2, <3>1, <3>3, <3>4, <3>5, <3>6, RowMoves, SnapshotAges
  <2>4. CASE CycleFails(c)
    <3>1. rec'[c].pc = IdleRec.pc
      BY <2>4 DEF CycleFails, TypeOK
    <3>2. QED BY <3>1 DEF IdleRec
  <2>5. ASSUME NEW d \in Schedulers \ {c},
               CycleStep(d) \/ CycleFails(d) \/ \E s \in Submissions : Snapshot(d, s)
        PROVE  rec'[c] = rec[c]
    BY <2>5 DEF CycleStep, CycleFails, Snapshot, Inspect, Remove, Reset, Enqueue, FailExhausted,
       TypeOK
  <2>6. ASSUME NEW s \in Submissions, ApiNext(s) \/ QueueNext(s) \/ EnqueueMissingPost(s)
        PROVE  rec' = rec
    BY <2>6 DEF ApiNext, Submit, SubmitEnqueue, SubmitEnqueueFails, QueueNext, TakeJob,
       BackoffElapses, Stalled, LockLost, LockGone, RetryComesDue, LeaseExpires,
       LeaseExpiresEarly, LeaseRunsOut, EnqueueMissingPost
  <2>7. ASSUME NEW r \in Runs, ExecStep(r) \/ TimeoutStep(r) \/ RunFault(r)
        PROVE  rec' = rec
    <3>1. CASE ExecStep(r)
      BY <3>1 DEF ExecStep, Load, Claim, Download, Score, Retry, FailForGood, TellFailed,
         PersistSilent, Persist, TellCompleted, RecordProgress, EnqueuePost, End
    <3>2. CASE TimeoutStep(r)
      BY <3>2 DEF TimeoutStep, TimeoutRead, TimeoutRetry, TimeoutTellFailed, TimeoutThrow
    <3>3. CASE RunFault(r)
      BY <3>3 DEF RunFault, EnqueuePostFails, StatementFails, Timeout, TimeoutStatementFails,
         Crash
    <3>4. QED BY <2>7, <3>1, <3>2, <3>3
  <2>8. CASE Done
    BY <2>2, <2>8 DEF Done, vars
  <2>9. QED BY <1>2, <2>1, <2>2, <2>3, <2>4, <2>5, <2>6, <2>7, <2>8 DEF Next
<1>3. QED BY <1>1, <1>2

\* A step that changes a settled row gives it up, and only beyond MAX_ATTEMPTS.
LEMMA OverrideStep ==
  ASSUME TypeOK, SnapshotInv, Next, NEW s \in Submissions, Settled(s),
         row'[s].status # row[s].status \/ row'[s].score # row[s].score
  PROVE  row[s].attempts > MaxAttempts /\ row'[s] = Exhausted(s)
<1>a. row[s] \in RowType
  BY DEF TypeOK
<1>1. row[s].attempts \in Nat /\ MaxAttempts \in Nat
  BY <1>a, AttemptsAssumption DEF RowType
<1>2. ~Moves(s)
  BY DEF Settled, Moves
<1>3. GivenUp(s)
  BY <1>2, RowMoves
<1>4. PICK c \in Schedulers : rec[c].pc = "fail" /\ rec[c].sub = s /\ row'[s] = Exhausted(s)
  BY <1>3 DEF GivenUp
<1>5. rec[c] \in RecType /\ rec[c].attempts \in Nat
  BY <1>4 DEF TypeOK, RecType, IdleRec
<1>6. SnapshotOf(c)
  BY <1>4 DEF SnapshotInv
<1>7. CASE row[s].status = "FAILED"
  <2>1. Exhausted(s).status = "FAILED" /\ Exhausted(s).score = row[s].score
    BY <1>a DEF Exhausted, RowType
  <2>2. QED BY <1>4, <1>7, <2>1
<1>8. CASE row[s].status = "COMPLETED"
  BY <1>1, <1>4, <1>5, <1>6, <1>8 DEF SnapshotOf
<1>9. QED BY <1>7, <1>8 DEF Settled

\* No step of a run, of the queue or of the API ever changes a settled row; the
\* scheduler does only when that row has been claimed beyond MAX_ATTEMPTS. This
\* holds however slow the steps are and whatever fails.
THEOREM OnlyExhaustion == Spec => OnlyExhaustionOverrides
<1>1. Init => SnapshotInv
  BY DEF Init, SnapshotInv, IdleRec
<1>2. TypeOK /\ SnapshotInv /\ [Next]_vars =>
        [\A s \in Submissions :
           Settled(s) /\ (row'[s].status # row[s].status \/ row'[s].score # row[s].score) =>
             /\ row[s].attempts > MaxAttempts
             /\ row'[s] = Exhausted(s)]_vars
  BY OverrideStep
<1>3. QED
  BY <1>1, <1>2, SnapshotStep, TypeCorrect, PTL DEF Spec, OnlyExhaustionOverrides

-----------------------------------------------------------------------------
(* What a step of a run writes to the run.                                   *)

\* Only r moves, and it works on the submission it worked on.
OnlyRun(r) ==
  run'[r].sub = run[r].sub /\ \A q \in Runs \ {r} : run'[q] = run[q]

LEMMA RunForms ==
  ASSUME TypeOK, NEW r \in Runs, run[r] \in RunType
  PROVE  /\ \A v : Goto(r, v) =>
              /\ run'[r].pc = v /\ run'[r].timeout = run[r].timeout
              /\ run'[r].attempt = run[r].attempt /\ OnlyRun(r)
         /\ \A v, w : (\/ run' = [run EXCEPT ![r].pc = v, ![r].score = w]
                       \/ run' = [run EXCEPT ![r].pc = v, ![r].after = w]) =>
              /\ run'[r].pc = v /\ run'[r].timeout = run[r].timeout
              /\ run'[r].attempt = run[r].attempt /\ OnlyRun(r)
         /\ \A v, w : run' = [run EXCEPT ![r].pc = v, ![r].attempt = w] =>
              /\ run'[r].pc = v /\ run'[r].timeout = run[r].timeout
              /\ run'[r].attempt = w /\ OnlyRun(r)
         /\ \A v, w : (\/ run' = [run EXCEPT ![r].timeout = v]
                       \/ run' = [run EXCEPT ![r].timeout = v, ![r].timeoutAttempt = w]) =>
              /\ run'[r].pc = run[r].pc /\ run'[r].timeout = v
              /\ run'[r].attempt = run[r].attempt /\ OnlyRun(r)
<1>1. run \in [Runs -> RunType \cup {IdleRun}]
  BY DEF TypeOK
<1>2. ASSUME NEW v, Goto(r, v)
      PROVE  /\ run'[r].pc = v /\ run'[r].timeout = run[r].timeout
             /\ run'[r].attempt = run[r].attempt /\ OnlyRun(r)
  BY <1>1, <1>2 DEF Goto, RunType, OnlyRun
<1>3. ASSUME NEW v, NEW w,
             \/ run' = [run EXCEPT ![r].pc = v, ![r].score = w]
             \/ run' = [run EXCEPT ![r].pc = v, ![r].after = w]
      PROVE  /\ run'[r].pc = v /\ run'[r].timeout = run[r].timeout
             /\ run'[r].attempt = run[r].attempt /\ OnlyRun(r)
  BY <1>1, <1>3 DEF RunType, OnlyRun
<1>4. ASSUME NEW v, NEW w, run' = [run EXCEPT ![r].pc = v, ![r].attempt = w]
      PROVE  /\ run'[r].pc = v /\ run'[r].timeout = run[r].timeout
             /\ run'[r].attempt = w /\ OnlyRun(r)
  BY <1>1, <1>4 DEF RunType, OnlyRun
<1>5. ASSUME NEW v, NEW w,
             \/ run' = [run EXCEPT ![r].timeout = v]
             \/ run' = [run EXCEPT ![r].timeout = v, ![r].timeoutAttempt = w]
      PROVE  /\ run'[r].pc = run[r].pc /\ run'[r].timeout = v
             /\ run'[r].attempt = run[r].attempt /\ OnlyRun(r)
  BY <1>1, <1>5 DEF RunType, OnlyRun
<1> QED BY <1>2, <1>3, <1>4, <1>5

\* The states a run can go on to, as its step writes them.
GoesOn(r, pc, timeout) ==
  run'[r].pc = pc /\ run'[r].timeout = timeout /\ OnlyRun(r)

\* A settled row stays settled: it is overwritten by RETRY_EXHAUSTED at most.
LEMMA SettledStays ==
  ASSUME TypeOK, [Next]_vars, NEW s \in Submissions, Settled(s)
  PROVE  Settled(s)'
<1>1. CASE UNCHANGED vars
  BY <1>1 DEF vars, Settled
<1>2. CASE Next
  <2>1. GivenUp(s) => row'[s].status = "FAILED"
    BY DEF GivenUp, Exhausted, TypeOK, RowType
  <2> QED BY <1>2, <2>1, RowMoves DEF Settled, Moves
<1> QED BY <1>1, <1>2

-----------------------------------------------------------------------------
(* The learner is told once.                                                 *)

\* r is about to publish the outcome of its submission, or to count the attempt.
ToTell(r)  == run[r].pc \in {"tell", "tellFailed"} \/ run[r].timeout = "tellFailed"
ToCount(r) == run[r].pc = "progress"
OneToTell(r) == ~ (run[r].pc \in {"tell", "tellFailed"} /\ run[r].timeout = "tellFailed")

\* Who is about to tell found the row unsettled and settled it: it has been told
\* by nobody, and nobody else is about to. Who is about to count has told it.
TellInv ==
  \A r \in Runs :
    /\ OneToTell(r)
    /\ \A s \in Submissions : run[r].sub = s =>
         /\ ToTell(r) =>
              /\ Settled(s) /\ sent[s].completed + sent[s].failed = 0
              /\ \A q \in Runs \ {r} : run[q].sub = s => ~ ToTell(q)
         /\ ToCount(r) =>
              /\ sent[s].completed = 1 /\ sent[s].progress = 0
              /\ \A q \in Runs \ {r} : run[q].sub = s => ~ ToCount(q)

\* The effect of a run's step on what is told: none, ...
Quiet(r) ==
  /\ sent' = sent
  /\ ToTell(r)' => ToTell(r)
  /\ ToCount(r)' => ToCount(r)
  /\ OneToTell(r) => OneToTell(r)'
\* ... the row is settled under its lease, ...
Settles(r) ==
  /\ sent' = sent /\ Holds(r, run[r].sub) /\ row'[run[r].sub].status \in {"COMPLETED", "FAILED"}
  /\ ToCount(r)' => ToCount(r)
  /\ ~ ToTell(r) => OneToTell(r)'
\* ... its outcome is published, ...
Tells(r) ==
  /\ ToTell(r)
  /\ \/ sent' = [sent EXCEPT ![run[r].sub].failed = @ + 1] /\ (ToCount(r)' => ToCount(r))
     \/ sent' = [sent EXCEPT ![run[r].sub].completed = @ + 1]
  /\ OneToTell(r) => ~ ToTell(r)'
\* ... or the attempt is counted.
Counts(r) ==
  /\ ToCount(r) /\ ~ ToCount(r)'
  /\ \E n \in {0, 1} : sent' = [sent EXCEPT ![run[r].sub].progress = @ + n]
  /\ ToTell(r)' => ToTell(r)
  /\ OneToTell(r) => OneToTell(r)'

TellStep(r) ==
  /\ OnlyRun(r) \/ (run'[r] = IdleRun /\ \A q \in Runs \ {r} : run'[q] = run[q])
  /\ \/ Quiet(r)
     \/ run[r].sub \in Submissions /\ (Settles(r) \/ Tells(r) \/ Counts(r))

\* A run that takes a step works on a submission.
LEMMA SteppingRun ==
  ASSUME TypeOK, NEW r \in Runs, ExecStep(r) \/ TimeoutStep(r) \/ RunFault(r)
  PROVE  run[r] # IdleRun /\ run[r] \in RunType /\ run[r].sub \in Submissions
<1>1. run[r].pc # "idle" \/ run[r].timeout # "none" \/ run[r] # IdleRun
  <2>1. CASE ExecStep(r)
    BY <2>1 DEF ExecStep, Load, Claim, Download, Score, Retry, FailForGood, TellFailed,
       PersistSilent, Persist, TellCompleted, RecordProgress, EnqueuePost, End, Ends
  <2>2. CASE TimeoutStep(r)
    BY <2>2 DEF TimeoutStep, TimeoutRead, TimeoutRetry, TimeoutTellFailed, TimeoutThrow
  <2>3. CASE RunFault(r)
    BY <2>3 DEF RunFault, EnqueuePostFails, StatementFails, Timeout,
       TimeoutStatementFails, Crash, Live, Working
  <2> QED BY <2>1, <2>2, <2>3
<1>2. run[r] # IdleRun
  BY <1>1 DEF IdleRun
<1> QED BY <1>2 DEF TypeOK, RunType

\* Every step of a run does one of the four.
LEMMA RunTells ==
  ASSUME TypeOK, NEW r \in Runs, ExecStep(r) \/ TimeoutStep(r) \/ RunFault(r)
  PROVE  TellStep(r)
<1>a. run \in [Runs -> RunType \cup {IdleRun}] /\ row \in [Submissions -> RowType]
      /\ sent \in [Submissions -> SentType]
  BY DEF TypeOK
<1>i. ASSUME run' = [run EXCEPT ![r] = IdleRun], sent' = sent PROVE TellStep(r)
  <2>1. run'[r] = IdleRun /\ \A q \in Runs \ {r} : run'[q] = run[q]
    BY <1>a, <1>i
  <2> QED BY <1>i, <2>1 DEF TellStep, Quiet, ToTell, ToCount, OneToTell, IdleRun
<1>b. CASE Crash(r)
  BY <1>b, <1>i DEF Crash
<1>c. CASE ~ Crash(r)
  <2>a. run[r] \in RunType /\ run[r].sub \in Submissions
    BY SteppingRun
  <2> PICK s \in Submissions : s = run[r].sub
    BY <2>a
  <2>b. row[s] \in RowType /\ sent[s] \in SentType
    BY <1>a
  <2>g. ASSUME NEW v, Goto(r, v) PROVE GoesOn(r, v, run[r].timeout)
    BY <2>a, <2>g, RunForms DEF GoesOn
  <2>q. ASSUME NEW v, Goto(r, v), sent' = sent, v \notin {"tell", "tellFailed", "progress"}
        PROVE  TellStep(r)
    BY <2>g, <2>q DEF GoesOn, TellStep, Quiet, ToTell, ToCount, OneToTell
  <2>t. ASSUME NEW v, GoesOn(r, run[r].pc, v), sent' = sent, v # "tellFailed"
        PROVE  TellStep(r)
    BY <2>t DEF GoesOn, TellStep, Quiet, ToTell, ToCount, OneToTell
  <2>s. ASSUME NEW v, NEW timeout, GoesOn(r, v, timeout), sent' = sent,
               Holds(r, s), row'[s].status \in {"COMPLETED", "FAILED"},
               \/ timeout = run[r].timeout /\ v \in {"tell", "tellFailed"}
               \/ v = run[r].pc
        PROVE  TellStep(r)
    BY <2>a, <2>s DEF GoesOn, TellStep, Settles, ToTell, ToCount, OneToTell
  <2>1. CASE Load(r)
    <3>0. PICK v \in {"return", "claim"} :
            \E w : run' = [run EXCEPT ![r].pc = v, ![r].attempt = w]
      BY <2>1 DEF Load
    <3>1. PICK w : run' = [run EXCEPT ![r].pc = v, ![r].attempt = w]
      BY <3>0
    <3>2. GoesOn(r, v, run[r].timeout)
      BY <2>a, <3>1, RunForms DEF GoesOn
    <3>3. sent' = sent
      BY <2>1 DEF Load
    <3> QED BY <3>2, <3>3 DEF GoesOn, TellStep, Quiet, ToTell, ToCount, OneToTell
  <2>2. CASE Claim(r)
    <3>1. sent' = sent /\ \E v \in {"throw", "download", "return"} : Goto(r, v)
      BY <2>2 DEF Claim
    <3> QED BY <3>1, <2>q
  <2>d. CASE Download(r)
    <3>1. sent' = sent /\ \E v \in {"missing", "retry", "throw", "score", "silent", "invalid"} : Goto(r, v)
      BY <2>d DEF Download
    <3> QED BY <3>1, <2>q
  <2>e. CASE Score(r)
    <3>1. /\ sent' = sent
          /\ \/ \E v \in {"retry", "throw"} : Goto(r, v)
             \/ \E x : run' = [run EXCEPT ![r].pc = "persist", ![r].score = x]
      BY <2>e DEF Score
    <3>2. ASSUME NEW x, run' = [run EXCEPT ![r].pc = "persist", ![r].score = x]
          PROVE  GoesOn(r, "persist", run[r].timeout)
      BY <2>a, <3>2, RunForms DEF GoesOn
    <3>3. GoesOn(r, "persist", run[r].timeout) => TellStep(r)
      BY <3>1 DEF GoesOn, TellStep, Quiet, ToTell, ToCount, OneToTell
    <3> QED BY <3>1, <3>2, <3>3, <2>q
  <2>3. CASE Retry(r)
    <3>1. CASE Holds(r, s)
      <4>1. PICK v \in {"tellFailed", "throw"} :
              /\ run' = [run EXCEPT ![r].pc = v, ![r].after = "throw"]
              /\ v = "tellFailed" <=> run[r].attempt >= MaxAttempts
        BY <2>3, <3>1 DEF Retry
      <4>2. /\ row'[s] = AfterTransientFailure(s, run[r].attempt)
            /\ sent' = sent /\ run[r].pc = "retry"
        BY <1>a, <2>3, <3>1 DEF Retry
      <4>3. GoesOn(r, v, run[r].timeout)
        BY <2>a, <4>1, RunForms DEF GoesOn
      <4>4. v = "tellFailed" => row'[s].status \in {"COMPLETED", "FAILED"}
        BY <2>b, <4>1, <4>2, RowHelperFields DEF AfterTransientFailure
      <4>5. v = "throw" => TellStep(r)
        BY <4>2, <4>3 DEF GoesOn, TellStep, Quiet, ToTell, ToCount, OneToTell
      <4> QED BY <2>s, <3>1, <4>1, <4>2, <4>3, <4>4, <4>5
    <3>2. CASE ~ Holds(r, s)
      BY <2>3, <2>q, <3>2 DEF Retry
    <3> QED BY <3>1, <3>2
  <2>4. CASE FailForGood(r)
    <3>1. CASE Holds(r, s)
      <4>1. /\ run' = [run EXCEPT ![r].pc = "tellFailed", ![r].after = "unrecoverable"]
            /\ \E e : row'[s] = FailedWith(s, e)
            /\ sent' = sent
        BY <1>a, <2>4, <3>1 DEF FailForGood
      <4>2. row'[s].status = "FAILED"
        BY <2>b, <4>1, RowHelperFields
      <4>3. GoesOn(r, "tellFailed", run[r].timeout)
        BY <2>a, <4>1, RunForms DEF GoesOn
      <4> QED BY <2>s, <3>1, <4>1, <4>2, <4>3
    <3>2. CASE ~ Holds(r, s)
      BY <2>4, <2>q, <3>2 DEF FailForGood
    <3> QED BY <3>1, <3>2
  <2>5. CASE PersistSilent(r) \/ Persist(r)
    <3>1. CASE Holds(r, s)
      <4>1. /\ Goto(r, "tell") /\ sent' = sent
            /\ \/ row'[s] = Silent(s)
               \/ \E x : row'[s] = Scored(s, x)
        BY <1>a, <2>5, <3>1 DEF PersistSilent, Persist
      <4>2. row'[s].status = "COMPLETED"
        BY <2>b, <4>1, RowHelperFields
      <4> QED BY <2>g, <2>s, <3>1, <4>1, <4>2
    <3>2. CASE ~ Holds(r, s)
      BY <2>5, <2>q, <3>2 DEF PersistSilent, Persist
    <3> QED BY <3>1, <3>2
  <2>6. CASE TellFailed(r)
    <3>1. run[r].after \in Ends
      BY <2>a DEF RunType
    <3>2. GoesOn(r, run[r].after, run[r].timeout)
      BY <2>6, <2>g DEF TellFailed
    <3> QED BY <2>a, <2>6, <3>1, <3>2
            DEF TellFailed, Ends, GoesOn, TellStep, Tells, ToTell, ToCount, OneToTell
  <2>7. CASE TellCompleted(r)
    <3>1. \E v \in {"return", "progress"} : GoesOn(r, v, run[r].timeout)
      BY <2>7, <2>g DEF TellCompleted
    <3> QED BY <2>a, <2>7, <3>1 DEF TellCompleted, GoesOn, TellStep, Tells, ToTell, ToCount, OneToTell
  <2>8. CASE RecordProgress(r)
    <3>1. \E n \in {0, 1} : sent' = [sent EXCEPT ![s].progress = @ + n]
      <4>1. CASE run[r].score = "null"
        <5>1. [sent[s] EXCEPT !.progress = sent[s].progress] = [sent[s] EXCEPT !.progress = sent[s].progress + 0]
          BY <2>b DEF SentType
        <5>2. sent' = [sent EXCEPT ![s].progress = @ + 0]
          BY <1>a, <2>8, <4>1, <5>1 DEF RecordProgress
        <5> QED BY <5>2
      <4>2. CASE run[r].score # "null"
        BY <2>8, <4>2 DEF RecordProgress
      <4> QED BY <4>1, <4>2
    <3>2. GoesOn(r, "enqueuePost", run[r].timeout) /\ run[r].pc = "progress"
      BY <2>8, <2>g DEF RecordProgress
    <3> QED BY <2>a, <3>1, <3>2 DEF GoesOn, TellStep, Counts, ToTell, ToCount, OneToTell
  <2>9. CASE EnqueuePost(r) \/ EnqueuePostFails(r)
    BY <2>9, <2>q DEF EnqueuePost, EnqueuePostFails
  <2>10. CASE End(r)
    BY <2>10, <2>q, <1>i DEF End
  <2>11. CASE StatementFails(r)
    <3>1. sent' = sent /\ \E v \in {"invalid", "throw"} : Goto(r, v)
      BY <2>11 DEF StatementFails
    <3> QED BY <2>q, <3>1
  <2>12. CASE Timeout(r) \/ TimeoutRead(r) \/ TimeoutStatementFails(r)
    <3>1. /\ sent' = sent
          /\ \E v \in {"read", "retry", "throw"} : \E w :
               \/ run' = [run EXCEPT ![r].timeout = v]
               \/ run' = [run EXCEPT ![r].timeout = v, ![r].timeoutAttempt = w]
      BY <2>12 DEF Timeout, TimeoutRead, TimeoutStatementFails
    <3>2. \E v \in {"read", "retry", "throw"} : GoesOn(r, run[r].pc, v)
      BY <2>a, <3>1, RunForms DEF GoesOn
    <3> QED BY <2>t, <3>1, <3>2
  <2>13. CASE TimeoutRetry(r)
    <3>1. CASE Holds(r, s)
      <4>1. PICK v \in {"tellFailed", "throw"} :
              /\ run' = [run EXCEPT ![r].timeout = v]
              /\ v = "tellFailed" <=> run[r].timeoutAttempt >= MaxAttempts
        BY <2>13, <3>1 DEF TimeoutRetry
      <4>2. /\ row'[s] = AfterTransientFailure(s, run[r].timeoutAttempt)
            /\ sent' = sent /\ run[r].timeout = "retry"
        BY <1>a, <2>13, <3>1 DEF TimeoutRetry
      <4>3. GoesOn(r, run[r].pc, v)
        BY <2>a, <4>1, RunForms DEF GoesOn
      <4>4. v = "tellFailed" => row'[s].status \in {"COMPLETED", "FAILED"}
        BY <2>b, <4>1, <4>2, RowHelperFields DEF AfterTransientFailure
      <4> QED BY <2>s, <2>t, <3>1, <4>1, <4>2, <4>3, <4>4
    <3>2. CASE ~ Holds(r, s)
      <4>1. run' = [run EXCEPT ![r].timeout = "throw"] /\ sent' = sent
        BY <2>13, <3>2 DEF TimeoutRetry
      <4>2. GoesOn(r, run[r].pc, "throw")
        BY <2>a, <4>1, RunForms DEF GoesOn
      <4> QED BY <2>t, <4>1, <4>2
    <3> QED BY <3>1, <3>2
  <2>14. CASE TimeoutTellFailed(r)
    <3>1. GoesOn(r, run[r].pc, "throw")
      BY <2>14, <2>a, RunForms DEF TimeoutTellFailed, GoesOn
    <3> QED BY <2>a, <2>14, <3>1
            DEF TimeoutTellFailed, GoesOn, TellStep, Tells, ToTell, ToCount, OneToTell
  <2>15. CASE TimeoutThrow(r)
    <3>1. \/ run' = [run EXCEPT ![r] = IdleRun]
          \/ run' = [run EXCEPT ![r].timeout = "done"]
      BY <1>a, <2>15 DEF TimeoutThrow
    <3>2. CASE run' = [run EXCEPT ![r].timeout = "done"]
      <4>1. GoesOn(r, run[r].pc, "done")
        BY <2>a, <3>2, RunForms DEF GoesOn
      <4> QED BY <2>15, <2>t, <4>1 DEF TimeoutThrow
    <3> QED BY <1>i, <2>15, <3>1, <3>2 DEF TimeoutThrow
  <2> QED
    <3>1. CASE ExecStep(r)
      BY <3>1, <2>1, <2>2, <2>d, <2>e, <2>3, <2>4, <2>5, <2>6, <2>7, <2>8, <2>9, <2>10 DEF ExecStep
    <3>2. CASE TimeoutStep(r)
      BY <3>2, <2>12, <2>13, <2>14, <2>15 DEF TimeoutStep
    <3>3. CASE RunFault(r)
      BY <3>3, <1>c, <2>9, <2>11, <2>12 DEF RunFault
    <3> QED BY <3>1, <3>2, <3>3
<1> QED BY <1>b, <1>c

\* A run's step tells at most what nobody has told.
LEMMA RunTellsOnce ==
  ASSUME TypeOK, TypeOK', ToldOnce, TellInv, NEW r \in Runs, TellStep(r),
         \A s \in Submissions : Settled(s) => Settled(s)'
  PROVE  ToldOnce' /\ TellInv'
<1>s. sent \in [Submissions -> SentType] /\ sent' \in [Submissions -> SentType]
  BY DEF TypeOK
<1>n. \A s \in Submissions :
        /\ sent[s].completed \in Nat /\ sent[s].failed \in Nat /\ sent[s].progress \in Nat
  BY <1>s DEF SentType
<1>q. /\ \A q \in Runs \ {r} : run'[q] = run[q]
      /\ (~ ToTell(r)' /\ ~ ToCount(r)') \/ run'[r].sub = run[r].sub
  BY DEF TellStep, OnlyRun, IdleRun, ToTell, ToCount
<1>o. \A q \in Runs \ {r} : /\ (ToTell(q)' <=> ToTell(q)) /\ (ToCount(q)' <=> ToCount(q))
                            /\ (OneToTell(q)' <=> OneToTell(q)) /\ run'[q].sub = run[q].sub
  BY <1>q DEF ToTell, ToCount, OneToTell
<1>1. CASE Quiet(r)
  <2>1. ToldOnce'
    BY <1>1 DEF Quiet, ToldOnce
  <2>2. TellInv'
    BY <1>1, <1>o, <1>q DEF Quiet, TellInv
  <2> QED BY <2>1, <2>2
<1>2. CASE run[r].sub \in Submissions /\ (Settles(r) \/ Tells(r) \/ Counts(r))
  <2> PICK s \in Submissions : s = run[r].sub
    BY <1>2
  <2>1. CASE Settles(r)
    <3>1. ~ Settled(s) /\ Settled(s)' /\ sent' = sent
      BY <2>1 DEF Settles, Settled, Holds
    <3>2. sent[s].completed = 0 /\ sent[s].failed = 0
      BY <1>n, <3>1 DEF ToldOnce
    <3>3. \A q \in Runs : run[q].sub = s => ~ ToTell(q) /\ ~ ToCount(q)
      BY <3>1, <3>2 DEF TellInv
    <3>4. ToldOnce'
      BY <3>1 DEF ToldOnce
    <3>5. OneToTell(r)' /\ ~ ToCount(r)'
      BY <2>1, <3>3 DEF Settles
    <3> QED BY <1>o, <1>q, <3>1, <3>2, <3>3, <3>4, <3>5 DEF TellInv
  <2>2. CASE Tells(r)
    <3>1. /\ Settled(s) /\ Settled(s)' /\ sent[s].completed = 0 /\ sent[s].failed = 0
          /\ ~ ToTell(r)' /\ OneToTell(r)'
      BY <1>n, <2>2 DEF Tells, TellInv, ToTell, OneToTell
    <3>2. sent[s].progress = 0
      BY <1>n, <3>1 DEF ToldOnce
    <3>3. \A q \in Runs : run[q].sub = s => (~ ToCount(q) /\ (q # r => ~ ToTell(q)))
      BY <2>2, <3>1 DEF TellInv, Tells
    <3>4. /\ \A z \in Submissions \ {s} : sent'[z] = sent[z]
          /\ sent'[s].progress = 0
          /\ \/ sent'[s].completed = 0 /\ sent'[s].failed = 1 /\ ~ ToCount(r)'
             \/ sent'[s].completed = 1 /\ sent'[s].failed = 0
      BY <1>s, <2>2, <3>1, <3>2, <3>3 DEF Tells, SentType
    <3>5. ToldOnce'
      BY <3>1, <3>4 DEF ToldOnce
    <3> QED BY <1>o, <1>q, <3>1, <3>3, <3>4, <3>5 DEF TellInv
  <2>3. CASE Counts(r)
    <3>1. sent[s].completed = 1 /\ sent[s].progress = 0 /\ sent[s].failed = 0
      BY <1>n, <2>3 DEF Counts, TellInv, ToldOnce
    <3>2. \A q \in Runs : run[q].sub = s => (~ ToTell(q) /\ (q # r => ~ ToCount(q)))
      BY <2>3, <3>1 DEF Counts, TellInv
    <3>3. /\ \A z \in Submissions \ {s} : sent'[z] = sent[z]
          /\ sent'[s].completed = 1 /\ sent'[s].failed = 0 /\ sent'[s].progress \in {0, 1}
      BY <1>s, <2>3, <3>1 DEF Counts, SentType
    <3>4. ToldOnce'
      BY <3>1, <3>3 DEF ToldOnce, Settled
    <3>5. OneToTell(r)' /\ ~ ToTell(r)' /\ ~ ToCount(r)'
      BY <2>3, <3>2 DEF Counts, TellInv
    <3> QED BY <1>o, <1>q, <3>2, <3>3, <3>4, <3>5 DEF TellInv
  <2> QED BY <1>2, <2>1, <2>2, <2>3
<1> QED BY <1>1, <1>2 DEF TellStep

\* What is told stays told once, and so does what is about to be.
LEMMA ToldStep ==
  ASSUME TypeOK, TypeOK', ToldOnce, TellInv, [Next]_vars
  PROVE  ToldOnce' /\ TellInv'
<1>a. \A s \in Submissions : Settled(s) => Settled(s)'
  BY SettledStays
<1>q. ASSUME sent' = sent, run' = run PROVE ToldOnce' /\ TellInv'
  BY <1>a, <1>q DEF ToldOnce, TellInv, ToTell, ToCount, OneToTell
<1>1. CASE UNCHANGED vars
  BY <1>1, <1>q DEF vars
<1>2. ASSUME NEW s \in Submissions, ApiNext(s) \/ QueueNext(s) \/ EnqueueMissingPost(s)
      PROVE  ToldOnce' /\ TellInv'
  <2>1. CASE \E r \in Runs : TakeJob(r, s)
    <3>1. PICK r \in Runs : TakeJob(r, s)
      BY <2>1
    <3>2. /\ run'[r].pc = "load" /\ run'[r].timeout = "none"
          /\ \A q \in Runs \ {r} : run'[q] = run[q]
      BY <3>1 DEF TakeJob, IdleRun, TypeOK
    <3>3. sent' = sent
      BY <3>1 DEF TakeJob
    <3>4. ToldOnce'
      BY <1>a, <3>3 DEF ToldOnce
    <3>5. ~ ToTell(r)' /\ ~ ToCount(r)' /\ OneToTell(r)'
      BY <3>2 DEF ToTell, ToCount, OneToTell
    <3>6. \A q \in Runs \ {r} : /\ (ToTell(q)' <=> ToTell(q)) /\ (ToCount(q)' <=> ToCount(q))
                                /\ (OneToTell(q)' <=> OneToTell(q)) /\ run'[q].sub = run[q].sub
      BY <3>2 DEF ToTell, ToCount, OneToTell
    <3> QED BY <1>a, <3>3, <3>4, <3>5, <3>6 DEF TellInv
  <2>2. CASE ~ \E r \in Runs : TakeJob(r, s)
    <3>1. sent' = sent /\ run' = run
      BY <1>2, <2>2 DEF ApiNext, QueueNext, Submit, SubmitEnqueue, SubmitEnqueueFails,
         BackoffElapses, Stalled, LockLost, LockGone, RetryComesDue, LeaseExpires,
         LeaseExpiresEarly, LeaseRunsOut, EnqueueMissingPost
    <3> QED BY <1>q, <3>1
  <2> QED BY <2>1, <2>2
<1>3. ASSUME NEW c \in Schedulers,
             (\E s \in Submissions : Snapshot(c, s)) \/ CycleStep(c) \/ CycleFails(c)
      PROVE  ToldOnce' /\ TellInv'
  <2>1. sent' = sent /\ run' = run
    BY <1>3 DEF CycleStep, Inspect, Remove, Reset, Enqueue, FailExhausted, CycleFails, Snapshot
  <2> QED BY <1>q, <2>1
<1>4. CASE Done
  BY <1>4, <1>q DEF Done, vars
<1>5. ASSUME NEW r \in Runs, ExecStep(r) \/ TimeoutStep(r) \/ RunFault(r)
      PROVE  ToldOnce' /\ TellInv'
  BY <1>a, <1>5, RunTells, RunTellsOnce
<1> QED BY <1>1, <1>2, <1>3, <1>4, <1>5, [Next]_vars DEF Next

\* The learner hears of each submission at most once, once it is settled, and her
\* progress counts it at most once, however many runs worked on it, whatever
\* was slow and however often something broke (publishEvent and
\* recordSpeakingAttempt behind the fence of persistResult).
THEOREM ToldOnlyOnce == Spec => []ToldOnce
<1>1. Init => ToldOnce /\ TellInv
  BY DEF Init, IdleRun, ToldOnce, TellInv, ToTell, ToCount, OneToTell
<1>2. TypeOK /\ TypeOK' /\ ToldOnce /\ TellInv /\ [Next]_vars => (ToldOnce /\ TellInv)'
  BY ToldStep
<1> QED BY <1>1, <1>2, TypeCorrect, PTL DEF Spec

-----------------------------------------------------------------------------
(* What a step of a run does to the lease.                                   *)

\* Before the claim, and between the claim and the write of the outcome.
Early(r) == run[r].pc \in {"load", "claim"}
Holding  == {"download", "silent", "invalid", "missing", "score", "retry", "persist"}

\* Only r moves, and at most one fault is spent.
Moved(r) ==
  /\ \A q \in Runs \ {r} : run'[q] = run[q]
  /\ run'[r] = IdleRun \/ run'[r].sub = run[r].sub
  /\ faults' = faults \/ faults' = faults + 1
  /\ Early(r)' => Early(r)
  /\ Live(r)' => Live(r)
\* It may leave the row alone: only a fault parts a live run from its lease, ...
Stays(r, s) ==
  /\ row' = row
  /\ Live(r)' /\ run[r].pc \in Holding =>
       run'[r].pc \in Holding /\ run'[r].attempt = run[r].attempt
  /\ Live(r)' /\ run'[r].pc = "claim" => run'[r].attempt = row[s].attempts + 1
  /\ Live(r) /\ Holds(r, s) /\ run[r].pc \in Holding /\ ~ Live(r)' => faults' = faults + 1
  /\ Early(r)' /\ TimedOut(r)' => TimedOut(r) \/ faults' = faults + 1
\* ... it may claim the row, ...
Claims(r, s) ==
  /\ Claimable(s) /\ row' = [row EXCEPT ![s] = Claimed(s, r)]
  /\ run[r].pc = "claim" /\ ~ Early(r)' /\ faults' = faults
  /\ run'[r].sub = s /\ run'[r].attempt = run[r].attempt
  /\ IF TimedOut(r) THEN ~ Live(r)' ELSE Live(r) /\ Live(r)' /\ run'[r].pc = "download"
\* ... or it may write the outcome under its lease, which ends it.
Writes(r, s) ==
  /\ Holds(r, s) /\ faults' = faults /\ run'[r] # run[r]
  /\ \E w : /\ row' = [row EXCEPT ![s] = w] /\ w.attempts = row[s].attempts
            /\ w.status \in {"PENDING", "COMPLETED", "FAILED"}
            /\ w.status = "PENDING" /\ Live(r) => run[r].attempt < MaxAttempts
  /\ Early(r)' /\ TimedOut(r)' => TimedOut(r)

LeaseStep(r) ==
  /\ Moved(r)
  /\ \/ Stays(r, run[r].sub)
     \/ run[r].sub \in Submissions /\ (Claims(r, run[r].sub) \/ Writes(r, run[r].sub))

\* The run as r's step leaves it.
GoesTo(r, pc, timeout, attempt) == GoesOn(r, pc, timeout) /\ run'[r].attempt = attempt

LEMMA RunForms2 ==
  ASSUME TypeOK, NEW r \in Runs, run[r] \in RunType
  PROVE  /\ \A v : Goto(r, v) => GoesTo(r, v, run[r].timeout, run[r].attempt)
         /\ \A v, w : (\/ run' = [run EXCEPT ![r].pc = v, ![r].score = w]
                       \/ run' = [run EXCEPT ![r].pc = v, ![r].after = w]) =>
              GoesTo(r, v, run[r].timeout, run[r].attempt)
         /\ \A v, w : run' = [run EXCEPT ![r].pc = v, ![r].attempt = w] =>
              GoesTo(r, v, run[r].timeout, w)
         /\ \A v, w : (\/ run' = [run EXCEPT ![r].timeout = v]
                       \/ run' = [run EXCEPT ![r].timeout = v, ![r].timeoutAttempt = w]) =>
              GoesTo(r, run[r].pc, v, run[r].attempt)
<1>1. ASSUME NEW v, Goto(r, v) PROVE GoesTo(r, v, run[r].timeout, run[r].attempt)
  BY <1>1, RunForms DEF GoesTo, GoesOn
<1>2. ASSUME NEW v, NEW w,
             \/ run' = [run EXCEPT ![r].pc = v, ![r].score = w]
             \/ run' = [run EXCEPT ![r].pc = v, ![r].after = w]
      PROVE  GoesTo(r, v, run[r].timeout, run[r].attempt)
  BY <1>2, RunForms DEF GoesTo, GoesOn
<1>3. ASSUME NEW v, NEW w, run' = [run EXCEPT ![r].pc = v, ![r].attempt = w]
      PROVE  GoesTo(r, v, run[r].timeout, w)
  <2>1. /\ run'[r].pc = v /\ run'[r].timeout = run[r].timeout
        /\ run'[r].attempt = w /\ OnlyRun(r)
    BY <1>3, RunForms
  <2> QED BY <2>1 DEF GoesTo, GoesOn
<1>4. ASSUME NEW v, NEW w,
             \/ run' = [run EXCEPT ![r].timeout = v]
             \/ run' = [run EXCEPT ![r].timeout = v, ![r].timeoutAttempt = w]
      PROVE  GoesTo(r, run[r].pc, v, run[r].attempt)
  BY <1>4, RunForms DEF GoesTo, GoesOn
<1> QED BY <1>1, <1>2, <1>3, <1>4

\* Every step of a run is one of the three.
LEMMA RunLease ==
  ASSUME TypeOK, NEW r \in Runs, ExecStep(r) \/ TimeoutStep(r) \/ RunFault(r)
  PROVE  LeaseStep(r)
<1>a. run \in [Runs -> RunType \cup {IdleRun}] /\ row \in [Submissions -> RowType]
      /\ faults \in Nat
  BY FaultsAssumption DEF TypeOK
<1>i. ASSUME run' = [run EXCEPT ![r] = IdleRun], row' = row,
             faults' = faults \/ faults' = faults + 1, Live(r) => faults' = faults + 1
      PROVE  LeaseStep(r)
  <2>1. run'[r] = IdleRun /\ \A q \in Runs \ {r} : run'[q] = run[q]
    BY <1>a, <1>i
  <2>2. ~ Early(r)' /\ ~ Live(r)'
    BY <2>1 DEF Early, Live, IdleRun, Working
  <2> QED BY <1>i, <2>1, <2>2 DEF LeaseStep, Moved, Stays
<1>b. CASE Crash(r)
  BY <1>b, <1>i DEF Crash, Fault
<1>c. CASE ~ Crash(r)
  <2>a. run[r] \in RunType /\ run[r].sub \in Submissions
    BY SteppingRun
  <2> PICK s \in Submissions : s = run[r].sub
    BY <2>a
  <2>b. row[s] \in RowType
    BY <1>a
  <2>m. ASSUME NEW v, GoesTo(r, v, run[r].timeout, run[r].attempt), row' = row,
               faults' = faults \/ faults' = faults + 1,
               run[r].pc \in Working, v \notin {"load", "claim"},
               run[r].pc \in Holding => \/ v \in Holding \/ TimedOut(r)
                                        \/ v \in Ends /\ (~ Holds(r, s) \/ faults' = faults + 1)
        PROVE  LeaseStep(r)
    <3>1. ~ Early(r)' /\ (Live(r)' <=> v \in Working /\ ~ TimedOut(r)) /\ Moved(r)
      BY <2>m DEF GoesTo, GoesOn, OnlyRun, Moved, Early, Live, TimedOut
    <3>2. Stays(r, s)
      BY <2>m, <3>1 DEF GoesTo, GoesOn, Stays, Early, Live, TimedOut, Working, Ends, Holding
    <3> QED BY <3>1, <3>2 DEF LeaseStep
  <2>t. ASSUME NEW v, GoesTo(r, run[r].pc, v, run[r].attempt), row' = row,
               faults' = faults \/ faults' = faults + 1,
               TimedOut(r) \/ faults' = faults + 1, v # "none"
        PROVE  LeaseStep(r)
    <3>1. ~ Live(r)' /\ (Early(r)' <=> Early(r)) /\ TimedOut(r)' /\ Moved(r)
      BY <2>t DEF GoesTo, GoesOn, OnlyRun, Moved, Early, Live, TimedOut
    <3> QED BY <2>t, <3>1 DEF LeaseStep, Stays, Live
  <2>w. ASSUME NEW v, NEW timeout, GoesTo(r, v, timeout, run[r].attempt),
               Holds(r, s), faults' = faults, v # run[r].pc \/ timeout # run[r].timeout,
               NEW w, row' = [row EXCEPT ![s] = w], w.attempts = row[s].attempts,
               w.status \in {"PENDING", "COMPLETED", "FAILED"},
               w.status = "PENDING" /\ Live(r) => run[r].attempt < MaxAttempts,
               \/ timeout = run[r].timeout /\ v \notin {"load", "claim"} /\ run[r].pc \in Working
               \/ v = run[r].pc /\ timeout # "none" /\ TimedOut(r)
        PROVE  LeaseStep(r)
    <3>1. /\ Early(r)' => Early(r) /\ TimedOut(r)
          /\ Live(r)' => Live(r)
      BY <2>w DEF GoesTo, GoesOn, OnlyRun, Early, Live, TimedOut
    <3>2. Moved(r)
      BY <2>w, <3>1 DEF GoesTo, GoesOn, OnlyRun, Moved
    <3>3. run'[r] # run[r]
      BY <2>w DEF GoesTo, GoesOn
    <3>4. Writes(r, s)
      BY <2>w, <3>1, <3>3 DEF Writes
    <3> QED BY <3>2, <3>4 DEF LeaseStep
  <2>g. ASSUME NEW v, Goto(r, v) PROVE GoesTo(r, v, run[r].timeout, run[r].attempt)
    BY <2>a, <2>g, RunForms2
  <2>1. CASE Load(r)
    <3>1. PICK v \in {"return", "claim"} :
            run' = [run EXCEPT ![r].pc = v, ![r].attempt = row[s].attempts + 1]
      BY <2>1 DEF Load
    <3>2. GoesTo(r, v, run[r].timeout, row[s].attempts + 1)
      BY <2>a, <3>1, RunForms2
    <3>3. row' = row /\ faults' = faults /\ run[r].pc = "load"
      BY <2>1 DEF Load
    <3>4. Moved(r) /\ (Live(r)' => Live(r)) /\ Early(r) /\ (TimedOut(r)' <=> TimedOut(r))
      BY <3>2, <3>3 DEF GoesTo, GoesOn, OnlyRun, Moved, Early, Live, TimedOut, Working
    <3>5. Stays(r, s)
      BY <3>2, <3>3, <3>4 DEF GoesTo, GoesOn, Stays, Holding
    <3> QED BY <3>4, <3>5 DEF LeaseStep
  <2>2. CASE Claim(r)
    <3>1. CASE Claimable(s)
      <4>1. PICK v \in {"throw", "download"} : Goto(r, v) /\ (v = "throw" <=> TimedOut(r))
        BY <2>2, <3>1 DEF Claim
      <4>2. GoesTo(r, v, run[r].timeout, run[r].attempt)
        BY <2>g, <4>1
      <4>3. row' = [row EXCEPT ![s] = Claimed(s, r)] /\ faults' = faults /\ run[r].pc = "claim"
        BY <2>2, <3>1 DEF Claim
      <4>4. ~ Early(r)' /\ Moved(r) /\ run'[r].sub = s /\ run'[r].attempt = run[r].attempt
        BY <4>1, <4>2, <4>3 DEF GoesTo, GoesOn, OnlyRun, Moved, Early, Live, TimedOut, Working
      <4>5. IF TimedOut(r) THEN ~ Live(r)' ELSE Live(r) /\ Live(r)' /\ run'[r].pc = "download"
        BY <4>1, <4>2, <4>3 DEF GoesTo, GoesOn, Live, TimedOut, Working
      <4> QED BY <3>1, <4>3, <4>4, <4>5 DEF LeaseStep, Claims
    <3>2. CASE ~ Claimable(s)
      <4>1. Goto(r, "return") /\ row' = row /\ faults' = faults /\ run[r].pc = "claim"
        BY <2>2, <3>2 DEF Claim
      <4> QED BY <2>g, <2>m, <4>1 DEF Holding, Working
    <3> QED BY <3>1, <3>2
  <2>d. CASE Download(r)
    <3>1. /\ row' = row /\ faults' = faults /\ run[r].pc = "download"
          /\ \/ \E v \in {"missing", "retry", "score", "silent", "invalid"} : Goto(r, v)
             \/ TimedOut(r) /\ Goto(r, "throw")
      BY <2>d DEF Download
    <3> QED BY <3>1, <2>g, <2>m DEF Holding, Working
  <2>e. CASE Score(r)
    <3>1. /\ row' = row /\ faults' = faults /\ run[r].pc = "score"
          /\ \/ Goto(r, "retry")
             \/ TimedOut(r) /\ Goto(r, "throw")
             \/ \E x : run' = [run EXCEPT ![r].pc = "persist", ![r].score = x]
      BY <2>e DEF Score
    <3>2. ASSUME NEW x, run' = [run EXCEPT ![r].pc = "persist", ![r].score = x]
          PROVE  GoesTo(r, "persist", run[r].timeout, run[r].attempt)
      BY <2>a, <3>2, RunForms2
    <3> QED BY <3>1, <3>2, <2>g, <2>m DEF Holding, Working
  <2>3. CASE Retry(r)
    <3>1. CASE Holds(r, s)
      <4>1. PICK v \in {"tellFailed", "throw"} : run' = [run EXCEPT ![r].pc = v, ![r].after = "throw"]
        BY <2>3, <3>1 DEF Retry
      <4>2. /\ row' = [row EXCEPT ![s] = AfterTransientFailure(s, run[r].attempt)]
            /\ faults' = faults /\ run[r].pc = "retry"
        BY <2>3, <3>1 DEF Retry
      <4>3. GoesTo(r, v, run[r].timeout, run[r].attempt)
        BY <2>a, <4>1, RunForms2
      <4>4. PICK w : w = AfterTransientFailure(s, run[r].attempt)
        OBVIOUS
      <4>5. /\ w.attempts = row[s].attempts /\ w.status \in {"PENDING", "COMPLETED", "FAILED"}
            /\ w.status = "PENDING" => run[r].attempt < MaxAttempts
        <5>1. run[r].attempt \in Nat /\ MaxAttempts \in Nat
          BY <2>a, AttemptsAssumption DEF RunType
        <5>2. FailedWith(s, "TRANSIENT").status = "FAILED"
          BY <2>b, RowHelperFields
        <5> QED BY <2>b, <4>4, <5>1, <5>2, RowHelperFields DEF AfterTransientFailure
      <4>6. v \notin {"load", "claim"} /\ run[r].pc \in Working
        BY <4>2 DEF Working
      <4>7. row' = [row EXCEPT ![s] = w]
        BY <4>2, <4>4
      <4> QED BY <2>w, <3>1, <4>2, <4>3, <4>5, <4>6, <4>7
    <3>2. CASE ~ Holds(r, s)
      <4>1. Goto(r, "throw") /\ row' = row /\ faults' = faults /\ run[r].pc = "retry"
        BY <2>3, <3>2 DEF Retry
      <4> QED BY <2>g, <2>m, <3>2, <4>1 DEF Working, Ends
    <3> QED BY <3>1, <3>2
  <2>4. CASE FailForGood(r) \/ PersistSilent(r) \/ Persist(r)
    <3>0. run[r].pc \in Working \ {"tell", "tellFailed"} /\ faults' = faults
      BY <2>4 DEF FailForGood, PersistSilent, Persist, Working
    <3>1. CASE Holds(r, s)
      <4>1. \E v \in {"tell", "tellFailed"} : GoesTo(r, v, run[r].timeout, run[r].attempt)
        <5>1. \/ Goto(r, "tell")
              \/ run' = [run EXCEPT ![r].pc = "tellFailed", ![r].after = "unrecoverable"]
          BY <2>4, <3>1 DEF FailForGood, PersistSilent, Persist
        <5> QED BY <2>a, <5>1, RunForms2
      <4>2. \E w : /\ row' = [row EXCEPT ![s] = w] /\ w.attempts = row[s].attempts
                   /\ w.status \in {"COMPLETED", "FAILED"}
        <5>1. CASE FailForGood(r)
          <6>1. PICK e : row' = [row EXCEPT ![s] = FailedWith(s, e)]
            BY <3>1, <5>1 DEF FailForGood
          <6>2. /\ FailedWith(s, e).attempts = row[s].attempts
                /\ FailedWith(s, e).status = "FAILED"
            BY <2>b, RowHelperFields
          <6> QED BY <6>1, <6>2
        <5>2. CASE PersistSilent(r)
          BY <2>b, <3>1, <5>2, RowHelperFields DEF PersistSilent
        <5>3. CASE Persist(r)
          BY <2>b, <3>1, <5>3, RowHelperFields DEF Persist
        <5> QED BY <2>4, <5>1, <5>2, <5>3
      <4> QED BY <2>w, <3>0, <3>1, <4>1, <4>2
    <3>2. CASE ~ Holds(r, s)
      <4>1. row' = row /\ \E v \in {"return", "unrecoverable"} : Goto(r, v)
        BY <2>4, <3>2 DEF FailForGood, PersistSilent, Persist
      <4> QED BY <2>g, <2>m, <3>0, <3>2, <4>1 DEF Ends
    <3> QED BY <3>1, <3>2
  <2>5. CASE \/ TellFailed(r) \/ TellCompleted(r) \/ RecordProgress(r)
             \/ EnqueuePost(r) \/ EnqueuePostFails(r)
    <3>1. run[r].after \in Ends
      BY <2>a DEF RunType
    <3>2. /\ row' = row /\ (faults' = faults \/ faults' = faults + 1)
          /\ run[r].pc \in {"tellFailed", "tell", "progress", "enqueuePost"}
          /\ \E v \in Ends \cup {"progress", "enqueuePost"} : Goto(r, v)
      BY <2>5, <3>1 DEF TellFailed, TellCompleted, RecordProgress, EnqueuePost,
         EnqueuePostFails, Fault, Ends
    <3> QED BY <2>g, <2>m, <3>2 DEF Holding, Working, Ends
  <2>6. CASE End(r)
    <3>1. row' = row /\ faults' = faults /\ run[r].pc \in Ends
      BY <2>6 DEF End
    <3>2. ~ Live(r) /\ ~ Early(r)
      BY <3>1 DEF Live, Working, Ends, Early
    <3>3. CASE Goto(r, "idle")
      <4>1. GoesTo(r, "idle", run[r].timeout, run[r].attempt)
        BY <2>g, <3>3
      <4>2. ~ Live(r)' /\ ~ Early(r)'
        BY <4>1 DEF GoesTo, GoesOn, Live, Working, Early
      <4> QED BY <3>1, <3>2, <4>1, <4>2 DEF GoesTo, GoesOn, OnlyRun, LeaseStep, Moved, Stays
    <3> QED BY <1>i, <2>6, <3>1, <3>2, <3>3 DEF End
  <2>7. CASE StatementFails(r)
    <3>1. /\ row' = row /\ faults' = faults + 1 /\ run[r].pc \in Working
          /\ \E v \in {"invalid", "throw"} : Goto(r, v)
      BY <2>7 DEF StatementFails, Fault, Working
    <3> QED BY <2>g, <2>m, <3>1 DEF Holding, Ends
  <2>8. CASE Timeout(r) \/ TimeoutRead(r) \/ TimeoutStatementFails(r) \/ TimeoutTellFailed(r)
    <3>1. /\ row' = row /\ (faults' = faults \/ faults' = faults + 1)
          /\ TimedOut(r) \/ faults' = faults + 1
          /\ \E v \in {"read", "retry", "throw"} : \E w :
               \/ run' = [run EXCEPT ![r].timeout = v]
               \/ run' = [run EXCEPT ![r].timeout = v, ![r].timeoutAttempt = w]
      BY <2>8 DEF Timeout, TimeoutRead, TimeoutStatementFails, TimeoutTellFailed, Fault, TimedOut
    <3>2. \E v \in {"read", "retry", "throw"} : GoesTo(r, run[r].pc, v, run[r].attempt)
      BY <2>a, <3>1, RunForms2
    <3> QED BY <2>t, <3>1, <3>2
  <2>9. CASE TimeoutRetry(r)
    <3>0. TimedOut(r) /\ run[r].timeout = "retry" /\ faults' = faults
      BY <2>9 DEF TimeoutRetry, TimedOut
    <3>g. ASSUME NEW v, run' = [run EXCEPT ![r].timeout = v]
          PROVE  GoesTo(r, run[r].pc, v, run[r].attempt)
      BY <2>a, <3>g, RunForms2
    <3>1. CASE Holds(r, s)
      <4>1. PICK v \in {"tellFailed", "throw"} : run' = [run EXCEPT ![r].timeout = v]
        BY <2>9, <3>1 DEF TimeoutRetry
      <4>2. PICK w : w = AfterTransientFailure(s, run[r].timeoutAttempt)
        OBVIOUS
      <4>3. row' = [row EXCEPT ![s] = w]
        BY <2>9, <3>1, <4>2 DEF TimeoutRetry
      <4>4. w.attempts = row[s].attempts /\ w.status \in {"PENDING", "FAILED"}
        BY <2>b, <4>2, RowHelperFields
      <4> QED BY <2>w, <3>0, <3>g, <3>1, <4>1, <4>3, <4>4 DEF Live
    <3>2. CASE ~ Holds(r, s)
      BY <2>9, <2>t, <3>0, <3>g, <3>2 DEF TimeoutRetry
    <3> QED BY <3>1, <3>2
  <2>10. CASE TimeoutThrow(r)
    <3>1. row' = row /\ faults' = faults /\ TimedOut(r)
      BY <2>10 DEF TimeoutThrow, TimedOut
    <3>2. \/ run' = [run EXCEPT ![r] = IdleRun]
          \/ run' = [run EXCEPT ![r].timeout = "done"]
      BY <1>a, <2>10 DEF TimeoutThrow
    <3>3. CASE run' = [run EXCEPT ![r].timeout = "done"]
      <4>1. GoesTo(r, run[r].pc, "done", run[r].attempt)
        BY <2>a, <3>3, RunForms2
      <4> QED BY <2>t, <3>1, <4>1
    <3> QED BY <1>i, <3>1, <3>2, <3>3 DEF Live
  <2> QED
    <3>1. CASE ExecStep(r)
      BY <3>1, <2>1, <2>2, <2>d, <2>e, <2>3, <2>4, <2>5, <2>6 DEF ExecStep
    <3>2. CASE TimeoutStep(r)
      BY <3>2, <2>8, <2>9, <2>10 DEF TimeoutStep
    <3>3. CASE RunFault(r)
      BY <3>3, <1>c, <2>5, <2>7, <2>8 DEF RunFault
    <3> QED BY <3>1, <3>2, <3>3
<1> QED BY <1>b, <1>c

-----------------------------------------------------------------------------
(* A live run keeps its lease.                                               *)

\* Who holds a row is past its claim and works on it; while it is live, its
\* lease has not run out.
HoldInv ==
  \A r \in Runs, s \in Submissions : Holds(r, s) =>
    /\ run[r] # IdleRun => run[r].sub = s
    /\ ~ Early(r)
    /\ Live(r) => run[r].pc \in Holding /\ ~ row[s].expired

\* Until the request that accepts a submission has enqueued it, nobody else
\* works on it.
AcceptInv ==
  \A s \in Submissions :
    /\ row[s].status = "NONE" => api[s] = "idle"
    /\ api[s] # "done" =>
         /\ row[s].status \in {"NONE", "PENDING"} /\ job[s].state = "none"
         /\ \A r \in Runs : run[r] # IdleRun => run[r].sub # s
         /\ \A c \in Schedulers : rec[c] # IdleRec => rec[c].sub # s

\* The scheduler resets a row, or gives it up, with its job gone or failed.
RecInv ==
  \A c \in Schedulers :
    /\ rec[c].pc = "reset" => job[rec[c].sub].state = "none"
    /\ rec[c].pc = "fail" => job[rec[c].sub].state = "failed"

LeaseInv == LockInv /\ HoldInv /\ AcceptInv /\ RecInv

\* What a run's step leaves to the others.
LEMMA RunLeaves ==
  ASSUME TypeOK, NEW r \in Runs, ExecStep(r) \/ TimeoutStep(r) \/ RunFault(r)
  PROVE  /\ api' = api /\ rec' = rec
         /\ \A x \in Submissions :
              job'[x] = job[x] \/ (x = run[r].sub /\ job[x].state = "active")
<1>1. CASE End(r) \/ TimeoutThrow(r)
  BY <1>1 DEF End, TimeoutThrow, JobSettled, TypeOK
<1>2. CASE ~ (End(r) \/ TimeoutThrow(r))
  <2>1. CASE ExecStep(r)
    BY <1>2, <2>1 DEF ExecStep, Load, Claim, Download, Score, Retry, FailForGood,
       TellFailed, PersistSilent, Persist, TellCompleted, RecordProgress, EnqueuePost
  <2>2. CASE TimeoutStep(r)
    BY <1>2, <2>2 DEF TimeoutStep, TimeoutRead, TimeoutRetry, TimeoutTellFailed
  <2>3. CASE RunFault(r)
    BY <2>3 DEF RunFault, EnqueuePostFails, StatementFails, Timeout, TimeoutStatementFails, Crash
  <2> QED BY <2>1, <2>2, <2>3
<1> QED BY <1>1, <1>2

\* What the API, the queue, time and the scheduler do to a row somebody holds.
OthersRow(s) ==
  /\ row'[s].attempts = row[s].attempts
  /\ row'[s].status = "NONE" => row[s].status = "NONE"
  /\ row'[s].status = "PROCESSING" =>
       /\ row[s].status = "PROCESSING" /\ row'[s].worker = row[s].worker
       /\ row'[s].expired => row[s].expired \/ \A r \in Runs : Live(r) => ~ Holds(r, s)

LEMMA QueueRow ==
  ASSUME TypeOK, ~ Slow, NEW x \in Submissions,
         ApiNext(x) \/ QueueNext(x) \/ EnqueueMissingPost(x), NEW s \in Submissions
  PROVE  OthersRow(s)
<1>a. row \in [Submissions -> RowType] /\ row[s] \in RowType /\ row[x] \in RowType
  BY DEF TypeOK
<1>1. CASE row' = row
  BY <1>1 DEF OthersRow
<1>2. ASSUME NEW a \in Recordings, Submit(x, a) PROVE OthersRow(s)
  BY <1>a, <1>2, RowHelperFields DEF Submit, OthersRow
<1>3. CASE RetryComesDue(x)
  BY <1>a, <1>3 DEF RetryComesDue, OthersRow, RowType
<1>4. CASE LeaseExpires(x)
  BY <1>a, <1>4 DEF LeaseExpires, LeaseRunsOut, OthersRow, RowType
<1>5. \/ row' = row \/ \E a \in Recordings : Submit(x, a)
      \/ RetryComesDue(x) \/ LeaseExpires(x)
  BY DEF ApiNext, SubmitEnqueue, SubmitEnqueueFails, QueueNext, TakeJob, BackoffElapses,
     Stalled, LockLost, LockGone, LeaseExpiresEarly, EnqueueMissingPost
<1> QED BY <1>1, <1>2, <1>3, <1>4, <1>5

LEMMA CycleRow ==
  ASSUME TypeOK, NEW c \in Schedulers,
         CycleStep(c) \/ CycleFails(c) \/ \E x \in Submissions : Snapshot(c, x),
         NEW s \in Submissions
  PROVE  /\ OthersRow(s)
         /\ row'[s] # row[s] => rec[c].pc \in {"reset", "fail"} /\ rec[c].sub = s
<1>a. row \in [Submissions -> RowType] /\ row[s] \in RowType
  BY DEF TypeOK
<1>1. CASE row' = row
  BY <1>1 DEF OthersRow
<1>2. CASE Reset(c)
  BY <1>a, <1>2, RowHelperFields DEF Reset, OthersRow
<1>3. CASE FailExhausted(c)
  BY <1>a, <1>3 DEF FailExhausted, Exhausted, OthersRow, RowType
<1>4. row' = row \/ Reset(c) \/ FailExhausted(c)
  BY DEF CycleStep, CycleFails, Snapshot, Inspect, Remove, Enqueue
<1> QED BY <1>1, <1>2, <1>3, <1>4

\* The others keep HoldInv.
LEMMA OthersHold ==
  ASSUME TypeOK, HoldInv, \A s \in Submissions : OthersRow(s),
         \A r \in Runs : \/ run'[r] = run[r]
                         \/ run[r] = IdleRun /\ \A s \in Submissions : ~ Holds(r, s)
  PROVE  HoldInv'
<1> SUFFICES ASSUME NEW r \in Runs, NEW s \in Submissions, Holds(r, s)'
             PROVE  /\ run'[r] # IdleRun => run'[r].sub = s
                    /\ ~ Early(r)'
                    /\ Live(r)' => run'[r].pc \in Holding /\ ~ row'[s].expired
  BY DEF HoldInv
<1>1. Holds(r, s)
  BY DEF Holds, OthersRow
<1>2. run'[r] = run[r]
  BY <1>1
<1>3. (Early(r)' <=> Early(r)) /\ (Live(r)' <=> Live(r))
  BY <1>2 DEF Early, Live, TimedOut
<1>4. Live(r) => ~ row'[s].expired
  BY <1>1 DEF HoldInv, OthersRow, Holds
<1> QED BY <1>1, <1>2, <1>3, <1>4 DEF HoldInv

\* A run's step keeps HoldInv.
LEMMA RunHolds ==
  ASSUME TypeOK, HoldInv, NEW q \in Runs, LeaseStep(q), run[q] # IdleRun
  PROVE  HoldInv'
<1> SUFFICES ASSUME NEW r \in Runs, NEW s \in Submissions, Holds(r, s)'
             PROVE  /\ run'[r] # IdleRun => run'[r].sub = s
                    /\ ~ Early(r)'
                    /\ Live(r)' => run'[r].pc \in Holding /\ ~ row'[s].expired
  BY DEF HoldInv
<1>a. row \in [Submissions -> RowType] /\ row[s] \in RowType
  BY DEF TypeOK
<1>m. Moved(q)
  BY DEF LeaseStep
<1>o. r # q => run'[r] = run[r] /\ (Early(r)' <=> Early(r)) /\ (Live(r)' <=> Live(r))
  BY <1>m DEF Moved, Early, Live, TimedOut
<1>1. CASE row'[s] = row[s]
  <2>1. Holds(r, s)
    BY <1>1 DEF Holds
  <2>2. CASE r # q
    BY <1>1, <1>o, <2>1, <2>2 DEF HoldInv
  <2>3. CASE r = q
    <3>1. run[r].sub = s /\ ~ Early(r) /\ (Live(r) => run[r].pc \in Holding /\ ~ row[s].expired)
      BY <2>1, <2>3 DEF HoldInv
    <3>2. run'[r] # IdleRun => run'[r].sub = s
      BY <1>m, <2>3, <3>1 DEF Moved
    <3>3. ~ Early(r)' /\ (Live(r)' => Live(r))
      BY <1>m, <2>3, <3>1 DEF Moved
    <3>4. Live(r)' => run'[r].pc \in Holding
      <4>1. CASE Stays(r, s)
        BY <3>1, <3>3, <4>1 DEF Stays
      <4>2. CASE Claims(r, s)
        BY <3>1, <4>2 DEF Claims, Early
      <4>3. CASE Writes(r, s)
        <5>1. row'[s].status # "PROCESSING"
          BY <1>a, <4>3 DEF Writes
        <5> QED BY <5>1 DEF Holds
      <4> QED BY <2>3, <3>1, <4>1, <4>2, <4>3 DEF LeaseStep
    <3> QED BY <1>1, <3>1, <3>2, <3>3, <3>4
  <2> QED BY <2>2, <2>3
<1>2. CASE row'[s] # row[s]
  <2>1. run[q].sub = s /\ (Claims(q, s) \/ Writes(q, s))
    BY <1>2, <1>a DEF LeaseStep, Stays, Claims, Writes
  <2>2. CASE Claims(q, s)
    <3>1. row'[s] = Claimed(s, q)
      BY <1>a, <2>2 DEF Claims
    <3>2. row'[s].worker = q /\ ~ row'[s].expired
      BY <1>a, <3>1 DEF Claimed, RowType
    <3>3. r = q
      BY <3>2 DEF Holds
    <3> QED BY <2>2, <3>2, <3>3 DEF Claims, Holding
  <2>3. CASE Writes(q, s)
    <3>1. row'[s].status # "PROCESSING"
      BY <1>a, <2>3 DEF Writes
    <3> QED BY <3>1 DEF Holds
  <2> QED BY <2>1, <2>2, <2>3
<1> QED BY <1>1, <1>2

\* The API, the queue and time keep AcceptInv and RecInv.
LEMMA QueueAccepts ==
  ASSUME TypeOK, ~ Slow, AcceptInv, RecInv, NEW x \in Submissions,
         ApiNext(x) \/ QueueNext(x) \/ EnqueueMissingPost(x)
  PROVE  AcceptInv' /\ RecInv'
<1>a. /\ row \in [Submissions -> RowType] /\ api \in [Submissions -> {"idle", "enqueue", "done"}]
      /\ job \in [Submissions -> JobType] /\ run \in [Runs -> RunType \cup {IdleRun}]
  BY DEF TypeOK
<1>c. /\ IdleRec.pc = "idle"
      /\ \A c \in Schedulers : rec[c] # IdleRec => rec[c].sub \in Submissions
  BY DEF TypeOK, RecType, IdleRec
<1>q. ASSUME api' = api, rec' = rec, job[x].state \in {"waiting", "active", "delayed"} \/ job' = job,
             \A s \in Submissions \ {x} : job'[s] = job[s],
             \A s \in Submissions : row'[s].status = row[s].status,
             \A r \in Runs : \/ run'[r] = run[r]
                             \/ run'[r].sub = x /\ job[x].state # "none"
      PROVE  AcceptInv' /\ RecInv'
  <2>1. AcceptInv'
    BY <1>q DEF AcceptInv
  <2>2. RecInv'
    BY <1>c, <1>q DEF RecInv
  <2> QED BY <2>1, <2>2
<1>1. ASSUME NEW a \in Recordings, Submit(x, a) PROVE AcceptInv' /\ RecInv'
  <2>1. /\ row[x].status = "NONE" /\ row'[x].status = "PENDING"
        /\ \A s \in Submissions \ {x} : row'[s] = row[s] /\ api'[s] = api[s]
        /\ api'[x] = "enqueue" /\ UNCHANGED <<job, run, rec>>
    BY <1>1, <1>a, RowHelperFields DEF Submit
  <2>2. AcceptInv'
    BY <2>1 DEF AcceptInv
  <2> QED BY <2>1, <2>2 DEF RecInv
<1>2. CASE SubmitEnqueue(x) \/ SubmitEnqueueFails(x)
  <2>1. /\ api[x] = "enqueue" /\ api'[x] = "done" /\ UNCHANGED <<row, run, rec>>
        /\ \A s \in Submissions \ {x} : job'[s] = job[s] /\ api'[s] = api[s]
    BY <1>2, <1>a DEF SubmitEnqueue, SubmitEnqueueFails
  <2>2. AcceptInv'
    BY <2>1 DEF AcceptInv
  <2>3. \A c \in Schedulers : rec[c] # IdleRec => rec[c].sub # x
    BY <2>1 DEF AcceptInv
  <2>4. RecInv'
    BY <1>c, <2>1, <2>3 DEF RecInv
  <2> QED BY <2>2, <2>4
<1>3. ASSUME NEW r \in Runs, TakeJob(r, x) PROVE AcceptInv' /\ RecInv'
  BY <1>3, <1>a, <1>q DEF TakeJob, IdleRun
<1>4. CASE BackoffElapses(x)
  BY <1>4, <1>a, <1>q DEF BackoffElapses
<1>5. ASSUME NEW state, Stalled(x, state) PROVE AcceptInv' /\ RecInv'
  BY <1>5, <1>a, <1>q DEF Stalled, LockGone
<1>6. CASE RetryComesDue(x) \/ LeaseExpires(x)
  <2>1. \A s \in Submissions : row'[s].status = row[s].status
    BY <1>6, <1>a DEF RetryComesDue, LeaseExpires, LeaseRunsOut, RowType
  <2> QED BY <1>6, <1>q, <2>1 DEF RetryComesDue, LeaseExpires, LeaseRunsOut
<1>7. CASE EnqueueMissingPost(x)
  BY <1>7, <1>q DEF EnqueueMissingPost
<1> QED
  BY <1>1, <1>2, <1>3, <1>4, <1>5, <1>6, <1>7
     DEF ApiNext, QueueNext, LockLost, LeaseExpiresEarly

\* A run keeps them.
LEMMA RunAccepts ==
  ASSUME TypeOK, AcceptInv, RecInv, NEW r \in Runs, ExecStep(r) \/ TimeoutStep(r) \/ RunFault(r)
  PROVE  AcceptInv' /\ RecInv'
<1>a. row \in [Submissions -> RowType] /\ run[r] # IdleRun /\ run[r].sub \in Submissions
  BY SteppingRun DEF TypeOK
<1> PICK z \in Submissions : z = run[r].sub
  BY <1>a
<1>1. api[z] = "done" /\ row[z].status # "NONE"
  BY <1>a DEF AcceptInv, TypeOK
<1>2. /\ api' = api /\ rec' = rec
      /\ \A x \in Submissions : job'[x] = job[x] \/ (x = z /\ job[x].state = "active")
  BY RunLeaves
<1>3. /\ \A s \in Submissions \ {z} : row'[s] = row[s]
      /\ row'[z].status # "NONE"
  <2>1. CASE Stays(r, z)
    BY <1>1, <2>1 DEF Stays
  <2>2. CASE Claims(r, z)
    BY <1>a, <2>2, RowHelperFields DEF Claims
  <2>3. CASE Writes(r, z)
    BY <1>a, <2>3 DEF Writes
  <2> QED BY RunLease, <2>1, <2>2, <2>3 DEF LeaseStep
<1>4. \A q \in Runs : run'[q] = run[q] \/ run'[q] = IdleRun \/ run'[q].sub = z
  BY RunLease DEF LeaseStep, Moved
<1>5. AcceptInv'
  BY <1>1, <1>2, <1>3, <1>4 DEF AcceptInv
<1>6. \A c \in Schedulers : rec[c].pc # "idle" => rec[c].sub \in Submissions
  BY DEF TypeOK, RecType, IdleRec
<1>7. RecInv'
  BY <1>2, <1>6 DEF RecInv
<1> QED BY <1>5, <1>7

\* The only scheduler keeps them.
LEMMA CycleAccepts ==
  ASSUME TypeOK, ~ Slow, \A c, d \in Schedulers : c = d, AcceptInv, RecInv,
         NEW c \in Schedulers,
         CycleStep(c) \/ CycleFails(c) \/ \E x \in Submissions : Snapshot(c, x)
  PROVE  AcceptInv' /\ RecInv'
<1>a. /\ row \in [Submissions -> RowType] /\ api \in [Submissions -> {"idle", "enqueue", "done"}]
      /\ job \in [Submissions -> JobType] /\ rec \in [Schedulers -> RecType \cup {IdleRec}]
  BY DEF TypeOK
<1>b. api' = api /\ run' = run
  BY DEF CycleStep, Inspect, Remove, Reset, Enqueue, FailExhausted, CycleFails, Snapshot
<1>c. \A d \in Schedulers : d = c
  OBVIOUS
<1>d. IdleRec.pc = "idle"
  BY DEF IdleRec
<1>1. ASSUME NEW x \in Submissions, Snapshot(c, x) PROVE AcceptInv' /\ RecInv'
  <2>1. api[x] = "done"
    BY <1>1, <1>a DEF Snapshot, Candidate, AcceptInv
  <2>2. rec'[c].sub = x /\ rec'[c].pc = "inspect" /\ row' = row /\ job' = job
    BY <1>1, <1>a DEF Snapshot
  <2>3. AcceptInv'
    BY <1>b, <1>c, <2>1, <2>2 DEF AcceptInv
  <2>4. RecInv'
    BY <1>c, <2>2 DEF RecInv
  <2> QED BY <2>3, <2>4
<1>2. CASE CycleStep(c) \/ CycleFails(c)
  <2>a. rec[c] # IdleRec /\ rec[c] \in RecType
    <3>1. rec[c].pc # "idle"
      BY <1>2 DEF CycleStep, Inspect, Remove, Reset, Enqueue, FailExhausted, CycleFails
    <3> QED BY <1>a, <1>d, <3>1
  <2>b. rec[c].sub \in Submissions
    BY <2>a DEF RecType
  <2> PICK z \in Submissions : z = rec[c].sub
    BY <2>b
  <2>1. api[z] = "done"
    BY <1>a, <2>a DEF AcceptInv
  <2>2. rec'[c] = IdleRec \/ rec'[c].sub = z
    BY <1>2, <1>a, <2>a DEF CycleStep, Inspect, Remove, Reset, Enqueue, FailExhausted, CycleFails,
       RecType
  <2>3. /\ \A s \in Submissions \ {z} : row'[s] = row[s] /\ job'[s] = job[s]
        /\ \A s \in Submissions : row'[s].status = "NONE" => row[s].status = "NONE"
    <3>1. \A s \in Submissions : row'[s].status = "NONE" => row[s].status = "NONE"
      BY <1>2, CycleRow DEF OthersRow
    <3>2. \A s \in Submissions \ {z} : row'[s] = row[s]
      BY <1>2, CycleRow
    <3>3. \A s \in Submissions \ {z} : job'[s] = job[s]
      BY <1>2, <1>a DEF CycleStep, Inspect, Remove, Reset, Enqueue, FailExhausted, CycleFails
    <3> QED BY <3>1, <3>2, <3>3
  <2>4. AcceptInv'
    BY <1>b, <1>c, <2>1, <2>2, <2>3 DEF AcceptInv
  <2>5. RecInv'
    <3>1. CASE Inspect(c)
      <4>1. job' = job
        BY <3>1 DEF Inspect
      <4>2. \/ rec'[c] = IdleRec
            \/ rec'[c].pc = Remedy(c, job[z].state) /\ rec'[c].sub = z
        BY <1>a, <2>a, <3>1 DEF Inspect, RecType
      <4>3. /\ Remedy(c, job[z].state) = "reset" => job[z].state = "none"
            /\ Remedy(c, job[z].state) = "fail" => job[z].state = "failed"
        BY DEF Remedy
      <4> QED BY <1>c, <1>d, <4>1, <4>2, <4>3 DEF RecInv
    <3>2. CASE Remove(c)
      <4>1. \/ rec'[c] = IdleRec
            \/ /\ rec'[c].pc \in {"reset", "enqueue"} /\ rec'[c].sub = z
               /\ job'[z].state = "none"
        BY <1>a, <2>a, <3>2 DEF Remove, RecType, NoJob
      <4> QED BY <1>c, <1>d, <4>1 DEF RecInv
    <3>3. CASE Reset(c) \/ Enqueue(c) \/ FailExhausted(c) \/ CycleFails(c)
      <4>1. rec'[c] = IdleRec \/ rec'[c].pc = "enqueue"
        BY <1>a, <2>a, <3>3 DEF Reset, Enqueue, FailExhausted, CycleFails, RecType
      <4> QED BY <1>c, <1>d, <4>1 DEF RecInv
    <3> QED BY <1>2, <3>1, <3>2, <3>3 DEF CycleStep
  <2> QED BY <2>4, <2>5
<1> QED BY <1>1, <1>2

\* Nobody but its holder changes the row of a live run.
KeepsLease ==
  \A r \in Runs, s \in Submissions :
    Live(r) /\ Holds(r, s) /\ run'[r] = run[r] =>
      row'[s].status = "PROCESSING" /\ row'[s].worker = r

\* LeaseInv is inductive, and every step keeps the leases.
LEMMA LeaseInvStep ==
  ASSUME TypeOK, ~ Slow, \A c, d \in Schedulers : c = d, LeaseInv, [Next]_vars
  PROVE  LeaseInv' /\ KeepsLease
<1>a. row \in [Submissions -> RowType]
  BY DEF TypeOK
<1>q. ASSUME UNCHANGED <<row, job, api, run, rec>> PROVE LeaseInv' /\ KeepsLease
  BY <1>q DEF LeaseInv, LockInv, HoldInv, AcceptInv, RecInv, Live, TimedOut, Holds, Early, KeepsLease
<1>1. CASE UNCHANGED vars
  BY <1>1, <1>q DEF vars
<1>2. ASSUME NEW x \in Submissions, ApiNext(x) \/ QueueNext(x) \/ EnqueueMissingPost(x)
      PROVE  LeaseInv' /\ KeepsLease
  <2>1. LockInv'
    BY <1>2, <1>q, OthersKeepLock DEF LeaseInv, EnqueueMissingPost
  <2>2. \A r \in Runs : \/ run'[r] = run[r]
                        \/ run[r] = IdleRun /\ \A s \in Submissions : ~ Holds(r, s)
    <3>1. ASSUME NEW r \in Runs, TakeJob(r, x)
          PROVE  \A q \in Runs : \/ run'[q] = run[q]
                                 \/ run[q] = IdleRun /\ \A s \in Submissions : ~ Holds(q, s)
      BY <3>1 DEF TakeJob, Unused, TypeOK
    <3>2. run' = run \/ \E r \in Runs : TakeJob(r, x)
      BY <1>2 DEF ApiNext, Submit, SubmitEnqueue, SubmitEnqueueFails, QueueNext,
         BackoffElapses, Stalled, LockLost, LockGone, RetryComesDue, LeaseExpires,
         LeaseExpiresEarly, LeaseRunsOut, EnqueueMissingPost
    <3> QED BY <3>1, <3>2
  <2>3. \A s \in Submissions : OthersRow(s)
    BY <1>2, QueueRow
  <2>4. HoldInv'
    BY <2>2, <2>3, OthersHold DEF LeaseInv
  <2>5. AcceptInv' /\ RecInv'
    BY <1>2, QueueAccepts DEF LeaseInv
  <2>6. KeepsLease
    <3>1. CASE UNCHANGED row
      BY <3>1 DEF KeepsLease, Holds
    <3>2. CASE RetryComesDue(x) \/ LeaseExpires(x) \/ \E a \in Recordings : Submit(x, a)
      BY <1>a, <3>2 DEF RetryComesDue, LeaseExpires, LeaseRunsOut, Submit, KeepsLease, Holds, RowType
    <3> QED
      BY <1>2, <3>1, <3>2 DEF ApiNext, SubmitEnqueue, SubmitEnqueueFails, QueueNext, TakeJob,
         BackoffElapses, Stalled, LockLost, LockGone, LeaseExpiresEarly, EnqueueMissingPost
  <2> QED BY <2>1, <2>4, <2>5, <2>6 DEF LeaseInv
<1>3. ASSUME NEW c \in Schedulers,
             CycleStep(c) \/ CycleFails(c) \/ \E x \in Submissions : Snapshot(c, x)
      PROVE  LeaseInv' /\ KeepsLease
  <2>1. LockInv'
    BY <1>3, CycleKeepsLock DEF LeaseInv
  <2>2. run' = run
    BY <1>3 DEF CycleStep, Inspect, Remove, Reset, Enqueue, FailExhausted, CycleFails, Snapshot
  <2>3. HoldInv'
    BY <1>3, <2>2, CycleRow, OthersHold DEF LeaseInv
  <2>4. AcceptInv' /\ RecInv'
    BY <1>3, CycleAccepts DEF LeaseInv
  <2>5. KeepsLease
    <3> SUFFICES ASSUME NEW r \in Runs, NEW s \in Submissions, Live(r), Holds(r, s)
                 PROVE  row'[s] = row[s]
      BY DEF KeepsLease, Holds
    <3>1. run[r].sub = s
      BY DEF LeaseInv, HoldInv, Live, Working, IdleRun
    <3>2. job[s].state = "active"
      BY <3>1 DEF LeaseInv, LockInv
    <3> QED BY <1>3, <3>2, CycleRow DEF LeaseInv, RecInv
  <2> QED BY <2>1, <2>3, <2>4, <2>5 DEF LeaseInv
<1>4. CASE Done
  BY <1>4, <1>q DEF Done, vars
<1>5. ASSUME NEW q \in Runs, ExecStep(q) \/ TimeoutStep(q) \/ RunFault(q)
      PROVE  LeaseInv' /\ KeepsLease
  <2>1. LeaseStep(q) /\ run[q] # IdleRun
    BY <1>5, RunLease, SteppingRun
  <2>2. LockInv'
    BY <1>5, RunKeepsLock DEF LeaseInv
  <2>3. HoldInv'
    BY <2>1, RunHolds DEF LeaseInv
  <2>4. AcceptInv' /\ RecInv'
    BY <1>5, RunAccepts DEF LeaseInv
  <2>5. KeepsLease
    <3> SUFFICES ASSUME NEW r \in Runs, NEW s \in Submissions, Live(r), Holds(r, s),
                        run'[r] = run[r]
                 PROVE  row'[s] = row[s]
      BY DEF KeepsLease, Holds
    <3>1. ~ Early(r) /\ ~ row[s].expired
      BY DEF LeaseInv, HoldInv
    <3>2. CASE Claims(q, run[q].sub)
      BY <1>a, <3>1, <3>2 DEF Claims, Claimable, Holds
    <3>3. CASE Writes(q, run[q].sub)
      BY <1>a, <3>3 DEF Writes, Holds
    <3> QED BY <2>1, <3>2, <3>3 DEF LeaseStep, Stays
  <2> QED BY <2>2, <2>3, <2>4, <2>5 DEF LeaseInv
<1> QED BY <1>1, <1>2, <1>3, <1>4, <1>5, [Next]_vars DEF Next

\* LeaseInv is an invariant.
LEMMA LeaseInvariant ==
  ASSUME ~ Slow, \A c, d \in Schedulers : c = d
  PROVE  Spec => []LeaseInv
<1>1. Init => LeaseInv
  BY DEF Init, LeaseInv, LockInv, HoldInv, AcceptInv, RecInv, Live, IdleRun, IdleRec, Working,
     Holds, NewRow, NoJob
<1>2. TypeOK /\ LeaseInv /\ [Next]_vars => LeaseInv'
  BY LeaseInvStep
<1> QED BY <1>1, <1>2, TypeCorrect, PTL DEF Spec

\* With one API instance running the scheduler, and as long as no step outlasts
\* its time limit, nobody takes the lease of a live run away, whatever crashes,
\* times out or is repaired. (Two instances do: SpeakingScoring_revoked.cfg.)
THEOREM LeaseKept == ~ Slow /\ (\A c, d \in Schedulers : c = d) => (Spec => LiveLeaseKept)
<1> SUFFICES ASSUME ~ Slow, \A c, d \in Schedulers : c = d PROVE Spec => LiveLeaseKept
  OBVIOUS
<1>1. TypeOK /\ LeaseInv /\ [Next]_vars =>
        [\A r \in Runs, s \in Submissions :
           Live(r) /\ Holds(r, s) /\ run'[r] = run[r] =>
             row'[s].status = "PROCESSING" /\ row'[s].worker = r]_vars
  BY LeaseInvStep DEF KeepsLease
<1> QED BY <1>1, LeaseInvariant, TypeCorrect, PTL DEF LiveLeaseKept, Spec

-----------------------------------------------------------------------------
(* Claims beyond MAX_ATTEMPTS are paid for by faults.                        *)

\* A run that timed out before its claim still claims, though nobody will hear
\* of its outcome: its timeout pays for that claim.
Stale == {r \in Runs : Early(r) /\ TimedOut(r)}
\* The faults not yet set aside for such a claim.
Slack == faults - Cardinality(Stale)

SlackInv == IsFiniteSet(Stale) /\ Slack >= 0

\* Some live run holds s.
HeldLive(s) == \E r \in Runs : Live(r) /\ Holds(r, s)

\* A row that can still be claimed is below the bound, any other within it; a
\* live run knows how often its row was claimed, save for claims paid for.
BoundInv ==
  /\ SlackInv
  /\ \A s \in Submissions :
       /\ row[s].attempts <= MaxAttempts + Slack
       /\ ~ Settled(s) /\ ~ HeldLive(s) => row[s].attempts < MaxAttempts + Slack
  /\ \A r \in Runs, s \in Submissions : Live(r) /\ run[r].sub = s =>
       /\ run[r].pc = "claim" => row[s].attempts + 1 <= run[r].attempt + Slack
       /\ Holds(r, s) => row[s].attempts <= run[r].attempt + Slack

\* How Slack follows faults and Stale.
LEMMA SlackMoves ==
  ASSUME TypeOK, TypeOK', SlackInv
  PROVE  /\ Slack \in Int
         /\ Stale' \subseteq Stale =>
              /\ IsFiniteSet(Stale') /\ Slack' \in Int
              /\ Slack' - Slack >= faults' - faults
         /\ \A r \in Runs : r \in Stale /\ Stale' \subseteq Stale \ {r} =>
              Slack' - Slack >= faults' - faults + 1
         /\ \A r \in Runs : Stale' \subseteq Stale \cup {r} =>
              /\ IsFiniteSet(Stale') /\ Slack' \in Int
              /\ Slack' - Slack >= faults' - faults - 1
<1>a. faults \in Int /\ faults' \in Int
  BY FaultsAssumption DEF TypeOK
<1>b. IsFiniteSet(Stale) /\ Cardinality(Stale) \in Nat
  BY FS_CardinalityType DEF SlackInv
<1>1. Slack \in Int
  BY <1>a, <1>b DEF Slack
<1>2. ASSUME NEW S, IsFiniteSet(S), Stale' \subseteq S
      PROVE  /\ IsFiniteSet(Stale') /\ Cardinality(Stale') \in Nat
             /\ Cardinality(Stale') <= Cardinality(S)
  <2>1. IsFiniteSet(Stale') /\ Cardinality(Stale') <= Cardinality(S)
    BY <1>2, FS_Subset
  <2> QED BY <2>1, FS_CardinalityType
<1>3. ASSUME Stale' \subseteq Stale
      PROVE  /\ IsFiniteSet(Stale') /\ Slack' \in Int
             /\ Slack' - Slack >= faults' - faults
  <2>1. /\ IsFiniteSet(Stale') /\ Cardinality(Stale') \in Nat
        /\ Cardinality(Stale') <= Cardinality(Stale)
    BY <1>b, <1>2, <1>3
  <2> QED BY <1>a, <1>b, <2>1 DEF Slack
<1>4. ASSUME NEW r \in Runs, r \in Stale, Stale' \subseteq Stale \ {r}
      PROVE  Slack' - Slack >= faults' - faults + 1
  <2>1. IsFiniteSet(Stale \ {r}) /\ Cardinality(Stale \ {r}) = Cardinality(Stale) - 1
    BY <1>b, <1>4, FS_RemoveElement
  <2>2. Cardinality(Stale') \in Nat /\ Cardinality(Stale') <= Cardinality(Stale) - 1
    BY <1>2, <1>4, <2>1
  <2> QED BY <1>a, <1>b, <2>2 DEF Slack
<1>5. ASSUME NEW r \in Runs, Stale' \subseteq Stale \cup {r}
      PROVE  /\ IsFiniteSet(Stale') /\ Slack' \in Int
             /\ Slack' - Slack >= faults' - faults - 1
  <2>0. /\ IsFiniteSet(Stale \cup {r})
        /\ Cardinality(Stale \cup {r})
             = IF r \in Stale THEN Cardinality(Stale) ELSE Cardinality(Stale) + 1
    BY <1>b, FS_AddElement
  <2>1. /\ IsFiniteSet(Stale \cup {r})
        /\ Cardinality(Stale \cup {r}) <= Cardinality(Stale) + 1
    BY <1>b, <2>0
  <2>2. Cardinality(Stale \cup {r}) \in Nat
    BY <2>1, FS_CardinalityType
  <2>3. /\ IsFiniteSet(Stale') /\ Cardinality(Stale') \in Nat
        /\ Cardinality(Stale') <= Cardinality(Stale \cup {r})
    BY <1>2, <1>5, <2>1
  <2> QED BY <1>a, <1>b, <2>1, <2>2, <2>3 DEF Slack
<1> QED BY <1>1, <1>3, <1>4, <1>5

LEMMA SlackGrows ==
  ASSUME NEW slack \in Int, NEW slack1 \in Int, NEW f \in Int, NEW f1 \in Int,
         slack1 - slack >= f1 - f, f1 = f \/ f1 = f + 1
  PROVE  slack1 >= slack /\ (f1 = f + 1 => slack1 >= slack + 1)
OBVIOUS

\* A run's step never spends what is set aside.
LEMMA RunSlack ==
  ASSUME TypeOK, TypeOK', SlackInv, NEW r \in Runs, LeaseStep(r), run[r] # IdleRun,
         Writes(r, run[r].sub) => ~ Early(r)
  PROVE  /\ SlackInv' /\ Slack \in Int /\ Slack' \in Int /\ Slack' >= Slack
         /\ ~ Early(r) /\ faults' = faults + 1 => Slack' >= Slack + 1
         /\ Claims(r, run[r].sub) /\ TimedOut(r) => Slack' >= Slack + 1
<1>a. faults \in Int /\ faults' \in Int /\ (faults' = faults \/ faults' = faults + 1)
  BY FaultsAssumption DEF TypeOK, LeaseStep, Moved
<1>1. \A q \in Runs \ {r} : q \in Stale' <=> q \in Stale
  BY DEF LeaseStep, Moved, Stale, Early, TimedOut
<1>2. Stale \subseteq Runs /\ Stale' \subseteq Runs
  BY DEF Stale
<1>3. ~ Early(r) => r \notin Stale'
  BY DEF LeaseStep, Moved, Stale
<1>4. CASE r \notin Stale'
  <2>1. Stale' \subseteq Stale
    BY <1>1, <1>2, <1>4
  <2>2. /\ IsFiniteSet(Stale') /\ Slack \in Int /\ Slack' \in Int
        /\ Slack' - Slack >= faults' - faults
    BY <2>1, SlackMoves
  <2>3. ASSUME Claims(r, run[r].sub), TimedOut(r) PROVE Slack' >= Slack + 1
    <3>1. r \in Stale /\ Stale' \subseteq Stale \ {r} /\ faults' = faults
      BY <1>4, <2>1, <2>3 DEF Stale, Claims, Early
    <3>2. Slack' - Slack >= faults' - faults + 1
      BY <3>1, SlackMoves
    <3>3. faults' - faults + 1 = 1
      BY <1>a, <3>1
    <3>4. Slack \in Int /\ Slack' \in Int
      BY <2>2
    <3> QED BY <3>2, <3>3, <3>4
  <2>4. Slack' >= Slack /\ (faults' = faults + 1 => Slack' >= Slack + 1)
    <3>1. Slack \in Int /\ Slack' \in Int /\ Slack' - Slack >= faults' - faults
      BY <2>2
    <3> QED BY <1>a, <3>1, SlackGrows
  <2>5. Slack' >= 0
    BY <2>2, <2>4 DEF SlackInv
  <2> QED BY <2>2, <2>3, <2>4, <2>5 DEF SlackInv
<1>5. CASE r \in Stale'
  <2>1. Early(r) /\ Early(r)' /\ TimedOut(r)'
    BY <1>3, <1>5 DEF Stale
  <2>2. ~ Claims(r, run[r].sub) /\ ~ Writes(r, run[r].sub)
    BY <2>1 DEF Claims
  <2>3. r \in Stale \/ faults' = faults + 1
    BY <2>1, <2>2 DEF LeaseStep, Stays, Stale
  <2>4. CASE r \in Stale
    <3>1. Stale' \subseteq Stale
      BY <1>1, <1>2, <2>4
    <3> QED BY <1>a, <2>1, <2>2, <3>1, SlackMoves DEF SlackInv
  <2>5. CASE faults' = faults + 1
    <3>1. Stale' \subseteq Stale \cup {r}
      BY <1>1, <1>2
    <3> QED BY <1>a, <2>1, <2>2, <2>5, <3>1, SlackMoves DEF SlackInv
  <2> QED BY <2>3, <2>4, <2>5
<1> QED BY <1>4, <1>5

\* A run's step keeps the bound.
LEMMA RunBound ==
  ASSUME TypeOK, TypeOK', LeaseInv, BoundInv, NEW r \in Runs, LeaseStep(r), run[r] # IdleRun
  PROVE  BoundInv'
<1>a. /\ row \in [Submissions -> RowType]
      /\ \A s \in Submissions : row[s].attempts \in Nat /\ row'[s].attempts \in Nat
  BY DEF TypeOK, RowType
<1>b. MaxAttempts \in Nat
  BY AttemptsAssumption
<1>c. /\ \A q \in Runs : Live(q) => run[q].attempt \in Nat
      /\ \A q \in Runs : Live(q)' => run'[q].attempt \in Nat
  <2>1. \A q \in Runs : Live(q) => run[q] # IdleRun
    BY DEF Live, Working, IdleRun
  <2>2. \A q \in Runs : Live(q)' => run'[q] # IdleRun
    BY DEF Live, Working, IdleRun
  <2> QED BY <2>1, <2>2 DEF TypeOK, RunType
<1>h. \A s \in Submissions : Holds(r, s) =>
         run[r].sub = s /\ ~ Early(r) /\ (Live(r) => run[r].pc \in Holding)
  BY DEF LeaseInv, HoldInv
<1>s. /\ SlackInv' /\ Slack \in Int /\ Slack' \in Int /\ Slack' >= Slack /\ Slack >= 0
      /\ ~ Early(r) /\ faults' = faults + 1 => Slack' >= Slack + 1
      /\ Claims(r, run[r].sub) /\ TimedOut(r) => Slack' >= Slack + 1
  <2>1. run[r].sub \in Submissions /\ Writes(r, run[r].sub) => ~ Early(r)
    BY <1>h DEF Writes
  <2>2. run[r].sub \in Submissions
    BY DEF TypeOK, RunType
  <2> QED BY <2>1, <2>2, RunSlack DEF BoundInv, SlackInv
<1>o. \A q \in Runs \ {r} : run'[q] = run[q] /\ (Live(q)' <=> Live(q))
  BY DEF LeaseStep, Moved, Live, TimedOut
<1> PICK z \in Submissions : z = run[r].sub
  BY DEF TypeOK, RunType
<1>l. Live(r)' => Live(r) /\ run'[r].sub = z
  BY DEF LeaseStep, Moved, Live, Working, IdleRun
<1> SUFFICES /\ \A s \in Submissions :
                  /\ row'[s].attempts <= MaxAttempts + Slack'
                  /\ ~ Settled(s)' /\ ~ HeldLive(s)' => row'[s].attempts < MaxAttempts + Slack'
             /\ \A q \in Runs, s \in Submissions : Live(q)' /\ run'[q].sub = s =>
                  /\ run'[q].pc = "claim" => row'[s].attempts + 1 <= run'[q].attempt + Slack'
                  /\ Holds(q, s)' => row'[s].attempts <= run'[q].attempt + Slack'
  BY <1>s DEF BoundInv
\* What follows for a row the step leaves alone.
<1>1. ASSUME NEW s \in Submissions, row'[s] = row[s]
      PROVE  /\ row'[s].attempts <= MaxAttempts + Slack'
             /\ ~ Settled(s)' /\ (HeldLive(s) => HeldLive(s)') =>
                  (~ HeldLive(s)' => row'[s].attempts < MaxAttempts + Slack')
             /\ \A q \in Runs \ {r} : Live(q)' /\ run'[q].sub = s =>
                  /\ run'[q].pc = "claim" => row'[s].attempts + 1 <= run'[q].attempt + Slack'
                  /\ Holds(q, s)' => row'[s].attempts <= run'[q].attempt + Slack'
  <2>1. row'[s].attempts <= MaxAttempts + Slack'
    BY <1>1, <1>a, <1>b, <1>s DEF BoundInv
  <2>2. ~ Settled(s)' /\ ~ HeldLive(s) => row'[s].attempts < MaxAttempts + Slack'
    <3>1. Settled(s)' <=> Settled(s)
      BY <1>1 DEF Settled
    <3> QED BY <1>1, <1>a, <1>b, <1>s, <3>1 DEF BoundInv
  <2>3. ASSUME NEW q \in Runs \ {r}, Live(q)', run'[q].sub = s
        PROVE  /\ run'[q].pc = "claim" => row'[s].attempts + 1 <= run'[q].attempt + Slack'
               /\ Holds(q, s)' => row'[s].attempts <= run'[q].attempt + Slack'
    <3>1. Live(q) /\ run'[q] = run[q] /\ (Holds(q, s)' <=> Holds(q, s))
      BY <1>1, <1>o, <2>3 DEF Holds
    <3>2. /\ run[q].pc = "claim" => row[s].attempts + 1 <= run[q].attempt + Slack
          /\ Holds(q, s) => row[s].attempts <= run[q].attempt + Slack
      BY <2>3, <3>1 DEF BoundInv
    <3> QED BY <1>1, <1>a, <1>c, <1>s, <2>3, <3>1, <3>2
  <2> QED BY <2>1, <2>2, <2>3
\* Another row's live holder is another run.
<1>2. ASSUME NEW s \in Submissions, row'[s] = row[s], HeldLive(s), ~ HeldLive(s)'
      PROVE  s = z /\ Live(r) /\ Holds(r, s) /\ ~ Live(r)'
  <2>1. PICK q \in Runs : Live(q) /\ Holds(q, s)
    BY <1>2 DEF HeldLive
  <2>2. Holds(q, s)'
    BY <1>2, <2>1 DEF Holds
  <2>3. ~ Live(q)' /\ q = r
    BY <1>2, <1>o, <2>1, <2>2 DEF HeldLive
  <2> QED BY <1>h, <2>1, <2>3
<1>3. CASE Stays(r, z)
  <2>1. ASSUME NEW s \in Submissions
        PROVE  ~ Settled(s)' /\ ~ HeldLive(s)' => row'[s].attempts < MaxAttempts + Slack'
    <3>1. row'[s] = row[s]
      BY <1>3 DEF Stays
    <3>2. CASE HeldLive(s) /\ ~ HeldLive(s)'
      <4>1. s = z /\ Live(r) /\ Holds(r, s) /\ ~ Live(r)'
        BY <1>2, <3>1, <3>2
      <4>2. faults' = faults + 1 /\ ~ Early(r)
        BY <1>3, <1>h, <4>1 DEF Stays
      <4> QED BY <1>a, <1>b, <1>s, <3>1, <4>2 DEF BoundInv
    <3> QED BY <1>1, <3>1, <3>2
  <2>2. ASSUME Live(r)' PROVE
          /\ run'[r].pc = "claim" => row'[z].attempts + 1 <= run'[r].attempt + Slack'
          /\ Holds(r, z)' => row'[z].attempts <= run'[r].attempt + Slack'
    <3>1. row'[z] = row[z] /\ Live(r) /\ (Holds(r, z)' <=> Holds(r, z))
      BY <1>3, <1>l, <2>2 DEF Stays, Holds
    <3>2. run'[r].pc = "claim" => run'[r].attempt = row[z].attempts + 1
      BY <1>3, <2>2 DEF Stays
    <3>3. Holds(r, z) => run'[r].attempt = run[r].attempt /\ row[z].attempts <= run[r].attempt + Slack
      BY <1>3, <1>h, <2>2, <3>1 DEF Stays, BoundInv
    <3> QED BY <1>a, <1>c, <1>s, <2>2, <3>1, <3>2, <3>3
  <2> QED BY <1>1, <1>3, <1>l, <2>1, <2>2 DEF Stays
<1>4. CASE Claims(r, z)
  <2>a. /\ \A s \in Submissions \ {z} : row'[s] = row[s]
        /\ row'[z].attempts = row[z].attempts + 1 /\ row'[z].status = "PROCESSING"
        /\ row'[z].worker = r
    BY <1>4, <1>a DEF Claims, Claimed, RowType
  <2>b. ~ Settled(z) /\ ~ HeldLive(z)
    BY <1>4 DEF Claims, Claimable, Settled, HeldLive, Holds, LeaseInv, HoldInv
  <2>c. row[z].attempts < MaxAttempts + Slack
    BY <2>b DEF BoundInv
  <2>d. run[r].pc = "claim" /\ Early(r) /\ run'[r].sub = z /\ run'[r].attempt = run[r].attempt
    BY <1>4 DEF Claims, Early
  <2>e. TimedOut(r) \/ (Live(r) /\ Live(r)' /\ run'[r].pc = "download")
    BY <1>4 DEF Claims
  <2>f. Holds(r, z)'
    BY <2>a DEF Holds
  <2>1. row'[z].attempts <= MaxAttempts + Slack'
    BY <1>a, <1>b, <1>s, <2>a, <2>c
  <2>2. ~ HeldLive(z)' => row'[z].attempts < MaxAttempts + Slack'
    <3>1. CASE TimedOut(r)
      BY <1>4, <1>a, <1>b, <1>s, <2>a, <2>c, <3>1
    <3>2. CASE Live(r)'
      BY <2>f, <3>2 DEF HeldLive
    <3> QED BY <2>e, <3>1, <3>2
  <2>3. ASSUME NEW s \in Submissions \ {z}
        PROVE  ~ Settled(s)' /\ ~ HeldLive(s)' => row'[s].attempts < MaxAttempts + Slack'
    BY <1>1, <1>2, <2>3, <2>a
  <2>4. ASSUME NEW q \in Runs, Live(q)', run'[q].sub = z
        PROVE  /\ run'[q].pc = "claim" => row'[z].attempts + 1 <= run'[q].attempt + Slack'
               /\ Holds(q, z)' => row'[z].attempts <= run'[q].attempt + Slack'
    <3>1. CASE q = r
      <4>1. Live(r) /\ run'[r].pc = "download" /\ ~ TimedOut(r)
        BY <1>4, <1>l, <2>4, <2>e, <3>1 DEF Claims, Live
      <4>2. row[z].attempts + 1 <= run[r].attempt + Slack
        BY <2>d, <4>1 DEF BoundInv
      <4> QED BY <1>a, <1>c, <1>s, <2>a, <2>d, <2>4, <3>1, <4>1, <4>2
    <3>2. CASE q # r
      <4>1. Live(q) /\ run'[q] = run[q] /\ ~ Holds(q, z)'
        BY <1>o, <2>4, <2>a, <3>2 DEF Holds
      <4>2. TimedOut(r)
        BY <2>4, <2>e, <3>2, <4>1 DEF LeaseInv, LockInv
      <4>3. run[q].pc = "claim" => row[z].attempts + 1 <= run[q].attempt + Slack
        BY <2>4, <4>1 DEF BoundInv
      <4>4. Slack' >= Slack + 1
        BY <1>4, <1>s, <4>2
      <4> QED BY <1>a, <1>c, <1>s, <2>4, <2>a, <4>1, <4>3, <4>4
    <3> QED BY <3>1, <3>2
  <2> QED BY <1>1, <1>l, <2>a, <2>1, <2>2, <2>3, <2>4
<1>5. CASE Writes(r, z)
  <2>a. /\ \A s \in Submissions \ {z} : row'[s] = row[s]
        /\ row'[z].attempts = row[z].attempts
        /\ row'[z].status \in {"PENDING", "COMPLETED", "FAILED"}
        /\ row'[z].status = "PENDING" /\ Live(r) => run[r].attempt < MaxAttempts
    BY <1>5, <1>a DEF Writes
  <2>b. Holds(r, z) /\ ~ Early(r)
    BY <1>5, <1>h DEF Writes
  <2>1. row'[z].attempts <= MaxAttempts + Slack'
    BY <1>a, <1>b, <1>s, <2>a DEF BoundInv
  <2>2. ~ Settled(z)' => row'[z].attempts < MaxAttempts + Slack'
    <3>1. CASE Live(r) /\ row'[z].status = "PENDING"
      <4>1. row[z].attempts <= run[r].attempt + Slack
        BY <2>b, <3>1 DEF BoundInv
      <4> QED BY <1>a, <1>b, <1>c, <1>s, <2>a, <3>1, <4>1
    <3>2. CASE ~ Live(r)
      <4>1. ~ Settled(z) /\ ~ HeldLive(z)
        BY <2>b, <3>2 DEF Settled, HeldLive, Holds
      <4> QED BY <1>a, <1>b, <1>s, <2>a, <4>1 DEF BoundInv
    <3> QED BY <2>a, <3>1, <3>2 DEF Settled
  <2>3. ASSUME NEW s \in Submissions \ {z}
        PROVE  ~ Settled(s)' /\ ~ HeldLive(s)' => row'[s].attempts < MaxAttempts + Slack'
    BY <1>1, <1>2, <2>3, <2>a
  <2>4. ASSUME NEW q \in Runs, Live(q)', run'[q].sub = z
        PROVE  /\ run'[q].pc = "claim" => row'[z].attempts + 1 <= run'[q].attempt + Slack'
               /\ Holds(q, z)' => row'[z].attempts <= run'[q].attempt + Slack'
    <3>1. ~ Holds(q, z)'
      BY <2>a DEF Holds
    <3>2. CASE q = r
      BY <1>5, <2>4, <2>b, <3>1, <3>2 DEF LeaseStep, Moved, Early
    <3>3. CASE q # r
      <4>1. Live(q) /\ run'[q] = run[q]
        BY <1>o, <2>4, <3>3
      <4>2. run[q].pc = "claim" => row[z].attempts + 1 <= run[q].attempt + Slack
        BY <2>4, <4>1 DEF BoundInv
      <4> QED BY <1>a, <1>c, <1>s, <2>4, <2>a, <3>1, <4>1, <4>2
    <3> QED BY <3>2, <3>3
  <2> QED BY <1>1, <1>l, <2>a, <2>1, <2>2, <2>3, <2>4
<1> QED BY <1>3, <1>4, <1>5 DEF LeaseStep

\* The others keep the bound.
LEMMA OthersBound ==
  ASSUME TypeOK, TypeOK', LeaseInv, BoundInv, KeepsLease, \A s \in Submissions : OthersRow(s),
         \A s \in Submissions : Settled(s) => Settled(s)',
         faults' = faults \/ faults' = faults + 1,
         \A r \in Runs : \/ run'[r] = run[r]
                         \/ /\ run[r] = IdleRun /\ \A s \in Submissions : ~ Holds(r, s)
                            /\ run'[r].pc = "load" /\ ~ TimedOut(r)'
  PROVE  BoundInv'
<1>a. /\ \A s \in Submissions : row[s].attempts \in Nat /\ row'[s].attempts \in Nat
      /\ MaxAttempts \in Nat /\ faults \in Int /\ faults' \in Int
  BY AttemptsAssumption, FaultsAssumption DEF TypeOK, RowType
<1>c. \A q \in Runs : Live(q) => run[q].attempt \in Nat
  <2>1. \A q \in Runs : Live(q) => run[q] # IdleRun
    BY DEF Live, Working, IdleRun
  <2> QED BY <2>1 DEF TypeOK, RunType
<1>1. Stale' \subseteq Stale
  BY DEF Stale, Early, TimedOut
<1>2. /\ IsFiniteSet(Stale') /\ Slack \in Int /\ Slack' \in Int
      /\ Slack' - Slack >= faults' - faults
  BY <1>1, SlackMoves DEF BoundInv
<1>3. Slack' >= Slack /\ Slack >= 0
  <2>1. Slack >= 0
    BY DEF BoundInv, SlackInv
  <2>2. faults \in Int /\ faults' \in Int
    BY <1>a
  <2> QED BY <1>2, <2>1, <2>2, SlackGrows
<1>4. SlackInv'
  BY <1>2, <1>3 DEF SlackInv
<1>5. ASSUME NEW s \in Submissions PROVE row'[s].attempts <= MaxAttempts + Slack'
  BY <1>a, <1>2, <1>3 DEF OthersRow, BoundInv
<1>6. ASSUME NEW s \in Submissions, ~ Settled(s)', ~ HeldLive(s)'
      PROVE  row'[s].attempts < MaxAttempts + Slack'
  <2>1. ~ Settled(s)
    BY <1>6
  <2>2. ~ HeldLive(s)
    <3> SUFFICES ASSUME NEW r \in Runs, Live(r), Holds(r, s) PROVE HeldLive(s)'
      BY <1>6 DEF HeldLive
    <3>1. run'[r] = run[r]
      OBVIOUS
    <3>2. Holds(r, s)' /\ Live(r)'
      BY <3>1 DEF KeepsLease, Holds, Live, TimedOut
    <3> QED BY <3>2 DEF HeldLive
  <2>3. row[s].attempts < MaxAttempts + Slack
    BY <2>1, <2>2 DEF BoundInv
  <2> QED BY <1>a, <1>2, <1>3, <2>3 DEF OthersRow
<1>7. ASSUME NEW r \in Runs, NEW s \in Submissions, Live(r)', run'[r].sub = s
      PROVE  /\ run'[r].pc = "claim" => row'[s].attempts + 1 <= run'[r].attempt + Slack'
             /\ Holds(r, s)' => row'[s].attempts <= run'[r].attempt + Slack'
  <2>1. Holds(r, s)' => Holds(r, s)
    BY DEF Holds, OthersRow
  <2>2. CASE run'[r] = run[r]
    <3>1. Live(r)
      BY <1>7, <2>2 DEF Live, TimedOut
    <3>2. /\ run[r].pc = "claim" => row[s].attempts + 1 <= run[r].attempt + Slack
          /\ Holds(r, s) => row[s].attempts <= run[r].attempt + Slack
      BY <1>7, <2>2, <3>1 DEF BoundInv
    <3>3. row'[s].attempts = row[s].attempts
      BY DEF OthersRow
    <3> QED BY <1>a, <1>c, <1>2, <1>3, <2>1, <2>2, <3>1, <3>2, <3>3
  <2>3. CASE run'[r] # run[r]
    BY <2>1, <2>3
  <2> QED BY <2>2, <2>3
<1> QED BY <1>4, <1>5, <1>6, <1>7 DEF BoundInv

\* BoundInv is inductive, given LeaseInv.
LEMMA BoundStep ==
  ASSUME TypeOK, TypeOK', ~ Slow, \A c, d \in Schedulers : c = d, LeaseInv, BoundInv, [Next]_vars
  PROVE  BoundInv'
<1>a. faults \in Nat
  BY FaultsAssumption DEF TypeOK
<1>k. KeepsLease /\ \A s \in Submissions : Settled(s) => Settled(s)'
  BY LeaseInvStep, SettledStays
<1>q. ASSUME UNCHANGED <<row, run, faults>> PROVE BoundInv'
  BY <1>q DEF BoundInv, SlackInv, Slack, Stale, HeldLive, Settled, Live, TimedOut, Holds, Early
<1>1. CASE UNCHANGED vars
  BY <1>1, <1>q DEF vars
<1>2. ASSUME NEW x \in Submissions, ApiNext(x) \/ QueueNext(x) \/ EnqueueMissingPost(x)
      PROVE  BoundInv'
  <2>1. faults' = faults \/ faults' = faults + 1
    BY <1>2 DEF ApiNext, Submit, SubmitEnqueue, SubmitEnqueueFails, QueueNext, TakeJob,
       BackoffElapses, Stalled, LockLost, LockGone, RetryComesDue, LeaseExpires,
       LeaseExpiresEarly, LeaseRunsOut, EnqueueMissingPost, Fault
  <2>2. \A r \in Runs : \/ run'[r] = run[r]
                        \/ /\ run[r] = IdleRun /\ \A s \in Submissions : ~ Holds(r, s)
                           /\ run'[r].pc = "load" /\ ~ TimedOut(r)'
    <3>1. ASSUME NEW r \in Runs, TakeJob(r, x), NEW q \in Runs
          PROVE  \/ run'[q] = run[q]
                 \/ /\ run[q] = IdleRun /\ \A s \in Submissions : ~ Holds(q, s)
                    /\ run'[q].pc = "load" /\ ~ TimedOut(q)'
      <4>1. run'[q] = IF q = r THEN [IdleRun EXCEPT !.pc = "load", !.sub = x] ELSE run[q]
        BY <3>1 DEF TakeJob, TypeOK
      <4> QED BY <3>1, <4>1 DEF TakeJob, Unused, IdleRun, TimedOut
    <3>2. run' = run \/ \E r \in Runs : TakeJob(r, x)
      BY <1>2 DEF ApiNext, Submit, SubmitEnqueue, SubmitEnqueueFails, QueueNext,
         BackoffElapses, Stalled, LockLost, LockGone, RetryComesDue, LeaseExpires,
         LeaseExpiresEarly, LeaseRunsOut, EnqueueMissingPost
    <3> QED BY <3>1, <3>2
  <2> QED BY <1>2, <1>k, <2>1, <2>2, QueueRow, OthersBound
<1>3. ASSUME NEW c \in Schedulers,
             CycleStep(c) \/ CycleFails(c) \/ \E x \in Submissions : Snapshot(c, x)
      PROVE  BoundInv'
  <2>1. run' = run /\ (faults' = faults \/ faults' = faults + 1)
    BY <1>3 DEF CycleStep, Inspect, Remove, Reset, Enqueue, FailExhausted, CycleFails, Snapshot,
       Fault
  <2> QED BY <1>3, <1>k, <2>1, CycleRow, OthersBound
<1>4. CASE Done
  BY <1>4, <1>q DEF Done, vars
<1>5. ASSUME NEW r \in Runs, ExecStep(r) \/ TimeoutStep(r) \/ RunFault(r)
      PROVE  BoundInv'
  BY <1>5, RunLease, SteppingRun, RunBound
<1> QED BY <1>1, <1>2, <1>3, <1>4, <1>5, [Next]_vars DEF Next

\* With one API instance running the scheduler, and as long as no step outlasts
\* its time limit, a submission is claimed more often than MAX_ATTEMPTS only as
\* often as something crashed, timed out or failed.
THEOREM ClaimsBounded == ~ Slow /\ (\A c, d \in Schedulers : c = d) => (Spec => []AttemptsBounded)
<1> SUFFICES ASSUME ~ Slow, \A c, d \in Schedulers : c = d PROVE Spec => []AttemptsBounded
  OBVIOUS
<1>1. Init => BoundInv
  <2> SUFFICES ASSUME Init PROVE BoundInv
    OBVIOUS
  <2>1. Stale = {}
    BY DEF Init, Stale, Early, IdleRun
  <2>2. IsFiniteSet(Stale) /\ Cardinality(Stale) = 0
    BY <2>1, FS_EmptySet
  <2>3. Slack = 0
    BY <2>2 DEF Slack, Init
  <2>4. \A r \in Runs : ~ Live(r)
    BY DEF Init, Live, IdleRun, Working
  <2>5. \A s \in Submissions : row[s].attempts = 0
    BY DEF Init, NewRow
  <2> QED BY <2>2, <2>3, <2>4, <2>5, AttemptsAssumption DEF BoundInv, SlackInv
<1>2. TypeOK /\ TypeOK' /\ LeaseInv /\ BoundInv /\ [Next]_vars => BoundInv'
  BY BoundStep
<1>3. TypeOK /\ BoundInv => AttemptsBounded
  <2> SUFFICES ASSUME TypeOK, BoundInv, NEW s \in Submissions
               PROVE  row[s].attempts <= MaxAttempts + faults
    BY DEF AttemptsBounded
  <2>1. Cardinality(Stale) \in Nat
    BY FS_CardinalityType DEF BoundInv, SlackInv
  <2>2. faults \in Nat /\ MaxAttempts \in Nat /\ row[s].attempts \in Nat
    BY FaultsAssumption, AttemptsAssumption DEF TypeOK, RowType
  <2>3. row[s].attempts <= MaxAttempts + (faults - Cardinality(Stale))
    BY DEF BoundInv, Slack
  <2> QED BY <2>1, <2>2, <2>3
<1> QED BY <1>1, <1>2, <1>3, LeaseInvariant, TypeCorrect, PTL DEF Spec

-----------------------------------------------------------------------------
(* The contract. A row counts only by what it tells of the verdict, a run    *)
(* only by what it owes its submission.                                      *)

Kept(s) ==
  row'[s].audio = row[s].audio /\ Verdict(s)' = Verdict(s) /\ Asked(s)' = Asked(s)

Wanted(score) == IF score = "positive" THEN PostKinds ELSE {"FEEDBACK"}

\* What each write makes of the verdict and of what was asked for.
LEMMA RowViews ==
  ASSUME NEW s \in Submissions, row[s] \in RowType
  PROVE  /\ \A a \in Audio : row'[s] = Accepted(s, a) =>
              Verdict(s)' = "open" /\ Asked(s)' = Asked(s)
         /\ (\/ \E r \in Runs : row'[s] = Claimed(s, r)
             \/ row'[s] = ToRetry(s) \/ row'[s] = Recovered(s)) =>
              row'[s].audio = row[s].audio /\ Verdict(s)' = "open" /\ Asked(s)' = Asked(s)
         /\ \A e \in Errors \ {"RETRY_EXHAUSTED"} : row'[s] = FailedWith(s, e) =>
              row'[s].audio = row[s].audio /\ Verdict(s)' = "failed" /\ Asked(s)' = Asked(s)
         /\ row'[s] = Exhausted(s) =>
              row'[s].audio = row[s].audio /\ Verdict(s)' = "givenUp" /\ Asked(s)' = Asked(s)
         /\ row'[s] = Silent(s) =>
              /\ row'[s].audio = row[s].audio
              /\ Asked(s) = {} => Verdict(s)' = "silent" /\ Asked(s)' = {}
         /\ \A x \in Scores : row'[s] = Scored(s, x) =>
              row'[s].audio = row[s].audio /\ Verdict(s)' = "scored" /\ Asked(s)' = Wanted(x)
         /\ (row'[s] = [row[s] EXCEPT !.due = TRUE] \/ row'[s] = [row[s] EXCEPT !.expired = TRUE]) =>
              Kept(s)
         /\ row'[s] = row[s] => Kept(s)
<1>1. ASSUME NEW a \in Audio, row'[s] = Accepted(s, a)
      PROVE  Verdict(s)' = "open" /\ Asked(s)' = Asked(s)
  BY <1>1 DEF RowType, Accepted, Verdict, Asked
<1>2. ASSUME \/ \E r \in Runs : row'[s] = Claimed(s, r)
             \/ row'[s] = ToRetry(s) \/ row'[s] = Recovered(s)
      PROVE  row'[s].audio = row[s].audio /\ Verdict(s)' = "open" /\ Asked(s)' = Asked(s)
  <2>1. /\ row'[s].audio = row[s].audio /\ row'[s].status \in {"PENDING", "PROCESSING"}
        /\ row'[s].feedback = row[s].feedback /\ row'[s].reward = row[s].reward
    <3>1. CASE \E r \in Runs : row'[s] = Claimed(s, r)
      BY <3>1 DEF RowType, Claimed
    <3>2. CASE row'[s] = ToRetry(s)
      BY <3>2 DEF RowType, ToRetry
    <3>3. CASE row'[s] = Recovered(s)
      BY <3>3 DEF RowType, Recovered
    <3> QED
      BY <1>2, <3>1, <3>2, <3>3
  <2>2. Verdict(s)' = "open"
    BY <2>1 DEF Verdict
  <2>3. Asked(s)' = Asked(s)
    BY <2>1 DEF Asked
  <2> QED
    BY <2>1, <2>2, <2>3
<1>3. ASSUME NEW e \in Errors \ {"RETRY_EXHAUSTED"}, row'[s] = FailedWith(s, e)
      PROVE  row'[s].audio = row[s].audio /\ Verdict(s)' = "failed" /\ Asked(s)' = Asked(s)
  BY <1>3 DEF RowType, FailedWith, Verdict, Asked
<1>4. ASSUME row'[s] = Exhausted(s)
      PROVE  row'[s].audio = row[s].audio /\ Verdict(s)' = "givenUp" /\ Asked(s)' = Asked(s)
  BY <1>4 DEF RowType, Exhausted, Verdict, Asked
<1>5. ASSUME row'[s] = Silent(s)
      PROVE  /\ row'[s].audio = row[s].audio
             /\ Asked(s) = {} => Verdict(s)' = "silent" /\ Asked(s)' = {}
  <2>1. Asked(s) = {} => row[s].feedback # "PENDING"
    BY DEF Asked, PostKinds
  <2> QED
    BY <1>5, <2>1 DEF RowType, Silent, Verdict, Asked
<1>6. ASSUME NEW x \in Scores, row'[s] = Scored(s, x)
      PROVE  row'[s].audio = row[s].audio /\ Verdict(s)' = "scored" /\ Asked(s)' = Wanted(x)
  <2>1. /\ row'[s].audio = row[s].audio /\ row'[s].status = "COMPLETED"
        /\ row'[s].feedback = "PENDING"
        /\ row'[s].reward = IF x = "positive" THEN "PENDING" ELSE "NOT_REQUESTED"
    BY <1>6 DEF RowType, Scored
  <2>2. Verdict(s)' = "scored"
    BY <2>1 DEF Verdict
  <2>3. Asked(s)' = Wanted(x)
    BY <2>1 DEF Asked, Wanted, PostKinds
  <2> QED
    BY <2>1, <2>2, <2>3
<1>7. ASSUME row'[s] = [row[s] EXCEPT !.due = TRUE] \/ row'[s] = [row[s] EXCEPT !.expired = TRUE]
      PROVE  Kept(s)
  BY <1>7 DEF RowType, Kept, Verdict, Asked
<1>8. ASSUME row'[s] = row[s] PROVE Kept(s)
  BY <1>8 DEF Kept, Verdict, Asked
<1> QED
  BY <1>1, <1>2, <1>3, <1>4, <1>5, <1>6, <1>7, <1>8

\* What each verdict says of the row.
LEMMA VerdictValues ==
  ASSUME NEW s \in Submissions, row[s] \in RowType
  PROVE  /\ Verdict(s) \in {"none", "open", "scored", "silent", "failed", "givenUp"}
         /\ Verdict(s) = "none" <=> row[s].status = "NONE"
         /\ Verdict(s) = "open" <=> row[s].status \in {"PENDING", "PROCESSING"}
         /\ Verdict(s) = "scored" <=> row[s].status = "COMPLETED" /\ row[s].feedback = "PENDING"
  BY DEF RowType, Statuses, Verdict

\* Who works on a submission, or means to, knows it from its row.
Known(s) ==
  \/ job[s].state # "none" \/ api[s] # "idle"
  \/ \E r \in Runs : run[r].sub = s
  \/ \E c \in Schedulers : rec[c].sub = s

KnownInv == \A s \in Submissions : Known(s) => row[s].status # "NONE"

\* A run's step makes nothing known that was not.
LEMMA RunStaysKnown ==
  ASSUME TypeOK, NEW r \in Runs, ExecStep(r) \/ TimeoutStep(r) \/ RunFault(r),
         NEW s \in Submissions, Known(s)'
  PROVE  Known(s)
<1>1. \A q \in Runs : run'[q] = IdleRun \/ run'[q].sub = run[q].sub
  BY RunLease, SteppingRun DEF LeaseStep, Moved
<1>2. \A q \in Runs : run'[q].sub = s => run[q].sub = s
  BY <1>1, NullAssumption DEF IdleRun
<1> QED
  BY <1>2, RunLeaves DEF Known

\* Nor does anybody else's, but of a row that exists.
LEMMA OtherKnown ==
  ASSUME TypeOK, KnownInv, Next,
         ~ \E r \in Runs : ExecStep(r) \/ TimeoutStep(r) \/ RunFault(r),
         NEW s \in Submissions, Known(s)'
  PROVE  Known(s) \/ row[s].status # "NONE" \/ row'[s].status # "NONE"
<1>a. /\ job \in [Submissions -> JobType] /\ row \in [Submissions -> RowType]
      /\ api \in [Submissions -> {"idle", "enqueue", "done"}]
      /\ run \in [Runs -> RunType \cup {IdleRun}] /\ rec \in [Schedulers -> RecType \cup {IdleRec}]
  BY DEF TypeOK
<1>n. IdleRun.sub # s /\ IdleRec.sub # s
  BY NullAssumption DEF IdleRun, IdleRec
<1>1. ASSUME NEW x \in Submissions, ApiNext(x)
      PROVE  Known(s) \/ row'[s].status # "NONE"
  <2>1. CASE x = s
    <3>1. ASSUME NEW a \in Recordings, Submit(x, a) PROVE row'[s].status # "NONE"
      BY <1>a, <2>1, <3>1, RowHelperFields DEF Submit
    <3>2. SubmitEnqueue(x) \/ SubmitEnqueueFails(x) => Known(s)
      BY <2>1 DEF SubmitEnqueue, SubmitEnqueueFails, Known
    <3> QED
      BY <1>1, <3>1, <3>2 DEF ApiNext
  <2>2. CASE x # s
    BY <1>1, <1>a, <2>2 DEF ApiNext, Submit, SubmitEnqueue, SubmitEnqueueFails, Known
  <2> QED
    BY <2>1, <2>2
<1>2. ASSUME NEW x \in Submissions, QueueNext(x)
      PROVE  Known(s)
  <2>1. ASSUME NEW r \in Runs, TakeJob(r, x) PROVE Known(s)
    <3>1. CASE x = s
      BY <2>1, <3>1 DEF TakeJob, Known
    <3>2. CASE x # s
      <4>1. \A q \in Runs : run'[q].sub = s => run[q].sub = s
        BY <1>a, <2>1, <3>2 DEF TakeJob, IdleRun
      <4>2. job'[s] = job[s] /\ api' = api /\ rec' = rec
        BY <1>a, <2>1, <3>2 DEF TakeJob
      <4> QED
        BY <4>1, <4>2 DEF Known
    <3> QED
      BY <3>1, <3>2
  <2>2. ASSUME BackoffElapses(x) \/ \E state \in {"waiting", "failed"} : Stalled(x, state) \/ LockLost(x, state)
        PROVE  Known(s)
    <3>1. job[x].state # "none" /\ api' = api /\ rec' = rec /\ run' = run
      BY <2>2 DEF BackoffElapses, Stalled, LockLost, LockGone
    <3>2. x = s \/ job'[s] = job[s]
      BY <1>a, <2>2 DEF BackoffElapses, Stalled, LockLost, LockGone
    <3> QED
      BY <3>1, <3>2 DEF Known
  <2>3. ASSUME RetryComesDue(x) \/ LeaseExpires(x) \/ LeaseExpiresEarly(x)
        PROVE  Known(s)
    BY <2>3 DEF RetryComesDue, LeaseExpires, LeaseExpiresEarly, LeaseRunsOut, Known
  <2> QED
    BY <1>2, <2>1, <2>2, <2>3 DEF QueueNext
<1>3. ASSUME NEW x \in Submissions, EnqueueMissingPost(x) PROVE Known(s)
  BY <1>3 DEF EnqueueMissingPost, Known
<1>4. ASSUME NEW c \in Schedulers, CycleStep(c) \/ CycleFails(c)
      PROVE  Known(s)
  <2>1. api' = api /\ run' = run
    BY <1>4 DEF CycleStep, CycleFails, Inspect, Remove, Reset, Enqueue, FailExhausted
  <2>2. \A d \in Schedulers : rec'[d].sub = s => rec[d].sub = s
    BY <1>4, <1>a, <1>n DEF CycleStep, CycleFails, Inspect, Remove, Reset, Enqueue, FailExhausted,
       IdleRec, RecType
  <2>3. job'[s].state # "none" => job[s].state # "none" \/ rec[c].sub = s
    BY <1>4, <1>a DEF CycleStep, CycleFails, Inspect, Remove, Reset, Enqueue, FailExhausted, NoJob
  <2> QED
    BY <2>1, <2>2, <2>3 DEF Known
<1>5. ASSUME NEW c \in Schedulers, NEW x \in Submissions, Snapshot(c, x)
      PROVE  Known(s) \/ row[s].status # "NONE"
  <2>1. CASE x = s
    BY <1>5, <2>1 DEF Snapshot, Candidate
  <2>2. CASE x # s
    BY <1>5, <1>a, <2>2 DEF Snapshot, Known
  <2> QED
    BY <2>1, <2>2
<1>6. Done => Known(s)
  BY DEF Done, vars, Known
<1> QED
  BY <1>1, <1>2, <1>3, <1>4, <1>5, <1>6 DEF Next

\* Whoever works on a submission goes on working on a row that exists.
LEMMA KnownStep == TypeOK /\ KnownInv /\ [Next]_vars => KnownInv'
<1> SUFFICES ASSUME TypeOK, KnownInv, [Next]_vars, NEW s \in Submissions, Known(s)'
             PROVE  row'[s].status # "NONE"
  BY DEF KnownInv
<1>1. CASE UNCHANGED vars
  BY <1>1 DEF vars, KnownInv, Known
<1>2. CASE Next
  <2>1. row[s].status # "NONE" => row'[s].status # "NONE"
    <3>1. GivenUp(s) => row'[s].status = "FAILED"
      BY DEF GivenUp, Exhausted, TypeOK, RowType
    <3> QED
      BY <1>2, <3>1, RowMoves DEF Moves
  <2>2. CASE \E r \in Runs : ExecStep(r) \/ TimeoutStep(r) \/ RunFault(r)
    BY <2>1, <2>2, RunStaysKnown DEF KnownInv
  <2>3. CASE ~ \E r \in Runs : ExecStep(r) \/ TimeoutStep(r) \/ RunFault(r)
    BY <1>2, <2>1, <2>3, OtherKnown DEF KnownInv
  <2> QED
    BY <2>2, <2>3
<1> QED
  BY <1>1, <1>2

-----------------------------------------------------------------------------
(* What a run owes the submission it has judged.                             *)

\* Where a run stands once it has judged.
After == {"tell", "tellFailed", "progress", "enqueuePost"}

Owes(r) ==
  CASE run[r].pc = "tell"        -> "tellCompleted"
    [] run[r].pc = "progress"    -> "count"
    [] run[r].pc = "enqueuePost" -> "handOver"
    [] run[r].pc = "tellFailed" \/ (run[r].pc \notin After /\ run[r].timeout = "tellFailed")
                                 -> "tellFailed"
    [] OTHER                     -> "nothing"

\* Who owes has judged, alone, and the row still asks for what its score did.
OwesFor(r, s) ==
  /\ run[r].pc = "silent" => row[s].audio = "silent"
  /\ run[r].pc \in {"score", "persist"} => row[s].audio = "speech"
  /\ Owes(r) # "nothing" =>
       /\ Verdict(s) \notin {"none", "open"}
       /\ ~ (run[r].pc \in After /\ run[r].timeout = "tellFailed")
       /\ \A q \in Runs \ {r} : run[q].sub = s => Owes(q) = "nothing"
  /\ run[r].pc = "tell" /\ row[s].audio = "silent" => Asked(s) = {}
  /\ (run[r].pc = "tell" /\ row[s].audio # "silent") \/ run[r].pc \in {"progress", "enqueuePost"} =>
       Asked(s) = Wanted(run[r].score)

OweInv ==
  \A s \in Submissions :
    /\ Verdict(s) \in {"none", "open"} => Asked(s) = {}
    /\ Asked(s) \in {{}, {"FEEDBACK"}, PostKinds}
    /\ \A r \in Runs : run[r].sub = s => OwesFor(r, s)

\* The effect of a run's step on its submission: it passes nothing on, ...
Passes(r, s) ==
  /\ Kept(s) /\ sent' = sent /\ post' = post
  /\ run'[r].pc \in After => run'[r].pc = run[r].pc /\ run'[r].score = run[r].score
  /\ run'[r].timeout = "tellFailed" => run[r].timeout = "tellFailed"
\* ... it judges it under its lease, ...
Judges(r, s) ==
  /\ Verdict(s) = "open" /\ row'[s].audio = row[s].audio /\ sent' = sent /\ post' = post
  /\ \/ /\ run'[r].pc = "tell" /\ run'[r].timeout = run[r].timeout
        /\ \/ /\ run[r].pc = "persist" /\ Verdict(s)' = "scored"
              /\ Asked(s)' = Wanted(run[r].score) /\ run'[r].score = run[r].score
           \/ /\ run[r].pc = "silent"
              /\ Asked(s) = {} => Verdict(s)' = "silent" /\ Asked(s)' = {}
     \/ /\ Verdict(s)' = "failed" /\ Asked(s)' = Asked(s)
        /\ \/ run'[r].pc = "tellFailed" /\ run'[r].timeout = run[r].timeout
           \/ run'[r].pc = run[r].pc /\ run'[r].timeout = "tellFailed"
\* ... or it does what it owes.
Pays(r, s) ==
  /\ Kept(s)
  /\ \/ /\ run[r].pc = "tell" /\ sent' = [sent EXCEPT ![s].completed = @ + 1] /\ post' = post
        /\ run'[r].timeout = run[r].timeout /\ run'[r].score = run[r].score
        /\ run'[r].pc = IF row[s].audio = "silent" THEN "return" ELSE "progress"
     \/ /\ run[r].pc = "tellFailed" /\ sent' = [sent EXCEPT ![s].failed = @ + 1] /\ post' = post
        /\ run'[r].timeout = run[r].timeout /\ run'[r].pc \in Ends
     \/ /\ run[r].timeout = "tellFailed" /\ sent' = [sent EXCEPT ![s].failed = @ + 1] /\ post' = post
        /\ run'[r].timeout = "throw" /\ run'[r].pc = run[r].pc /\ run'[r].score = run[r].score
     \/ /\ run[r].pc = "progress" /\ post' = post
        /\ \E n \in {0, 1} : sent' = [sent EXCEPT ![s].progress = @ + n]
        /\ run'[r].timeout = run[r].timeout /\ run'[r].score = run[r].score
        /\ run'[r].pc = "enqueuePost"
     \/ /\ run[r].pc = "enqueuePost" /\ sent' = sent
        /\ \E kinds \in SUBSET Wanted(run[r].score) : post' = [post EXCEPT ![s] = @ \cup kinds]
        /\ run'[r].timeout = run[r].timeout /\ run'[r].pc = "return"

FollowStep(r, s) ==
  /\ \A q \in Runs \ {r} : run'[q] = run[q]
  /\ run'[r] = IdleRun \/ run'[r].sub = s
  /\ \A x \in Submissions \ {s} : row'[x] = row[x]
  /\ run'[r].pc = "silent" => run[r].pc = "silent" \/ row[s].audio = "silent"
  /\ run'[r].pc \in {"score", "persist"} =>
       run[r].pc \in {"score", "persist"} \/ row[s].audio = "speech"
  /\ Passes(r, s) \/ Judges(r, s) \/ Pays(r, s)

\* The writes of a run that leave its score alone.
LEMMA ScoreKept ==
  ASSUME TypeOK, NEW r \in Runs, run[r] \in RunType
  PROVE  /\ \A v : Goto(r, v) => run'[r].score = run[r].score
         /\ \A v, w : run' = [run EXCEPT ![r].pc = v, ![r].after = w] =>
              run'[r].score = run[r].score
         /\ \A v, w : (\/ run' = [run EXCEPT ![r].timeout = v]
                       \/ run' = [run EXCEPT ![r].timeout = v, ![r].timeoutAttempt = w]) =>
              run'[r].score = run[r].score
<1>1. run \in [Runs -> RunType \cup {IdleRun}]
  BY DEF TypeOK
<1>2. ASSUME NEW v, Goto(r, v) PROVE run'[r].score = run[r].score
  BY <1>1, <1>2 DEF Goto, RunType
<1>3. ASSUME NEW v, NEW w, run' = [run EXCEPT ![r].pc = v, ![r].after = w]
      PROVE  run'[r].score = run[r].score
  BY <1>1, <1>3 DEF RunType
<1>4. ASSUME NEW v, NEW w,
             \/ run' = [run EXCEPT ![r].timeout = v]
             \/ run' = [run EXCEPT ![r].timeout = v, ![r].timeoutAttempt = w]
      PROVE  run'[r].score = run[r].score
  BY <1>1, <1>4 DEF RunType
<1> QED
  BY <1>2, <1>3, <1>4

\* Every step of a run is one of the three.
LEMMA RunFollows ==
  ASSUME TypeOK, NEW r \in Runs, ExecStep(r) \/ TimeoutStep(r) \/ RunFault(r),
         NEW s \in Submissions, s = run[r].sub
  PROVE  FollowStep(r, s)
<1>a. /\ run \in [Runs -> RunType \cup {IdleRun}] /\ row \in [Submissions -> RowType]
      /\ row[s] \in RowType /\ run[r] \in RunType
  BY SteppingRun DEF TypeOK
<1>k. row' = row => Kept(s)
  BY <1>a, RowViews
<1>i. ASSUME run' = [run EXCEPT ![r] = IdleRun], row' = row, sent' = sent, post' = post
      PROVE  FollowStep(r, s)
  <2>1. run'[r] = IdleRun /\ \A q \in Runs \ {r} : run'[q] = run[q]
    BY <1>a, <1>i
  <2> QED
    BY <1>i, <1>k, <2>1 DEF FollowStep, Passes, After, IdleRun
<1>g. ASSUME NEW v, Goto(r, v)
      PROVE  GoesOn(r, v, run[r].timeout) /\ run'[r].score = run[r].score
  BY <1>a, <1>g, RunForms, ScoreKept DEF GoesOn
<1>m. ASSUME NEW v, GoesOn(r, v, run[r].timeout), v \notin After,
             v = "silent" => row[s].audio = "silent",
             v \in {"score", "persist"} => run[r].pc = "score" \/ row[s].audio = "speech",
             Kept(s), \A x \in Submissions \ {s} : row'[x] = row[x], sent' = sent, post' = post
      PROVE  FollowStep(r, s)
  BY <1>m DEF FollowStep, Passes, GoesOn, OnlyRun
<1>t. ASSUME NEW v, GoesOn(r, run[r].pc, v), run'[r].score = run[r].score, v # "tellFailed",
             Kept(s), \A x \in Submissions \ {s} : row'[x] = row[x], sent' = sent, post' = post
      PROVE  FollowStep(r, s)
  BY <1>t DEF FollowStep, Passes, GoesOn, OnlyRun
<1>h. Holds(r, s) => Verdict(s) = "open"
  BY <1>a, VerdictValues DEF Holds
<1>1. CASE Load(r)
  <2>1. PICK v \in {"return", "claim"} : run' = [run EXCEPT ![r].pc = v, ![r].attempt = row[s].attempts + 1]
    BY <1>1 DEF Load
  <2>2. GoesOn(r, v, run[r].timeout)
    BY <1>a, <2>1, RunForms DEF GoesOn
  <2>3. row' = row /\ sent' = sent /\ post' = post
    BY <1>1 DEF Load
  <2> QED
    BY <1>k, <1>m, <2>2, <2>3 DEF After
<1>2. CASE Claim(r)
  <2>1. sent' = sent /\ post' = post /\ \E v \in {"throw", "download", "return"} : Goto(r, v)
    BY <1>2 DEF Claim
  <2>2. CASE Claimable(s)
    <3>1. row'[s] = Claimed(s, r) /\ \A x \in Submissions \ {s} : row'[x] = row[x]
      BY <1>2, <1>a, <2>2 DEF Claim
    <3>2. Verdict(s) = "open"
      BY <1>a, <2>2, VerdictValues DEF Claimable
    <3>3. Kept(s)
      BY <1>a, <3>1, <3>2, RowViews DEF Kept
    <3> QED
      BY <1>g, <1>m, <2>1, <3>1, <3>3 DEF After
  <2>3. CASE ~ Claimable(s)
    <3>1. row' = row
      BY <1>2, <2>3 DEF Claim
    <3> QED
      BY <1>g, <1>k, <1>m, <2>1, <3>1 DEF After
  <2> QED
    BY <2>2, <2>3
<1>3. CASE Download(r)
  <2>1. /\ row' = row /\ sent' = sent /\ post' = post
        /\ \E v \in {"missing", "retry", "throw", "score", "silent", "invalid"} :
             /\ Goto(r, v)
             /\ v = "silent" => row[s].audio = "silent"
             /\ v = "score" => row[s].audio = "speech"
    BY <1>3 DEF Download
  <2> QED
    BY <1>g, <1>k, <1>m, <2>1 DEF After
<1>4. CASE Score(r)
  <2>1. /\ row' = row /\ sent' = sent /\ post' = post /\ run[r].pc = "score"
        /\ \/ \E v \in {"retry", "throw"} : Goto(r, v)
           \/ \E x : run' = [run EXCEPT ![r].pc = "persist", ![r].score = x]
    BY <1>4 DEF Score
  <2>2. ASSUME NEW x, run' = [run EXCEPT ![r].pc = "persist", ![r].score = x]
        PROVE  GoesOn(r, "persist", run[r].timeout)
    BY <1>a, <2>2, RunForms DEF GoesOn
  <2> QED
    BY <1>g, <1>k, <1>m, <2>1, <2>2 DEF After
<1>j. ASSUME NEW v, GoesOn(r, v, run[r].timeout), v \in {"tell", "tellFailed"},
             row'[s].audio = row[s].audio, \A x \in Submissions \ {s} : row'[x] = row[x],
             Judges(r, s)
      PROVE  FollowStep(r, s)
  BY <1>j DEF FollowStep, GoesOn, OnlyRun
<1>5. CASE Retry(r)
  <2>1. CASE Holds(r, s) /\ run[r].attempt >= MaxAttempts
    <3>1. /\ row'[s] = FailedWith(s, "TRANSIENT") /\ \A x \in Submissions \ {s} : row'[x] = row[x]
          /\ run' = [run EXCEPT ![r].pc = "tellFailed", ![r].after = "throw"]
          /\ sent' = sent /\ post' = post
      BY <1>5, <1>a, <2>1 DEF Retry, AfterTransientFailure
    <3>2. GoesOn(r, "tellFailed", run[r].timeout)
      BY <1>a, <3>1, RunForms DEF GoesOn
    <3>3. row'[s].audio = row[s].audio /\ Verdict(s)' = "failed" /\ Asked(s)' = Asked(s)
      BY <1>a, <3>1, RowViews DEF Errors
    <3>4. Judges(r, s)
      BY <1>h, <2>1, <3>1, <3>2, <3>3 DEF Judges, GoesOn
    <3> QED
      BY <1>j, <3>1, <3>2, <3>3, <3>4
  <2>2. CASE Holds(r, s) /\ ~ run[r].attempt >= MaxAttempts
    <3>1. /\ row'[s] = ToRetry(s) /\ \A x \in Submissions \ {s} : row'[x] = row[x]
          /\ run' = [run EXCEPT ![r].pc = "throw", ![r].after = "throw"]
          /\ sent' = sent /\ post' = post
      BY <1>5, <1>a, <2>2 DEF Retry, AfterTransientFailure
    <3>2. GoesOn(r, "throw", run[r].timeout)
      BY <1>a, <3>1, RunForms DEF GoesOn
    <3>3. Kept(s)
      BY <1>a, <1>h, <2>2, <3>1, RowViews DEF Kept
    <3> QED
      BY <1>m, <3>1, <3>2, <3>3 DEF After
  <2>3. CASE ~ Holds(r, s)
    BY <1>5, <1>g, <1>k, <1>m, <2>3 DEF Retry, After
  <2> QED
    BY <2>1, <2>2, <2>3
<1>6. CASE FailForGood(r)
  <2>1. CASE Holds(r, s)
    <3>1. /\ run' = [run EXCEPT ![r].pc = "tellFailed", ![r].after = "unrecoverable"]
          /\ row'[s] = FailedWith(s, "AUDIO_OBJECT_NOT_FOUND") \/ row'[s] = FailedWith(s, "INVALID_AUDIO")
          /\ \A x \in Submissions \ {s} : row'[x] = row[x]
          /\ sent' = sent /\ post' = post
      BY <1>6, <1>a, <2>1 DEF FailForGood
    <3>2. GoesOn(r, "tellFailed", run[r].timeout)
      BY <1>a, <3>1, RunForms DEF GoesOn
    <3>3. row'[s].audio = row[s].audio /\ Verdict(s)' = "failed" /\ Asked(s)' = Asked(s)
      BY <1>a, <3>1, RowViews DEF Errors
    <3>4. Judges(r, s)
      BY <1>h, <2>1, <3>1, <3>2, <3>3 DEF Judges, GoesOn
    <3> QED
      BY <1>j, <3>1, <3>2, <3>3, <3>4
  <2>2. CASE ~ Holds(r, s)
    BY <1>6, <1>g, <1>k, <1>m, <2>2 DEF FailForGood, After
  <2> QED
    BY <2>1, <2>2
<1>7. CASE PersistSilent(r)
  <2>1. CASE Holds(r, s)
    <3>1. /\ Goto(r, "tell") /\ row'[s] = Silent(s) /\ run[r].pc = "silent"
          /\ \A x \in Submissions \ {s} : row'[x] = row[x]
          /\ sent' = sent /\ post' = post
      BY <1>7, <1>a, <2>1 DEF PersistSilent
    <3>2. GoesOn(r, "tell", run[r].timeout)
      BY <1>g, <3>1
    <3>3. /\ row'[s].audio = row[s].audio
          /\ Asked(s) = {} => Verdict(s)' = "silent" /\ Asked(s)' = {}
      BY <1>a, <3>1, RowViews
    <3>4. Judges(r, s)
      BY <1>h, <2>1, <3>1, <3>2, <3>3 DEF Judges, GoesOn
    <3> QED
      BY <1>j, <3>1, <3>2, <3>3, <3>4
  <2>2. CASE ~ Holds(r, s)
    BY <1>7, <1>g, <1>k, <1>m, <2>2 DEF PersistSilent, After
  <2> QED
    BY <2>1, <2>2
<1>8. CASE Persist(r)
  <2>1. CASE Holds(r, s)
    <3>1. /\ Goto(r, "tell") /\ row'[s] = Scored(s, run[r].score) /\ run[r].pc = "persist"
          /\ \A x \in Submissions \ {s} : row'[x] = row[x]
          /\ sent' = sent /\ post' = post
      BY <1>8, <1>a, <2>1 DEF Persist
    <3>2. GoesOn(r, "tell", run[r].timeout) /\ run'[r].score = run[r].score
      BY <1>g, <3>1
    <3>3. PICK x \in Scores : x = run[r].score
      BY <1>a DEF RunType
    <3>r. row'[s] = Scored(s, x)
      BY <3>1, <3>3
    <3>4. /\ row'[s].audio = row[s].audio /\ Verdict(s)' = "scored"
          /\ Asked(s)' = Wanted(run[r].score)
      BY <1>a, <3>3, <3>r, RowViews
    <3>5. Judges(r, s)
      BY <1>h, <2>1, <3>1, <3>2, <3>4 DEF Judges, GoesOn
    <3> QED
      BY <1>j, <3>1, <3>2, <3>4, <3>5
  <2>2. CASE ~ Holds(r, s)
    BY <1>8, <1>g, <1>k, <1>m, <2>2 DEF Persist, After
  <2> QED
    BY <2>1, <2>2
<1>p. ASSUME NEW v, NEW t, GoesOn(r, v, t), v \notin {"silent", "score", "persist"} \/ v = run[r].pc,
             row' = row, Pays(r, s)
      PROVE  FollowStep(r, s)
  BY <1>p DEF FollowStep, GoesOn, OnlyRun
<1>9. CASE TellFailed(r)
  <2>1. /\ Goto(r, run[r].after) /\ run[r].after \in Ends /\ run[r].pc = "tellFailed"
        /\ row' = row /\ post' = post /\ sent' = [sent EXCEPT ![s].failed = @ + 1]
    BY <1>9, <1>a DEF TellFailed, RunType
  <2>2. GoesOn(r, run[r].after, run[r].timeout)
    BY <1>g, <2>1
  <2>3. Pays(r, s)
    BY <1>k, <2>1, <2>2 DEF Pays, GoesOn
  <2> QED
    BY <1>p, <2>1, <2>2, <2>3 DEF Ends
<1>10. CASE TellCompleted(r)
  <2>1. PICK v : v = IF row[s].audio = "silent" THEN "return" ELSE "progress"
    OBVIOUS
  <2>2. /\ Goto(r, v) /\ run[r].pc = "tell"
        /\ row' = row /\ post' = post /\ sent' = [sent EXCEPT ![s].completed = @ + 1]
    BY <1>10, <2>1 DEF TellCompleted
  <2>3. GoesOn(r, v, run[r].timeout) /\ run'[r].score = run[r].score
    BY <1>g, <2>2
  <2>4. Pays(r, s)
    BY <1>k, <2>1, <2>2, <2>3 DEF Pays, GoesOn
  <2> QED
    BY <1>p, <2>1, <2>2, <2>3, <2>4
<1>11. CASE RecordProgress(r)
  <2>1. /\ Goto(r, "enqueuePost") /\ run[r].pc = "progress" /\ row' = row /\ post' = post
    BY <1>11 DEF RecordProgress
  <2>2. \E n \in {0, 1} : sent' = [sent EXCEPT ![s].progress = @ + n]
    <3>0. sent \in [Submissions -> SentType]
      BY DEF TypeOK
    <3>1. CASE run[r].score = "null"
      <4>1. [sent[s] EXCEPT !.progress = sent[s].progress]
              = [sent[s] EXCEPT !.progress = sent[s].progress + 0]
        BY <3>0 DEF SentType
      <4>2. sent' = [sent EXCEPT ![s].progress = @ + 0]
        BY <1>11, <3>0, <3>1, <4>1 DEF RecordProgress
      <4> QED
        BY <4>2
    <3>2. CASE run[r].score # "null"
      BY <1>11, <3>2 DEF RecordProgress
    <3> QED
      BY <3>1, <3>2
  <2>3. GoesOn(r, "enqueuePost", run[r].timeout) /\ run'[r].score = run[r].score
    BY <1>g, <2>1
  <2>4. Pays(r, s)
    BY <1>k, <2>1, <2>2, <2>3 DEF Pays, GoesOn
  <2> QED
    BY <1>p, <2>1, <2>3, <2>4
<1>12. CASE EnqueuePost(r) \/ EnqueuePostFails(r)
  <2>1. /\ Goto(r, "return") /\ run[r].pc = "enqueuePost" /\ row' = row /\ sent' = sent
        /\ \E kinds \in SUBSET Wanted(run[r].score) : post' = [post EXCEPT ![s] = @ \cup kinds]
    BY <1>12 DEF EnqueuePost, EnqueuePostFails, Wanted, PostKinds
  <2>2. GoesOn(r, "return", run[r].timeout)
    BY <1>g, <2>1
  <2>3. Pays(r, s)
    BY <1>k, <2>1, <2>2 DEF Pays, GoesOn
  <2> QED
    BY <1>p, <2>1, <2>2, <2>3
<1>13. CASE End(r)
  <2>1. row' = row /\ sent' = sent /\ post' = post
    BY <1>13 DEF End
  <2>2. Goto(r, "idle") \/ run' = [run EXCEPT ![r] = IdleRun]
    BY <1>13 DEF End
  <2> QED
    BY <1>g, <1>i, <1>k, <1>m, <2>1, <2>2 DEF After
<1>14. CASE StatementFails(r)
  <2>1. /\ row' = row /\ sent' = sent /\ post' = post
        /\ \E v \in {"invalid", "throw"} : Goto(r, v)
    BY <1>14 DEF StatementFails
  <2> QED
    BY <1>g, <1>k, <1>m, <2>1 DEF After
<1>w. ASSUME NEW v, run' = [run EXCEPT ![r].timeout = v]
      PROVE  GoesOn(r, run[r].pc, v) /\ run'[r].score = run[r].score
  BY <1>a, <1>w, RunForms, ScoreKept DEF GoesOn
<1>15. CASE Timeout(r) \/ TimeoutRead(r) \/ TimeoutStatementFails(r)
  <2>1. row' = row /\ sent' = sent /\ post' = post
    BY <1>15 DEF Timeout, TimeoutRead, TimeoutStatementFails
  <2>2. \E v \in {"read", "retry", "throw"} : \E w :
             \/ run' = [run EXCEPT ![r].timeout = v]
             \/ run' = [run EXCEPT ![r].timeout = v, ![r].timeoutAttempt = w]
    BY <1>15 DEF Timeout, TimeoutRead, TimeoutStatementFails
  <2>p. PICK v \in {"read", "retry", "throw"} : \E w :
             \/ run' = [run EXCEPT ![r].timeout = v]
             \/ run' = [run EXCEPT ![r].timeout = v, ![r].timeoutAttempt = w]
    BY <2>2
  <2> PICK w :
             \/ run' = [run EXCEPT ![r].timeout = v]
             \/ run' = [run EXCEPT ![r].timeout = v, ![r].timeoutAttempt = w]
    BY <2>p
  <2>3. GoesOn(r, run[r].pc, v)
    <3>1. CASE run' = [run EXCEPT ![r].timeout = v]
      BY <1>w, <3>1
    <3>2. CASE run' = [run EXCEPT ![r].timeout = v, ![r].timeoutAttempt = w]
      BY <1>a, <3>2, RunForms DEF GoesOn
    <3> QED
      BY <3>1, <3>2
  <2>4. run'[r].score = run[r].score
    BY <1>a, ScoreKept
  <2> QED
    BY <1>k, <1>t, <2>1, <2>3, <2>4
<1>16. CASE TimeoutRetry(r)
  <2>0. sent' = sent /\ post' = post
    BY <1>16 DEF TimeoutRetry
  <2>1. CASE Holds(r, s) /\ run[r].timeoutAttempt >= MaxAttempts
    <3>1. /\ row'[s] = FailedWith(s, "TRANSIENT") /\ \A x \in Submissions \ {s} : row'[x] = row[x]
          /\ run' = [run EXCEPT ![r].timeout = "tellFailed"]
      BY <1>16, <1>a, <2>1 DEF TimeoutRetry, AfterTransientFailure
    <3>2. GoesOn(r, run[r].pc, "tellFailed")
      BY <1>w, <3>1
    <3>3. row'[s].audio = row[s].audio /\ Verdict(s)' = "failed" /\ Asked(s)' = Asked(s)
      BY <1>a, <3>1, RowViews DEF Errors
    <3>4. Judges(r, s)
      BY <1>h, <2>0, <2>1, <3>1, <3>2, <3>3 DEF Judges, GoesOn
    <3> QED
      BY <3>1, <3>2, <3>3, <3>4 DEF FollowStep, GoesOn, OnlyRun
  <2>2. CASE Holds(r, s) /\ ~ run[r].timeoutAttempt >= MaxAttempts
    <3>1. /\ row'[s] = ToRetry(s) /\ \A x \in Submissions \ {s} : row'[x] = row[x]
          /\ run' = [run EXCEPT ![r].timeout = "throw"]
      BY <1>16, <1>a, <2>2 DEF TimeoutRetry, AfterTransientFailure
    <3>2. Kept(s)
      BY <1>a, <1>h, <2>2, <3>1, RowViews DEF Kept
    <3> QED
      BY <1>t, <1>w, <2>0, <3>1, <3>2
  <2>3. CASE ~ Holds(r, s)
    BY <1>16, <1>k, <1>t, <1>w, <2>0, <2>3 DEF TimeoutRetry
  <2> QED
    BY <2>1, <2>2, <2>3
<1>17. CASE TimeoutTellFailed(r)
  <2>1. /\ run' = [run EXCEPT ![r].timeout = "throw"] /\ run[r].timeout = "tellFailed"
        /\ row' = row /\ post' = post /\ sent' = [sent EXCEPT ![s].failed = @ + 1]
    BY <1>17 DEF TimeoutTellFailed
  <2>2. GoesOn(r, run[r].pc, "throw") /\ run'[r].score = run[r].score
    BY <1>w, <2>1
  <2>3. Pays(r, s)
    BY <1>k, <2>1, <2>2 DEF Pays, GoesOn
  <2> QED
    BY <1>p, <2>1, <2>2, <2>3
<1>18. CASE TimeoutThrow(r)
  <2>1. row' = row /\ sent' = sent /\ post' = post
    BY <1>18 DEF TimeoutThrow
  <2>2. \/ run' = [run EXCEPT ![r] = IdleRun]
        \/ run' = [run EXCEPT ![r].timeout = "done"]
    BY <1>a, <1>18 DEF TimeoutThrow
  <2> QED
    BY <1>i, <1>k, <1>t, <1>w, <2>1, <2>2
<1>19. CASE Crash(r)
  BY <1>19, <1>i DEF Crash
<1> QED
  <2>1. CASE ExecStep(r)
    BY <2>1, <1>1, <1>2, <1>3, <1>4, <1>5, <1>6, <1>7, <1>8, <1>9, <1>10, <1>11, <1>12, <1>13 DEF ExecStep
  <2>2. CASE TimeoutStep(r)
    BY <2>2, <1>15, <1>16, <1>17, <1>18 DEF TimeoutStep
  <2>3. CASE RunFault(r)
    BY <2>3, <1>12, <1>14, <1>15, <1>19 DEF RunFault
  <2> QED
    BY <2>1, <2>2, <2>3

\* What the others' steps do: a submission is accepted, ...
Accepts(x) ==
  /\ row[x].status = "NONE" /\ Verdict(x) = "none" /\ Verdict(x)' = "open" /\ Asked(x)' = Asked(x)
  /\ \A y \in Submissions \ {x} : Kept(y)
  /\ run' = run /\ sent' = sent /\ post' = post
\* ... given up, ...
GivesUp(x) ==
  /\ Verdict(x) # "none" /\ Verdict(x)' = "givenUp" /\ Asked(x)' = Asked(x)
  /\ row'[x].audio = row[x].audio
  /\ \A y \in Submissions \ {x} : Kept(y)
  /\ run' = run /\ sent' = sent /\ post' = post
\* ... a missing job is made up for, ...
Repairs(x) ==
  /\ Verdict(x) = "scored" /\ \E kind \in Asked(x) : post' = [post EXCEPT ![x] = @ \cup {kind}]
  /\ row' = row /\ run' = run /\ sent' = sent
\* ... or nothing the learner can tell; at most a run sets out.
SetsOut(r) == run[r] = IdleRun /\ run'[r].pc = "load" /\ run'[r].timeout = "none"
Rests ==
  /\ \A y \in Submissions : Kept(y)
  /\ \A r \in Runs : run'[r] = run[r] \/ SetsOut(r)
  /\ sent' = sent /\ post' = post

\* Every step that is not a run's is one of the four.
LEMMA OthersFollow ==
  ASSUME TypeOK, KnownInv, OweInv, Next,
         ~ \E r \in Runs : ExecStep(r) \/ TimeoutStep(r) \/ RunFault(r)
  PROVE  Rests \/ \E x \in Submissions : Accepts(x) \/ GivesUp(x) \/ Repairs(x)
<1>a. row \in [Submissions -> RowType] /\ run \in [Runs -> RunType \cup {IdleRun}]
      /\ rec \in [Schedulers -> RecType \cup {IdleRec}]
  BY DEF TypeOK
<1>r. \A y \in Submissions : row[y] \in RowType
  BY <1>a
<1>k. ASSUME NEW y \in Submissions, row'[y] = row[y] PROVE Kept(y)
  BY <1>k, <1>r, RowViews
<1>f. ASSUME row' = row, run' = run, sent' = sent, post' = post PROVE Rests
  BY <1>f, <1>k DEF Rests
<1>1. ASSUME NEW x \in Submissions, ApiNext(x) PROVE Rests \/ Accepts(x)
  <2>1. ASSUME NEW a \in Recordings, Submit(x, a) PROVE Accepts(x)
    <3>1. /\ row[x].status = "NONE" /\ row'[x] = Accepted(x, a)
          /\ \A y \in Submissions \ {x} : row'[y] = row[y]
          /\ run' = run /\ sent' = sent /\ post' = post
      BY <1>a, <2>1 DEF Submit
    <3>2. a \in Audio
      BY RecordingsAssumption
    <3>3. Verdict(x)' = "open" /\ Asked(x)' = Asked(x)
      BY <1>r, <3>1, <3>2, RowViews
    <3>4. Verdict(x) = "none"
      BY <1>r, <3>1, VerdictValues
    <3> QED
      BY <1>k, <3>1, <3>3, <3>4 DEF Accepts
  <2>2. SubmitEnqueue(x) \/ SubmitEnqueueFails(x) => Rests
    BY <1>f DEF SubmitEnqueue, SubmitEnqueueFails
  <2> QED
    BY <1>1, <2>1, <2>2 DEF ApiNext
<1>2. ASSUME NEW x \in Submissions, QueueNext(x) PROVE Rests
  <2>1. ASSUME NEW r \in Runs, TakeJob(r, x) PROVE Rests
    <3>1. row' = row /\ sent' = sent /\ post' = post
      BY <2>1 DEF TakeJob
    <3>2. SetsOut(r) /\ \A q \in Runs \ {r} : run'[q] = run[q]
      BY <1>a, <2>1 DEF TakeJob, Unused, IdleRun, SetsOut
    <3> QED
      BY <1>k, <3>1, <3>2 DEF Rests
  <2>2. RetryComesDue(x) \/ LeaseRunsOut(x) => Rests
    <3> SUFFICES ASSUME RetryComesDue(x) \/ LeaseRunsOut(x) PROVE Rests
      OBVIOUS
    <3>1. /\ row'[x] = [row[x] EXCEPT !.due = TRUE] \/ row'[x] = [row[x] EXCEPT !.expired = TRUE]
          /\ \A y \in Submissions \ {x} : row'[y] = row[y]
          /\ run' = run /\ sent' = sent /\ post' = post
      BY <1>a DEF RetryComesDue, LeaseRunsOut
    <3>2. Kept(x)
      BY <1>r, <3>1, RowViews
    <3> QED
      BY <1>k, <3>1, <3>2 DEF Rests
  <2>3. BackoffElapses(x) \/ (\E state \in {"waiting", "failed"} : Stalled(x, state) \/ LockLost(x, state))
          => Rests
    BY <1>f DEF BackoffElapses, Stalled, LockLost, LockGone
  <2> QED
    BY <1>2, <2>1, <2>2, <2>3 DEF QueueNext, LeaseExpires, LeaseExpiresEarly
<1>3. ASSUME NEW x \in Submissions, EnqueueMissingPost(x) PROVE Repairs(x)
  <2>1. row' = row /\ run' = run /\ sent' = sent
    BY <1>3 DEF EnqueueMissingPost
  <2>2. PICK kind \in PostKinds :
          /\ post' = [post EXCEPT ![x] = @ \cup {kind}]
          /\ "PENDING" = IF kind = "FEEDBACK" THEN row[x].feedback ELSE row[x].reward
    BY <1>3 DEF EnqueueMissingPost, PostKinds
  <2>3. kind \in Asked(x)
    BY <2>2 DEF Asked
  <2>4. Verdict(x) = "scored"
    <3>1. "FEEDBACK" \in Asked(x)
      BY <2>3 DEF OweInv, PostKinds
    <3>2. row[x].feedback = "PENDING" /\ row[x].status = "COMPLETED"
      BY <1>3, <3>1 DEF Asked, EnqueueMissingPost
    <3> QED
      BY <1>r, <3>2, VerdictValues
  <2> QED
    BY <2>1, <2>2, <2>3, <2>4 DEF Repairs
<1>4. ASSUME NEW c \in Schedulers, CycleStep(c) \/ CycleFails(c) PROVE Rests \/ \E x \in Submissions : GivesUp(x)
  <2>1. CASE Reset(c) \/ FailExhausted(c)
    <3>1. rec[c] # IdleRec
      BY <2>1 DEF Reset, FailExhausted, IdleRec
    <3>2. PICK x \in Submissions : x = rec[c].sub
      BY <1>a, <3>1 DEF RecType
    <3>3. run' = run /\ sent' = sent /\ post' = post
      BY <2>1 DEF Reset, FailExhausted
    <3>4. CASE Reset(c)
      <4>1. CASE row[x].status = "PROCESSING"
        <5>1. row'[x] = Recovered(x) /\ \A y \in Submissions \ {x} : row'[y] = row[y]
          BY <1>a, <3>2, <3>4, <4>1 DEF Reset
        <5>2. Verdict(x) = "open"
          BY <1>r, <4>1, VerdictValues
        <5>3. Kept(x)
          BY <1>r, <5>1, <5>2, RowViews DEF Kept
        <5> QED
          BY <1>k, <3>3, <5>1, <5>3 DEF Rests
      <4>2. CASE row[x].status # "PROCESSING"
        BY <1>f, <3>2, <3>3, <3>4, <4>2 DEF Reset
      <4> QED
        BY <4>1, <4>2
    <3>5. CASE FailExhausted(c)
      <4>1. row'[x] = Exhausted(x) /\ \A y \in Submissions \ {x} : row'[y] = row[y]
        BY <1>a, <3>2, <3>5 DEF FailExhausted
      <4>2. row'[x].audio = row[x].audio /\ Verdict(x)' = "givenUp" /\ Asked(x)' = Asked(x)
        BY <1>r, <4>1, RowViews
      <4>3. Verdict(x) # "none"
        <5>1. Known(x)
          BY <3>2 DEF Known
        <5>2. row[x].status # "NONE"
          BY <5>1 DEF KnownInv
        <5> QED
          BY <1>r, <5>2, VerdictValues
      <4> QED
        BY <1>k, <3>3, <4>1, <4>2, <4>3 DEF GivesUp
    <3> QED
      BY <2>1, <3>4, <3>5
  <2>2. CASE ~ (Reset(c) \/ FailExhausted(c))
    BY <1>4, <1>f, <2>2 DEF CycleStep, CycleFails, Inspect, Remove, Enqueue
  <2> QED
    BY <2>1, <2>2
<1>5. ASSUME NEW c \in Schedulers, NEW x \in Submissions, Snapshot(c, x) PROVE Rests
  BY <1>5, <1>f DEF Snapshot
<1>6. Done => Rests
  BY <1>f DEF Done, vars
<1> QED
  BY <1>1, <1>2, <1>3, <1>4, <1>5, <1>6 DEF Next

\* A run's step: what is owed is owed by who judged, until it is paid.
LEMMA RunOwes ==
  ASSUME TypeOK, OweInv, NEW r \in Runs, NEW s \in Submissions, s = run[r].sub, FollowStep(r, s)
  PROVE  OweInv'
<1>o. \A q \in Runs \ {r} : Owes(q)' = Owes(q) /\ run'[q] = run[q]
  BY DEF FollowStep, Owes, After
<1>n. IdleRun.sub # s /\ (\A x \in Submissions : IdleRun.sub # x) /\ Scores = {"null", "zero", "positive"}
  BY NullAssumption DEF IdleRun, Scores
<1>w. \A x : Wanted(x) \in {{"FEEDBACK"}, PostKinds}
  BY DEF Wanted
<1>0. OwesFor(r, s) /\ (Verdict(s) \in {"none", "open"} => Asked(s) = {})
      /\ Asked(s) \in {{}, {"FEEDBACK"}, PostKinds}
  BY DEF OweInv
<1>x. ASSUME NEW x \in Submissions, x # s
      PROVE  /\ Verdict(x)' \in {"none", "open"} => Asked(x)' = {}
             /\ Asked(x)' \in {{}, {"FEEDBACK"}, PostKinds}
             /\ \A q \in Runs : run'[q].sub = x => OwesFor(q, x)'
  <2>1. row'[x] = row[x] /\ Verdict(x)' = Verdict(x) /\ Asked(x)' = Asked(x)
    BY <1>x DEF FollowStep, Verdict, Asked
  <2>2. \A q \in Runs : run'[q].sub = x <=> run[q].sub = x /\ q # r
    BY <1>x, <1>n DEF FollowStep
  <2>3. ASSUME NEW q \in Runs, run'[q].sub = x PROVE OwesFor(q, x)'
    <3>1. q # r /\ run[q].sub = x /\ OwesFor(q, x)
      BY <2>2, <2>3 DEF OweInv
    <3> QED
      BY <1>o, <2>1, <2>2, <3>1 DEF OwesFor
  <2> QED
    BY <2>1, <2>3 DEF OweInv
<1>s. SUFFICES /\ Verdict(s)' \in {"none", "open"} => Asked(s)' = {}
               /\ Asked(s)' \in {{}, {"FEEDBACK"}, PostKinds}
               /\ \A q \in Runs : run'[q].sub = s => OwesFor(q, s)'
  BY <1>x DEF OweInv
\* Where r owed nothing or goes on owing what it owed, the others go on as they did.
<1>p. ASSUME Kept(s), Owes(r)' \in {Owes(r), "nothing"} \/ Owes(r) # "nothing",
             run'[r].sub = s => OwesFor(r, s)'
      PROVE  /\ Verdict(s)' \in {"none", "open"} => Asked(s)' = {}
             /\ Asked(s)' \in {{}, {"FEEDBACK"}, PostKinds}
             /\ \A q \in Runs : run'[q].sub = s => OwesFor(q, s)'
  <2>1. ASSUME NEW q \in Runs \ {r}, run'[q].sub = s PROVE OwesFor(q, s)'
    <3>1. run[q].sub = s /\ OwesFor(q, s) /\ run'[q] = run[q] /\ Owes(q)' = Owes(q)
      BY <1>o, <2>1 DEF OweInv
    <3>2. Owes(q) # "nothing" => Owes(r) = "nothing"
      BY <3>1 DEF OwesFor
    <3>3. Owes(q)' # "nothing" => \A z \in Runs \ {q} : run'[z].sub = s => Owes(z)' = "nothing"
      BY <1>o, <1>p, <3>1, <3>2 DEF OwesFor
    <3> QED
      BY <1>p, <3>1, <3>3 DEF OwesFor, Kept
  <2> QED
    BY <1>0, <1>p, <2>1 DEF Kept
<1>1. CASE Passes(r, s)
  <2>1. Kept(s)
    BY <1>1 DEF Passes
  <2>2. Owes(r)' \in {Owes(r), "nothing"}
    BY <1>0, <1>1 DEF Passes, OwesFor, Owes, After
  <2>3. ASSUME run'[r].sub = s PROVE OwesFor(r, s)'
    <3>1. /\ run'[r].pc = "silent" => row'[s].audio = "silent"
          /\ run'[r].pc \in {"score", "persist"} => row'[s].audio = "speech"
      BY <1>0, <2>1 DEF FollowStep, OwesFor, Kept
    <3>2. Owes(r)' # "nothing" =>
            /\ Verdict(s)' \notin {"none", "open"}
            /\ ~ (run'[r].pc \in After /\ run'[r].timeout = "tellFailed")
            /\ \A q \in Runs \ {r} : run'[q].sub = s => Owes(q)' = "nothing"
      <4> SUFFICES ASSUME Owes(r)' # "nothing"
                   PROVE  /\ Verdict(s)' \notin {"none", "open"}
                          /\ ~ (run'[r].pc \in After /\ run'[r].timeout = "tellFailed")
                          /\ \A q \in Runs \ {r} : run'[q].sub = s => Owes(q)' = "nothing"
        OBVIOUS
      <4>1. Owes(r) # "nothing"
        BY <2>2
      <4>2. /\ Verdict(s) \notin {"none", "open"}
            /\ ~ (run[r].pc \in After /\ run[r].timeout = "tellFailed")
            /\ \A q \in Runs \ {r} : run[q].sub = s => Owes(q) = "nothing"
        BY <1>0, <4>1 DEF OwesFor
      <4> QED
        BY <1>1, <1>o, <2>1, <4>2 DEF Passes, Kept
    <3>3. /\ run'[r].pc = "tell" /\ row'[s].audio = "silent" => Asked(s)' = {}
          /\ (run'[r].pc = "tell" /\ row'[s].audio # "silent") \/ run'[r].pc \in {"progress", "enqueuePost"} =>
               Asked(s)' = Wanted(run'[r].score)
      BY <1>0, <1>1 DEF Passes, Kept, OwesFor, After
    <3> QED
      BY <3>1, <3>2, <3>3 DEF OwesFor
  <2> QED
    BY <1>p, <2>1, <2>2, <2>3
<1>2. CASE Judges(r, s)
  <2>1. \A q \in Runs : run[q].sub = s => Owes(q) = "nothing"
    BY <1>2 DEF Judges, OweInv, OwesFor
  <2>2. run[r].timeout # "tellFailed" /\ run[r].pc \notin After
    BY <2>1 DEF Owes, After
  <2>3. Asked(s) = {} /\ row'[s].audio = row[s].audio
    BY <1>0, <1>2 DEF Judges
  <2>4. Verdict(s)' \in {"scored", "silent", "failed"} /\ Asked(s)' \in {{}, {"FEEDBACK"}, PostKinds}
    BY <1>2, <1>w, <2>3 DEF Judges
  <2>5. OwesFor(r, s)'
    <3>1. /\ run'[r].pc = "silent" => row'[s].audio = "silent"
          /\ run'[r].pc \in {"score", "persist"} => row'[s].audio = "speech"
      BY <1>0, <2>3 DEF FollowStep, OwesFor
    <3>2. ~ (run'[r].pc \in After /\ run'[r].timeout = "tellFailed")
      BY <1>2, <2>2 DEF Judges
    <3>3. \A q \in Runs \ {r} : run'[q].sub = s => Owes(q)' = "nothing"
      BY <1>o, <2>1
    <3>4. /\ run'[r].pc = "tell" /\ row'[s].audio = "silent" => Asked(s)' = {}
          /\ (run'[r].pc = "tell" /\ row'[s].audio # "silent") \/ run'[r].pc \in {"progress", "enqueuePost"} =>
               Asked(s)' = Wanted(run'[r].score)
      BY <1>0, <1>2, <2>2, <2>3 DEF Judges, OwesFor, After
    <3> QED
      BY <2>4, <3>1, <3>2, <3>3, <3>4 DEF OwesFor
  <2>6. ASSUME NEW q \in Runs \ {r}, run'[q].sub = s PROVE OwesFor(q, s)'
    <3>1. run[q].sub = s /\ OwesFor(q, s) /\ run'[q] = run[q] /\ Owes(q)' = "nothing"
      BY <1>o, <2>1, <2>6 DEF OweInv
    <3>2. run[q].pc \notin After
      BY <2>1, <3>1 DEF Owes, After
    <3> QED
      BY <2>3, <3>1, <3>2 DEF OwesFor, After
  <2> QED
    BY <2>4, <2>5, <2>6
<1>3. CASE Pays(r, s)
  <2>1. Kept(s) /\ Owes(r) # "nothing"
    BY <1>0, <1>3 DEF Pays, OwesFor, Owes, After
  <2>2. /\ Verdict(s) \notin {"none", "open"}
        /\ ~ (run[r].pc \in After /\ run[r].timeout = "tellFailed")
        /\ \A q \in Runs \ {r} : run[q].sub = s => Owes(q) = "nothing"
    BY <1>0, <2>1 DEF OwesFor
  <2>3. OwesFor(r, s)'
    <3>1. /\ run'[r].pc = "silent" => row'[s].audio = "silent"
          /\ run'[r].pc \in {"score", "persist"} => row'[s].audio = "speech"
      BY <1>0, <2>1 DEF FollowStep, OwesFor, Kept
    <3>2. ~ (run'[r].pc \in After /\ run'[r].timeout = "tellFailed")
      BY <1>3, <2>2 DEF Pays, After, Ends
    <3>3. \A q \in Runs \ {r} : run'[q].sub = s => Owes(q)' = "nothing"
      BY <1>o, <2>2
    <3>4. /\ run'[r].pc = "tell" /\ row'[s].audio = "silent" => Asked(s)' = {}
          /\ (run'[r].pc = "tell" /\ row'[s].audio # "silent") \/ run'[r].pc \in {"progress", "enqueuePost"} =>
               Asked(s)' = Wanted(run'[r].score)
      BY <1>0, <1>3, <2>1, <2>2 DEF Pays, Kept, OwesFor, After, Ends
    <3> QED
      BY <2>1, <2>2, <3>1, <3>2, <3>3, <3>4 DEF OwesFor, Kept
  <2> QED
    BY <1>p, <2>1, <2>3
<1> QED
  BY <1>1, <1>2, <1>3 DEF FollowStep

\* Nobody else changes what is owed.
LEMMA OthersOwe ==
  ASSUME TypeOK, KnownInv, OweInv,
         Rests \/ \E x \in Submissions : Accepts(x) \/ GivesUp(x) \/ Repairs(x)
  PROVE  OweInv'
<1>f. ASSUME run' = run, NEW x \in Submissions, \A y \in Submissions \ {x} : Kept(y),
             Asked(x)' = Asked(x), Verdict(x)' \in {"none", "open"} => Asked(x)' = {},
             \A r \in Runs : run[r].sub = x =>
               row'[x].audio = row[x].audio /\ Verdict(x)' \notin {"none", "open"}
      PROVE  OweInv'
  <2>1. \A r \in Runs : Owes(r)' = Owes(r)
    BY <1>f DEF Owes
  <2>2. ASSUME NEW s \in Submissions, NEW r \in Runs, run'[r].sub = s PROVE OwesFor(r, s)'
    <3>1. run[r].sub = s /\ OwesFor(r, s)
      BY <1>f, <2>2 DEF OweInv
    <3>2. CASE s = x
      BY <1>f, <2>1, <3>1, <3>2 DEF OwesFor
    <3>3. CASE s # x
      BY <1>f, <2>1, <3>1, <3>3 DEF OwesFor, Kept
    <3> QED
      BY <3>2, <3>3
  <2>3. ASSUME NEW s \in Submissions
        PROVE  /\ Verdict(s)' \in {"none", "open"} => Asked(s)' = {}
               /\ Asked(s)' \in {{}, {"FEEDBACK"}, PostKinds}
    BY <1>f DEF OweInv, Kept
  <2> QED
    BY <2>2, <2>3 DEF OweInv
<1>1. ASSUME NEW x \in Submissions, Accepts(x) PROVE OweInv'
  <2>1. \A r \in Runs : run[r].sub # x
    BY <1>1 DEF Accepts, KnownInv, Known
  <2>2. Asked(x) = {}
    BY <1>1 DEF Accepts, OweInv
  <2> QED
    BY <1>1, <1>f, <2>1, <2>2 DEF Accepts
<1>2. ASSUME NEW x \in Submissions, GivesUp(x) PROVE OweInv'
  BY <1>2, <1>f DEF GivesUp
<1>3. ASSUME NEW x \in Submissions, Repairs(x) PROVE OweInv'
  <2>1. /\ \A s \in Submissions : row'[s] = row[s] /\ Verdict(s)' = Verdict(s) /\ Asked(s)' = Asked(s)
        /\ \A r \in Runs : Owes(r)' = Owes(r)
    BY <1>3 DEF Repairs, Verdict, Asked, Owes
  <2>2. run' = run
    BY <1>3 DEF Repairs
  <2>3. ASSUME NEW s \in Submissions, NEW r \in Runs, run'[r].sub = s PROVE OwesFor(r, s)'
    <3>1. run[r].sub = s /\ OwesFor(r, s)
      BY <2>2, <2>3 DEF OweInv
    <3> QED
      BY <2>1, <2>2, <3>1 DEF OwesFor
  <2> QED
    BY <2>1, <2>3 DEF OweInv
<1>4. CASE Rests
  <2>1. \A r \in Runs : run'[r] = run[r] \/ (run'[r].pc = "load" /\ run'[r].timeout = "none")
    BY <1>4 DEF Rests, SetsOut
  <2>2. \A r \in Runs : Owes(r)' = "nothing" \/ run'[r] = run[r]
    BY <2>1 DEF Owes, After
  <2>3. \A r \in Runs : run'[r] = run[r] => Owes(r)' = Owes(r)
    BY DEF Owes
  <2>4. ASSUME NEW s \in Submissions, NEW r \in Runs, run'[r].sub = s PROVE OwesFor(r, s)'
    <3>1. CASE run'[r] = run[r]
      <4>1. OwesFor(r, s) /\ Owes(r)' = Owes(r)
        BY <2>3, <2>4, <3>1 DEF OweInv
      <4>2. Owes(r) # "nothing" => \A q \in Runs \ {r} : run'[q].sub = s => Owes(q)' = "nothing"
        BY <2>2, <2>3, <4>1 DEF OwesFor
      <4>3. Kept(s)
        BY <1>4 DEF Rests
      <4> QED
        BY <3>1, <4>1, <4>2, <4>3 DEF OwesFor, Kept
    <3>2. CASE run'[r] # run[r]
      BY <2>1, <2>2, <3>2 DEF OwesFor
    <3> QED
      BY <3>1, <3>2
  <2>5. ASSUME NEW s \in Submissions
        PROVE  /\ Verdict(s)' \in {"none", "open"} => Asked(s)' = {}
               /\ Asked(s)' \in {{}, {"FEEDBACK"}, PostKinds}
    BY <1>4 DEF Rests, OweInv, Kept
  <2> QED
    BY <2>4, <2>5 DEF OweInv
<1> QED
  BY <1>1, <1>2, <1>3, <1>4

\* At first nobody owes anything.
LEMMA OweInit == Init => KnownInv /\ OweInv
<1> SUFFICES ASSUME Init PROVE KnownInv /\ OweInv
  OBVIOUS
<1>1. \A s \in Submissions : row[s] = NewRow /\ job[s] = NoJob /\ api[s] = "idle"
  BY DEF Init
<1>2. (\A r \in Runs : run[r] = IdleRun) /\ (\A c \in Schedulers : rec[c] = IdleRec)
  BY DEF Init
<1>3. \A s \in Submissions : ~ Known(s)
  BY <1>1, <1>2, NullAssumption DEF Known, NoJob, IdleRun, IdleRec
<1>4. \A s \in Submissions : Asked(s) = {}
  BY <1>1 DEF Asked, NewRow, PostKinds
<1>5. \A r \in Runs : run[r].sub = NoSub
  BY <1>2 DEF IdleRun
<1> QED
  BY <1>3, <1>4, <1>5, NullAssumption DEF KnownInv, OweInv

\* Whatever happens, what is owed is owed by who judged.
LEMMA OweStep == TypeOK /\ KnownInv /\ OweInv /\ [Next]_vars => OweInv'
<1> SUFFICES ASSUME TypeOK, KnownInv, OweInv, [Next]_vars PROVE OweInv'
  OBVIOUS
<1>1. ASSUME NEW r \in Runs, ExecStep(r) \/ TimeoutStep(r) \/ RunFault(r) PROVE OweInv'
  <2>1. PICK s \in Submissions : s = run[r].sub
    BY <1>1, SteppingRun
  <2> QED
    BY <1>1, <2>1, RunFollows, RunOwes
<1>2. CASE Next /\ ~ \E r \in Runs : ExecStep(r) \/ TimeoutStep(r) \/ RunFault(r)
  BY <1>2, OthersFollow, OthersOwe
<1>3. CASE UNCHANGED vars
  <2>1. \A y \in Submissions : Kept(y)
    BY <1>3 DEF vars, Kept, Verdict, Asked
  <2>2. Rests
    BY <1>3, <2>1 DEF vars, Rests
  <2> QED
    BY <2>2, OthersOwe
<1> QED
  BY <1>1, <1>2, <1>3

\* What is to follow a submission's verdict is what some run owes it.
FollowViews ==
  \A s \in Submissions :
    /\ \A r \in Runs : run[r].sub = s /\ Owes(r) # "nothing" => FollowUp(s) = Owes(r)
    /\ (\A r \in Runs : run[r].sub = s => Owes(r) = "nothing") => FollowUp(s) = "nothing"

LEMMA FollowUpOwed == OweInv => FollowViews
<1> SUFFICES ASSUME OweInv, NEW s \in Submissions
             PROVE  /\ \A r \in Runs : run[r].sub = s /\ Owes(r) # "nothing" => FollowUp(s) = Owes(r)
                    /\ (\A r \in Runs : run[r].sub = s => Owes(r) = "nothing") => FollowUp(s) = "nothing"
  BY DEF FollowViews
<1>1. ASSUME \A r \in Runs : run[r].sub = s => Owes(r) = "nothing" PROVE FollowUp(s) = "nothing"
  <2>1. \A r \in Runs : run[r].sub = s => run[r].pc \notin After /\ run[r].timeout # "tellFailed"
    BY <1>1 DEF Owes, After
  <2> QED
    BY <2>1 DEF FollowUp, AboutTo, After
<1>2. ASSUME NEW r \in Runs, run[r].sub = s, Owes(r) # "nothing" PROVE FollowUp(s) = Owes(r)
  <2>1. OwesFor(r, s)
    BY <1>2 DEF OweInv
  <2>2. \A q \in Runs \ {r} : run[q].sub = s => run[q].pc \notin After /\ run[q].timeout # "tellFailed"
    BY <1>2, <2>1 DEF OwesFor, Owes, After
  <2>3. \A pc \in After : AboutTo(s, pc) <=> run[r].pc = pc
    BY <1>2, <2>2 DEF AboutTo
  <2>4. (\E q \in Runs : run[q].sub = s /\ run[q].timeout = "tellFailed") <=> run[r].timeout = "tellFailed"
    BY <1>2, <2>2
  <2>5. ~ (run[r].pc \in After /\ run[r].timeout = "tellFailed")
    BY <1>2, <2>1 DEF OwesFor
  <2> QED
    BY <1>2, <2>3, <2>4, <2>5 DEF FollowUp, Owes, After
<1> QED
  BY <1>1, <1>2

LEMMA FollowUpOwedNext == OweInv' => FollowViews'
  BY FollowUpOwed, PTL

\* What a step may change of a submission, as the contract sees it.
Unseen(x) ==
  /\ Verdict(x)' = Verdict(x) /\ Asked(x)' = Asked(x) /\ FollowUp(x)' = FollowUp(x)
  /\ Heard(x)' = Heard(x) /\ sent'[x].progress = sent[x].progress /\ post'[x] = post[x]

\* The contract's variables when only one submission changes.
LEMMA OneSeen ==
  ASSUME NEW s \in Submissions, \A x \in Submissions \ {s} : Unseen(x)
  PROVE  /\ [x \in Submissions |-> Verdict(x)]'
              = [[x \in Submissions |-> Verdict(x)] EXCEPT ![s] = Verdict(s)']
         /\ [x \in Submissions |-> Asked(x)]'
              = [[x \in Submissions |-> Asked(x)] EXCEPT ![s] = Asked(s)']
         /\ [x \in Submissions |-> FollowUp(x)]'
              = [[x \in Submissions |-> FollowUp(x)] EXCEPT ![s] = FollowUp(s)']
         /\ [x \in Submissions |-> Heard(x)]'
              = [[x \in Submissions |-> Heard(x)] EXCEPT ![s] = Heard(s)']
         /\ [x \in Submissions |-> sent[x].progress]'
              = [[x \in Submissions |-> sent[x].progress] EXCEPT ![s] = sent'[s].progress]
<1>1. [x \in Submissions |-> Verdict(x)]'
        = [[x \in Submissions |-> Verdict(x)] EXCEPT ![s] = Verdict(s)']
  BY DEF Unseen
<1>2. [x \in Submissions |-> Asked(x)]'
        = [[x \in Submissions |-> Asked(x)] EXCEPT ![s] = Asked(s)']
  BY DEF Unseen
<1>3. [x \in Submissions |-> FollowUp(x)]'
        = [[x \in Submissions |-> FollowUp(x)] EXCEPT ![s] = FollowUp(s)']
  BY DEF Unseen
<1>4. [x \in Submissions |-> Heard(x)]'
        = [[x \in Submissions |-> Heard(x)] EXCEPT ![s] = Heard(s)']
  BY DEF Unseen
<1>5. [x \in Submissions |-> sent[x].progress]'
        = [[x \in Submissions |-> sent[x].progress] EXCEPT ![s] = sent'[s].progress]
  BY DEF Unseen
<1> QED
  BY <1>1, <1>2, <1>3, <1>4, <1>5

\* A part of the contract's state that a submission keeps stays as it is.
LEMMA PartsKept ==
  ASSUME NEW s \in Submissions, \A x \in Submissions \ {s} : Unseen(x)
  PROVE  /\ Verdict(s)' = Verdict(s) =>
              [x \in Submissions |-> Verdict(x)]' = [x \in Submissions |-> Verdict(x)]
         /\ Asked(s)' = Asked(s) =>
              [x \in Submissions |-> Asked(x)]' = [x \in Submissions |-> Asked(x)]
         /\ FollowUp(s)' = FollowUp(s) =>
              [x \in Submissions |-> FollowUp(x)]' = [x \in Submissions |-> FollowUp(x)]
         /\ Heard(s)' = Heard(s) =>
              [x \in Submissions |-> Heard(x)]' = [x \in Submissions |-> Heard(x)]
         /\ sent'[s].progress = sent[s].progress =>
              [x \in Submissions |-> sent[x].progress]' = [x \in Submissions |-> sent[x].progress]
<1>1. Verdict(s)' = Verdict(s) =>
        [x \in Submissions |-> Verdict(x)]' = [x \in Submissions |-> Verdict(x)]
  BY DEF Unseen
<1>2. Asked(s)' = Asked(s) =>
        [x \in Submissions |-> Asked(x)]' = [x \in Submissions |-> Asked(x)]
  BY DEF Unseen
<1>3. FollowUp(s)' = FollowUp(s) =>
        [x \in Submissions |-> FollowUp(x)]' = [x \in Submissions |-> FollowUp(x)]
  BY DEF Unseen
<1>4. Heard(s)' = Heard(s) =>
        [x \in Submissions |-> Heard(x)]' = [x \in Submissions |-> Heard(x)]
  BY DEF Unseen
<1>5. sent'[s].progress = sent[s].progress =>
        [x \in Submissions |-> sent[x].progress]' = [x \in Submissions |-> sent[x].progress]
  BY DEF Unseen
<1> QED
  BY <1>1, <1>2, <1>3, <1>4, <1>5

\* A run's step is seen in its own submission only.
LEMMA RunUnseen ==
  ASSUME TypeOK, NEW r \in Runs, NEW s \in Submissions, s = run[r].sub, FollowStep(r, s),
         NEW x \in Submissions \ {s}
  PROVE  Unseen(x)
<1>1. Verdict(x)' = Verdict(x) /\ Asked(x)' = Asked(x)
  BY DEF FollowStep, Verdict, Asked
<1>2. FollowUp(x)' = FollowUp(x)
  <2>1. \A q \in Runs : (run'[q].sub = x <=> run[q].sub = x) /\ (run[q].sub = x => run'[q] = run[q])
    BY NullAssumption DEF FollowStep, IdleRun
  <2>2. \A pc : AboutTo(x, pc)' <=> AboutTo(x, pc)
    BY <2>1 DEF AboutTo
  <2>3. (\E q \in Runs : run'[q].sub = x /\ run'[q].timeout = "tellFailed")
          <=> \E q \in Runs : run[q].sub = x /\ run[q].timeout = "tellFailed"
    BY <2>1
  <2> QED
    BY <2>2, <2>3 DEF FollowUp
<1>3. sent'[x] = sent[x] /\ post'[x] = post[x]
  BY DEF FollowStep, Passes, Judges, Pays, TypeOK
<1> QED
  BY <1>1, <1>2, <1>3 DEF Unseen, Heard

\* What a run's step makes of what the learner has heard.
LEMMA HeardNext ==
  ASSUME TypeOK, TellInv, NEW r \in Runs, NEW s \in Submissions, s = run[r].sub
  PROVE  /\ sent' = sent => Heard(s)' = Heard(s) /\ sent'[s].progress = sent[s].progress
         /\ run[r].pc = "tell" /\ sent' = [sent EXCEPT ![s].completed = @ + 1] =>
              /\ Heard(s) = "nothing" /\ Heard(s)' = "completed"
              /\ sent'[s].progress = sent[s].progress
         /\ (/\ run[r].pc = "tellFailed" \/ run[r].timeout = "tellFailed"
             /\ sent' = [sent EXCEPT ![s].failed = @ + 1]) =>
              /\ Heard(s) = "nothing" /\ Heard(s)' = "failed"
              /\ sent'[s].progress = sent[s].progress
         /\ \A n \in {0, 1} : run[r].pc = "progress" /\ sent' = [sent EXCEPT ![s].progress = @ + n] =>
              /\ Heard(s)' = Heard(s) /\ sent[s].progress = 0 /\ sent'[s].progress = n
<1>a. sent \in [Submissions -> SentType] /\ sent[s] \in SentType
  BY DEF TypeOK
<1>b. sent[s].completed \in Nat /\ sent[s].failed \in Nat /\ sent[s].progress \in Nat
  BY <1>a DEF SentType
<1>1. sent' = sent => Heard(s)' = Heard(s) /\ sent'[s].progress = sent[s].progress
  BY DEF Heard
<1>2. ToTell(r) => sent[s].completed = 0 /\ sent[s].failed = 0
  BY <1>b DEF TellInv
<1>3. ASSUME run[r].pc = "tell", sent' = [sent EXCEPT ![s].completed = @ + 1]
      PROVE  /\ Heard(s) = "nothing" /\ Heard(s)' = "completed"
             /\ sent'[s].progress = sent[s].progress
  <2>1. sent[s].completed = 0 /\ sent[s].failed = 0
    BY <1>2, <1>3 DEF ToTell
  <2>2. sent'[s].completed = 1 /\ sent'[s].failed = 0 /\ sent'[s].progress = sent[s].progress
    BY <1>a, <1>3, <2>1 DEF SentType
  <2> QED
    BY <2>1, <2>2 DEF Heard
<1>4. ASSUME run[r].pc = "tellFailed" \/ run[r].timeout = "tellFailed",
             sent' = [sent EXCEPT ![s].failed = @ + 1]
      PROVE  /\ Heard(s) = "nothing" /\ Heard(s)' = "failed"
             /\ sent'[s].progress = sent[s].progress
  <2>1. sent[s].completed = 0 /\ sent[s].failed = 0
    BY <1>2, <1>4 DEF ToTell
  <2>2. sent'[s].completed = 0 /\ sent'[s].failed = 1 /\ sent'[s].progress = sent[s].progress
    BY <1>a, <1>4, <2>1 DEF SentType
  <2> QED
    BY <2>1, <2>2 DEF Heard
<1>5. ASSUME NEW n \in {0, 1}, run[r].pc = "progress", sent' = [sent EXCEPT ![s].progress = @ + n]
      PROVE  /\ Heard(s)' = Heard(s) /\ sent[s].progress = 0 /\ sent'[s].progress = n
  <2>1. sent[s].progress = 0
    BY <1>5 DEF TellInv, ToCount
  <2>2. /\ sent'[s].completed = sent[s].completed /\ sent'[s].failed = sent[s].failed
        /\ sent'[s].progress = n
    BY <1>a, <1>5, <2>1 DEF SentType
  <2> QED
    BY <2>1, <2>2 DEF Heard
<1> QED
  BY <1>1, <1>3, <1>4, <1>5

\* A run's step is a step of the contract.
LEMMA RunHonours ==
  ASSUME TypeOK, OweInv, OweInv', TellInv,
         NEW r \in Runs, NEW s \in Submissions, s = run[r].sub, FollowStep(r, s)
  PROVE  [Contract!Next]_(Contract!vars)
<1>u. \A x \in Submissions \ {s} : Unseen(x)
  BY RunUnseen
<1>v. FollowViews /\ FollowViews'
  BY FollowUpOwed, FollowUpOwedNext
<1>o. OwesFor(r, s)
  BY DEF OweInv
<1>q. \A q \in Runs \ {r} : Owes(q)' = Owes(q) /\ run'[q] = run[q]
  BY DEF FollowStep, Owes, After
<1>i. IdleRun.sub # s
  BY NullAssumption DEF IdleRun
\* What follows once r alone owed, or nobody did.
<1>f. ASSUME \A q \in Runs \ {r} : run[q].sub = s => Owes(q) = "nothing",
             run'[r].sub = s \/ Owes(r)' = "nothing"
      PROVE  FollowUp(s)' = Owes(r)'
  <2>1. \A q \in Runs \ {r} : run'[q].sub = s => Owes(q)' = "nothing"
    BY <1>f, <1>q
  <2>2. CASE Owes(r)' # "nothing"
    BY <1>f, <1>v, <2>2 DEF FollowViews
  <2>3. CASE Owes(r)' = "nothing"
    BY <1>v, <2>1, <2>3 DEF FollowViews
  <2> QED
    BY <2>2, <2>3
<1>s. run'[r].sub = s \/ Owes(r)' = "nothing"
  BY DEF FollowStep, Owes, IdleRun, After
<1>1. CASE Passes(r, s)
  <2>1. /\ Verdict(s)' = Verdict(s) /\ Asked(s)' = Asked(s) /\ Heard(s)' = Heard(s)
        /\ sent'[s].progress = sent[s].progress /\ post' = post
    BY <1>1, HeardNext DEF Passes, Kept
  <2>2. FollowUp(s)' \in {FollowUp(s), "nothing"}
    <3>1. Owes(r)' \in {Owes(r), "nothing"}
      BY <1>1, <1>o DEF Passes, OwesFor, Owes, After
    <3>2. CASE Owes(r) # "nothing"
      <4>1. \A q \in Runs \ {r} : run[q].sub = s => Owes(q) = "nothing"
        BY <1>o, <3>2 DEF OwesFor
      <4>2. FollowUp(s) = Owes(r)
        BY <1>v, <3>2 DEF FollowViews
      <4> QED
        BY <1>f, <1>s, <3>1, <4>1, <4>2
    <3>3. CASE Owes(r) = "nothing"
      <4>1. Owes(r)' = "nothing"
        BY <3>1, <3>3
      <4>2. CASE \E q \in Runs : run[q].sub = s /\ Owes(q) # "nothing"
        <5>1. PICK q \in Runs : run[q].sub = s /\ Owes(q) # "nothing"
          BY <4>2
        <5>2. q # r /\ run'[q].sub = s /\ Owes(q)' = Owes(q)
          BY <1>q, <3>3, <5>1
        <5> QED
          BY <1>v, <5>1, <5>2 DEF FollowViews
      <4>3. CASE ~ \E q \in Runs : run[q].sub = s /\ Owes(q) # "nothing"
        <5>1. \A q \in Runs : run'[q].sub = s => Owes(q)' = "nothing"
          BY <1>q, <4>1, <4>3
        <5> QED
          BY <1>v, <5>1 DEF FollowViews
      <4> QED
        BY <4>2, <4>3
    <3> QED
      BY <3>2, <3>3
  <2>3. CASE FollowUp(s)' = FollowUp(s)
    BY <1>u, <2>1, <2>3, PartsKept DEF Contract!vars
  <2>4. CASE FollowUp(s)' = "nothing"
    <3>1. Contract!CutOff(s)
      BY <1>u, <2>1, <2>4, OneSeen, PartsKept DEF Contract!CutOff
    <3> QED
      BY <3>1 DEF Contract!Next
  <2> QED
    BY <2>2, <2>3, <2>4
<1>2. CASE Judges(r, s)
  <2>1. /\ Heard(s)' = Heard(s) /\ sent'[s].progress = sent[s].progress /\ post' = post
        /\ Verdict(s) = "open" /\ Asked(s) = {}
    BY <1>2, HeardNext DEF Judges, OweInv
  <2>2. \A q \in Runs : run[q].sub = s => Owes(q) = "nothing"
    BY <2>1 DEF OweInv, OwesFor
  <2>3. FollowUp(s)' = Owes(r)'
    BY <1>f, <1>s, <2>2
  <2>4. run[r].pc \notin After
    BY <2>2 DEF Owes, After
  <2>5. ASSUME NEW v, NEW kinds, NEW event, Verdict(s)' = v, Asked(s)' = kinds, FollowUp(s)' = event
        PROVE  Contract!Judge(s, v, kinds, event)
    BY <1>u, <2>1, <2>5, OneSeen, PartsKept DEF Contract!Judge
  <2>6. CASE run'[r].pc = "tell" /\ run[r].pc = "persist" /\ Verdict(s)' = "scored"
             /\ Asked(s)' = Wanted(run[r].score)
    <3>1. Owes(r)' = "tellCompleted"
      BY <2>6 DEF Owes, After
    <3>2. Asked(s)' \in {{"FEEDBACK"}, {"FEEDBACK", "REWARD"}}
      BY <2>6 DEF Wanted, PostKinds
    <3>3. Contract!Judge(s, "scored", Asked(s)', "tellCompleted")
      BY <2>3, <2>5, <2>6, <3>1
    <3>4. Contract!Score(s)
      BY <3>2, <3>3 DEF Contract!Score
    <3> QED
      BY <3>4 DEF Contract!Next
  <2>7. CASE run'[r].pc = "tell" /\ Verdict(s)' = "silent" /\ Asked(s)' = {}
    <3>1. Owes(r)' = "tellCompleted"
      BY <2>7 DEF Owes, After
    <3>2. Contract!Silence(s)
      BY <2>3, <2>5, <2>7, <3>1 DEF Contract!Silence
    <3> QED
      BY <3>2 DEF Contract!Next
  <2>8. CASE /\ Verdict(s)' = "failed" /\ Asked(s)' = Asked(s)
             /\ \/ run'[r].pc = "tellFailed" /\ run'[r].timeout = run[r].timeout
                \/ run'[r].pc = run[r].pc /\ run'[r].timeout = "tellFailed"
    <3>1. Owes(r)' = "tellFailed"
      BY <2>4, <2>8 DEF Owes, After
    <3>2. Contract!Fail(s)
      BY <2>1, <2>3, <2>5, <2>8, <3>1 DEF Contract!Fail
    <3> QED
      BY <3>2 DEF Contract!Next
  <2> QED
    BY <1>2, <2>1, <2>6, <2>7, <2>8 DEF Judges
<1>3. CASE Pays(r, s)
  <2>1. Verdict(s)' = Verdict(s) /\ Asked(s)' = Asked(s)
    BY <1>3 DEF Pays, Kept
  <2>2. Owes(r) # "nothing"
    BY <1>3 DEF Pays, Owes, After
  <2>3. /\ \A q \in Runs \ {r} : run[q].sub = s => Owes(q) = "nothing"
        /\ ~ (run[r].pc \in After /\ run[r].timeout = "tellFailed")
    BY <1>o, <2>2 DEF OwesFor
  <2>4. FollowUp(s) = Owes(r) /\ FollowUp(s)' = Owes(r)'
    BY <1>f, <1>s, <1>v, <2>2, <2>3 DEF FollowViews
  <2>5. CASE run[r].pc = "tell"
    <3>1. /\ sent' = [sent EXCEPT ![s].completed = @ + 1] /\ post' = post
          /\ run'[r].pc = IF row[s].audio = "silent" THEN "return" ELSE "progress"
          /\ run'[r].timeout # "tellFailed"
      BY <1>3, <2>3, <2>5 DEF Pays, After
    <3>2. /\ Heard(s) = "nothing" /\ Heard(s)' = "completed"
          /\ sent'[s].progress = sent[s].progress
      BY <2>5, <3>1, HeardNext
    <3>3. FollowUp(s) = "tellCompleted"
      BY <2>4, <2>5 DEF Owes, After
    <3>4. FollowUp(s)' = IF Asked(s) = {} THEN "nothing" ELSE "count"
      BY <1>o, <2>4, <2>5, <3>1 DEF Owes, After, OwesFor, Wanted, PostKinds
    <3>5. Contract!TellCompleted(s)
      BY <1>u, <2>1, <3>1, <3>2, <3>3, <3>4, OneSeen, PartsKept DEF Contract!TellCompleted
    <3> QED
      BY <3>5 DEF Contract!Next
  <2>6. CASE run[r].pc = "tellFailed" \/ run[r].timeout = "tellFailed"
    <3>1. sent' = [sent EXCEPT ![s].failed = @ + 1] /\ post' = post /\ Owes(r)' = "nothing"
      BY <1>3, <2>3, <2>6 DEF Pays, Owes, After, Ends
    <3>2. /\ Heard(s) = "nothing" /\ Heard(s)' = "failed"
          /\ sent'[s].progress = sent[s].progress
      BY <2>6, <3>1, HeardNext
    <3>3. FollowUp(s) = "tellFailed"
      BY <2>3, <2>4, <2>6 DEF Owes, After
    <3>4. Contract!TellFailed(s)
      BY <1>u, <2>1, <2>4, <3>1, <3>2, <3>3, OneSeen, PartsKept DEF Contract!TellFailed
    <3> QED
      BY <3>4 DEF Contract!Next
  <2>7. CASE run[r].pc = "progress"
    <3>1. /\ post' = post /\ run'[r].pc = "enqueuePost"
          /\ \E n \in {0, 1} : sent' = [sent EXCEPT ![s].progress = @ + n]
      BY <1>3, <2>3, <2>7 DEF Pays, After
    <3>2. PICK n \in {0, 1} : sent' = [sent EXCEPT ![s].progress = @ + n]
      BY <3>1
    <3>3. Heard(s)' = Heard(s) /\ sent[s].progress = 0 /\ sent'[s].progress = n
      BY <2>7, <3>2, HeardNext
    <3>4. FollowUp(s) = "count" /\ FollowUp(s)' = "handOver"
      BY <2>4, <2>7, <3>1 DEF Owes, After
    <3>5. Contract!Count(s)
      BY <1>u, <2>1, <3>1, <3>3, <3>4, OneSeen, PartsKept DEF Contract!Count
    <3> QED
      BY <3>5 DEF Contract!Next
  <2>8. CASE run[r].pc = "enqueuePost"
    <3>1. /\ sent' = sent /\ run'[r].pc = "return" /\ run'[r].timeout # "tellFailed"
          /\ \E kinds \in SUBSET Wanted(run[r].score) : post' = [post EXCEPT ![s] = @ \cup kinds]
      BY <1>3, <2>3, <2>8 DEF Pays, After
    <3>2. Heard(s)' = Heard(s) /\ sent'[s].progress = sent[s].progress
      BY <3>1, HeardNext
    <3>3. FollowUp(s) = "handOver" /\ FollowUp(s)' = "nothing"
      BY <2>4, <2>8, <3>1 DEF Owes, After
    <3>4. Asked(s) = Wanted(run[r].score)
      BY <1>o, <2>8 DEF OwesFor
    <3>5. Contract!HandOver(s)
      BY <1>u, <2>1, <3>1, <3>2, <3>3, <3>4, OneSeen, PartsKept DEF Contract!HandOver
    <3> QED
      BY <3>5 DEF Contract!Next
  <2> QED
    BY <1>3, <2>5, <2>6, <2>7, <2>8 DEF Pays
<1> QED
  BY <1>1, <1>2, <1>3 DEF FollowStep

\* So is a step of the others.
LEMMA OthersHonour ==
  ASSUME TypeOK, OweInv, OweInv',
         Rests \/ \E x \in Submissions : Accepts(x) \/ GivesUp(x) \/ Repairs(x)
  PROVE  [Contract!Next]_(Contract!vars)
<1>v. FollowViews /\ FollowViews'
  BY FollowUpOwed, FollowUpOwedNext
<1>f. run' = run => \A s \in Submissions : FollowUp(s)' = FollowUp(s)
  BY DEF FollowUp, AboutTo
<1>h. sent' = sent => \A s \in Submissions : Heard(s)' = Heard(s)
  BY DEF Heard
<1>1. ASSUME NEW x \in Submissions, Accepts(x) \/ GivesUp(x) PROVE [Contract!Next]_(Contract!vars)
  <2>1. \A y \in Submissions \ {x} : Unseen(y)
    BY <1>1, <1>f, <1>h DEF Accepts, GivesUp, Kept, Unseen
  <2>2. /\ Asked(x)' = Asked(x) /\ FollowUp(x)' = FollowUp(x) /\ Heard(x)' = Heard(x)
        /\ sent'[x].progress = sent[x].progress /\ post' = post
    BY <1>1, <1>f, <1>h DEF Accepts, GivesUp
  <2>3. CASE Accepts(x)
    <3>1. Verdict(x) = "none" /\ Verdict(x)' = "open"
      BY <2>3 DEF Accepts
    <3>2. Contract!Submit(x)
      BY <2>1, <2>2, <3>1, OneSeen, PartsKept DEF Contract!Submit
    <3> QED
      BY <3>2 DEF Contract!Next
  <2>4. CASE GivesUp(x)
    <3>1. Verdict(x) # "none" /\ Verdict(x)' = "givenUp"
      BY <2>4 DEF GivesUp
    <3>2. Contract!GiveUp(x)
      BY <2>1, <2>2, <3>1, OneSeen, PartsKept DEF Contract!GiveUp
    <3> QED
      BY <3>2 DEF Contract!Next
  <2> QED
    BY <1>1, <2>3, <2>4
<1>2. ASSUME NEW x \in Submissions, Repairs(x) PROVE [Contract!Next]_(Contract!vars)
  <2>1. \A y \in Submissions : /\ Verdict(y)' = Verdict(y) /\ Asked(y)' = Asked(y)
                               /\ FollowUp(y)' = FollowUp(y) /\ Heard(y)' = Heard(y)
                               /\ sent'[y].progress = sent[y].progress
    BY <1>2, <1>f, <1>h DEF Repairs, Verdict, Asked
  <2>2. \A y \in Submissions \ {x} : Unseen(y)
    BY <1>2, <2>1 DEF Repairs, Unseen, TypeOK
  <2>3. Verdict(x) = "scored" /\ \E kind \in Asked(x) : post' = [post EXCEPT ![x] = @ \cup {kind}]
    BY <1>2 DEF Repairs
  <2>4. Contract!Repair(x)
    BY <2>1, <2>2, <2>3, PartsKept DEF Contract!Repair
  <2> QED
    BY <2>4 DEF Contract!Next
<1>3. CASE Rests
  <2>1. ASSUME NEW s \in Submissions PROVE FollowUp(s)' = FollowUp(s)
    <3>1. \A q \in Runs : \/ run'[q] = run[q] /\ Owes(q)' = Owes(q)
                          \/ run[q].sub # s /\ Owes(q)' = "nothing"
      BY <1>3, NullAssumption DEF Rests, SetsOut, IdleRun, Owes, After
    <3>2. CASE \E q \in Runs : run[q].sub = s /\ Owes(q) # "nothing"
      <4>1. PICK q \in Runs : run[q].sub = s /\ Owes(q) # "nothing"
        BY <3>2
      <4>2. run'[q].sub = s /\ Owes(q)' = Owes(q)
        BY <3>1, <4>1
      <4> QED
        BY <1>v, <4>1, <4>2 DEF FollowViews
    <3>3. CASE ~ \E q \in Runs : run[q].sub = s /\ Owes(q) # "nothing"
      <4>1. \A q \in Runs : run'[q].sub = s => Owes(q)' = "nothing"
        BY <3>1, <3>3
      <4> QED
        BY <1>v, <3>3, <4>1 DEF FollowViews
    <3> QED
      BY <3>2, <3>3
  <2>2. \A s \in Submissions : /\ Verdict(s)' = Verdict(s) /\ Asked(s)' = Asked(s)
                               /\ Heard(s)' = Heard(s) /\ sent'[s].progress = sent[s].progress
    BY <1>3, <1>h DEF Rests, Kept
  <2>3. post' = post
    BY <1>3 DEF Rests
  <2> QED
    BY <2>1, <2>2, <2>3 DEF Contract!vars
<1> QED
  BY <1>1, <1>2, <1>3

\* Every step is a step of the contract, or unseen.
LEMMA HonourStep ==
  TypeOK /\ KnownInv /\ OweInv /\ OweInv' /\ TellInv /\ [Next]_vars => [Contract!Next]_(Contract!vars)
<1> SUFFICES ASSUME TypeOK, KnownInv, OweInv, OweInv', TellInv, [Next]_vars
             PROVE  [Contract!Next]_(Contract!vars)
  OBVIOUS
<1>1. ASSUME NEW r \in Runs, ExecStep(r) \/ TimeoutStep(r) \/ RunFault(r)
      PROVE  [Contract!Next]_(Contract!vars)
  <2>1. PICK s \in Submissions : s = run[r].sub
    BY <1>1, SteppingRun
  <2> QED
    BY <1>1, <2>1, RunFollows, RunHonours
<1>2. CASE Next /\ ~ \E r \in Runs : ExecStep(r) \/ TimeoutStep(r) \/ RunFault(r)
  BY <1>2, OthersFollow, OthersHonour
<1>3. CASE UNCHANGED vars
  <2>1. \A y \in Submissions : Kept(y)
    BY <1>3 DEF vars, Kept, Verdict, Asked
  <2>2. Rests
    BY <1>3, <2>1 DEF vars, Rests
  <2> QED
    BY <2>2, OthersHonour
<1> QED
  BY <1>1, <1>2, <1>3

LEMMA HonourInit == Init => Contract!Init
<1> SUFFICES ASSUME Init PROVE Contract!Init
  OBVIOUS
<1>1. \A s \in Submissions : /\ row[s] = NewRow /\ post[s] = {}
                             /\ sent[s] = [completed |-> 0, failed |-> 0, progress |-> 0]
  BY DEF Init
<1>2. \A s \in Submissions : Verdict(s) = "none" /\ Asked(s) = {}
  BY <1>1 DEF Verdict, Asked, NewRow, PostKinds
<1>3. \A s \in Submissions : Heard(s) = "nothing" /\ sent[s].progress = 0
  BY <1>1 DEF Heard
<1>4. \A s \in Submissions : FollowUp(s) = "nothing"
  BY NullAssumption DEF Init, IdleRun, FollowUp, AboutTo
<1>5. post = [s \in Submissions |-> {}]
  BY DEF Init
<1> QED
  BY <1>2, <1>3, <1>4, <1>5 DEF Contract!Init

\* The scoring keeps the contract with the learner and with the post-processing:
\* whatever runs, retries and recoveries do to a submission, it is judged once,
\* by the run that still holds it; the event, the count and the hand-over follow
\* its verdict in this order and at most once, and post-processing gets the jobs
\* the score asked for and no other.
THEOREM ScoringHonoursContract == Spec => HonoursContract
<1>1. Init => KnownInv /\ OweInv /\ ToldOnce /\ TellInv
  <2>1. Init => ToldOnce /\ TellInv
    BY DEF Init, IdleRun, ToldOnce, TellInv, ToTell, ToCount, OneToTell
  <2> QED
    BY <2>1, OweInit
<1>2. TypeOK /\ TypeOK' /\ ToldOnce /\ TellInv /\ [Next]_vars => (ToldOnce /\ TellInv)'
  BY ToldStep
<1> QED
  BY <1>1, <1>2, TypeCorrect, KnownStep, OweStep, HonourInit, HonourStep, PTL
     DEF Spec, HonoursContract, Contract!Spec

=============================================================================
