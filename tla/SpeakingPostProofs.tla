------------------------- MODULE SpeakingPostProofs -------------------------
(* For every number of tasks, runs, schedulers, attempts and faults: a reward  *)
(* is paid once; one of a practice is paid up when complete, an exam's never.    *)
EXTENDS SpeakingPostProcessing, TLAPS

-----------------------------------------------------------------------------
(* The inductive invariant.                                                  *)

\* An effect is seen to: it is in the ledger, or its one-off row came to exist.
SeenTo(e, paid, ones) == e \in paid \/ e \in ones \ AtFirst

\* What a run can rely on, given the ledger, what was done, the rows and the
\* one-off rows.
Sound(x, led, don, rows, ones) ==
  LET t == x.task IN
  /\ x.pc \in {"load", "claim", "eligible"} => x.step = 1
  /\ x.pc = "eligible" => rows[t].kind = "REWARD"
  /\ x.pc \in {"work", "commit"} => x.step <= 5
  /\ rows[t].kind = "REWARD" /\ x.pc \in {"work", "commit", "earned"} => rows[t].eligible
  /\ x.pc = "persist" /\ rows[t].kind = "REWARD" /\ rows[t].eligible => x.step = 6
  /\ rows[t].kind = "REWARD" /\ x.pc \in {"work", "commit", "earned", "persist"} =>
       \A n \in 1 .. 5 : n < x.step /\ Effects[n] \in Promised => SeenTo(Effects[n], led[t], ones)
  /\ x.pc \in {"commit", "earned"} => rows[t].kind = "REWARD"
  /\ x.pc = "commit" => Effects[x.step] \notin led[t] /\ (Effects[x.step] \in AtFirst => x.saw)
  /\ x.pc = "earned" => x.step = 1 /\ "XP" \in led[t] /\ don[t]["earned"] = 0
  /\ x.pc = "tell" => rows[t].status \in {"COMPLETED", "FAILED"} /\ don[t]["completed"] = 0

\* Two runs of one task are not at the same effect, nor do both tell of it.
Apart(x, y) ==
  x.task = y.task =>
    /\ ~ (x.pc = "commit" /\ y.pc = "commit" /\ x.step = y.step)
    /\ ~ (x.pc = "earned" /\ y.pc = "earned")
    /\ ~ (x.pc = "tell" /\ y.pc = "tell")

RunInv ==
  /\ \A r \in Runs : run[r] # IdleRun => Sound(run[r], ledger, done, row, once)
  /\ \A r, q \in Runs : r # q /\ run[r] # IdleRun /\ run[q] # IdleRun => Apart(run[r], run[q])

\* What was done is what the ledger says; it counts and is told of afterwards.
Booked(led, don, rows, ones, t) ==
  /\ \A e \in EffectNames : don[t][e] = IF e \in led[t] THEN 1 ELSE 0
  /\ don[t]["earned"] <= 1 /\ ("XP" \notin led[t] => don[t]["earned"] = 0)
  /\ don[t]["completed"] <= 1
  /\ rows[t].status \in {"PENDING", "PROCESSING"} => don[t]["completed"] = 0
  /\ rows[t].kind = "REWARD" /\ rows[t].eligible /\ rows[t].status = "COMPLETED" =>
       \A e \in Promised : SeenTo(e, led[t], ones)
  /\ rows[t].kind = "REWARD" /\ ~ rows[t].eligible => led[t] = {}

BookInv == \A t \in Tasks : Booked(ledger, done, row, once, t)

IInv == TypeOK /\ AtFirst \subseteq once /\ RunInv /\ BookInv

-----------------------------------------------------------------------------
(* Constants.                                                                *)

LEMMA EffectFacts ==
  /\ Len(Effects) = 5
  /\ \A n \in 1 .. 5 : Effects[n] \in EffectNames
  /\ \A m, n \in 1 .. 5 : Effects[m] = Effects[n] => m = n
  /\ Effects[1] = "XP"
  /\ \A e \in EffectNames : \E n \in 1 .. 5 : Effects[n] = e
  /\ Promised \subseteq EffectNames
<1>1. Effects[1] = "XP" /\ Effects[2] = "BANH" /\ Effects[3] = "PET" /\ Effects[4] = "BADGE"
      /\ Effects[5] = "QUEST" /\ Len(Effects) = 5
  BY DEF Effects
<1>2. \A n \in 1 .. 5 : n = 1 \/ n = 2 \/ n = 3 \/ n = 4 \/ n = 5
  OBVIOUS
<1>3. Promised \subseteq EffectNames
  BY DEF Promised, EffectNames
<1> HIDE DEF Effects
<1> QED BY <1>1, <1>2, <1>3 DEF EffectNames

LEMMA RunFacts ==
  ASSUME TypeOK, NEW r \in Runs, run[r] # IdleRun
  PROVE  /\ run[r] \in RunType /\ run[r].task \in Tasks /\ run[r].pc \in Places
         /\ run[r].step \in 1 .. 6
<1>1. run[r] \in RunType
  BY DEF TypeOK
<1>2. run[r].step \in 1 .. Len(Effects) + 1 /\ run[r].task \in Tasks /\ run[r].pc \in Places
  BY <1>1 DEF RunType
<1> QED BY <1>1, <1>2, EffectFacts

LEMMA IdleFacts == IdleRun \notin RunType /\ IdleRun.pc = "idle" /\ IdleRun.step = 1 /\ IdleRun.saw = FALSE
BY DEF IdleRun, RunType, Places

\* A run stays sound while others write the ledger, the rows and what is done.
LEMMA SoundKept ==
  ASSUME NEW x, NEW l1, NEW l2, NEW d1, NEW d2, NEW w1, NEW w2,
         NEW o1, NEW o2, Sound(x, l1, d1, w1, o1),
         w2[x.task].kind = w1[x.task].kind, w2[x.task].eligible = w1[x.task].eligible,
         l1[x.task] \subseteq l2[x.task], o1 \subseteq o2,
         x.pc = "commit" => Effects[x.step] \notin l2[x.task],
         x.pc = "earned" => d2[x.task]["earned"] = d1[x.task]["earned"],
         x.pc = "tell" => d2[x.task]["completed"] = d1[x.task]["completed"],
         x.pc = "tell" => w2[x.task].status \in {"COMPLETED", "FAILED"}
  PROVE  Sound(x, l2, d2, w2, o2)
BY DEF Sound, SeenTo

-----------------------------------------------------------------------------
(* Init.                                                                     *)

LEMMA InitInv == Init => IInv
<1> SUFFICES ASSUME Init PROVE IInv
  OBVIOUS
<1>0. /\ row \in [Tasks -> [kind : Kinds, status : {"PENDING"}, worker : {NoRun},
                              expired : {FALSE}, eligible : BOOLEAN]]
      /\ job \in [Tasks -> {NoJob, [NoJob EXCEPT !.state = "waiting"]}]
      /\ run = [r \in Runs |-> IdleRun] /\ rec = [c \in Schedulers |-> IdleRec]
      /\ ledger = [t \in Tasks |-> {}] /\ done = [t \in Tasks |-> [o \in Outputs |-> 0]]
      /\ once = AtFirst /\ faults = 0
  <2> DEFINE ofExam(e) == [Asked EXCEPT !.kind = "REWARD", !.eligible = e]
             Records   == [kind : Kinds, status : {"PENDING"}, worker : {NoRun},
                           expired : {FALSE}, eligible : BOOLEAN]
  <2>1. Asked \in Records /\ \A e \in BOOLEAN : ofExam(e) \in Records
    BY DEF Asked, Kinds
  <2>2. row \in [Tasks -> {Asked} \cup {ofExam(e) : e \in BOOLEAN}]
    BY DEF Init
  <2> HIDE DEF ofExam, Records
  <2>3. row \in [Tasks -> Records]
    BY <2>1, <2>2
  <2> QED BY <2>3 DEF Init, Records
<1>1. TypeOK
  <2>1. row \in [Tasks -> RowType]
    BY <1>0 DEF RowType
  <2>2. job \in [Tasks -> JobType]
    BY <1>0 DEF JobType, NoJob
  <2>3. done \in [Tasks -> [Outputs -> Nat]]
    BY <1>0
  <2> QED BY <2>1, <2>2, <2>3, <1>0, FirstAssumption, AttemptsAssumption DEF TypeOK
<1>2. RunInv
  BY <1>0 DEF RunInv
<1>3. BookInv
  <2> SUFFICES ASSUME NEW t \in Tasks PROVE Booked(ledger, done, row, once, t)
    BY DEF BookInv
  <2>1. ledger[t] = {} /\ row[t].status = "PENDING"
    BY <1>0
  <2>2. \A o \in Outputs : done[t][o] = 0
    BY <1>0
  <2>3. EffectNames \subseteq Outputs /\ "earned" \in Outputs /\ "completed" \in Outputs
    BY DEF Outputs
  <2> QED BY <2>1, <2>2, <2>3 DEF Booked
<1> QED BY <1>0, <1>1, <1>2, <1>3 DEF IInv

-----------------------------------------------------------------------------
(* Steps that leave the rows, the ledger and what was done alone.            *)

\* A run that moves on, or ends, to where it is still sound and apart from the others.
LEMMA RunMoves ==
  ASSUME IInv, NEW r \in Runs, NEW y \in RunType \cup {IdleRun}, run' = [run EXCEPT ![r] = y],
         y # IdleRun => Sound(y, ledger, done, row, once),
         \A q \in Runs : q # r /\ run[q] # IdleRun /\ y # IdleRun => Apart(y, run[q]),
         UNCHANGED <<row, ledger, done, once>>
  PROVE  RunInv' /\ BookInv' /\ run' \in [Runs -> RunType \cup {IdleRun}]
<1>1. run \in [Runs -> RunType \cup {IdleRun}]
  BY DEF IInv, TypeOK
<1>2. \A q \in Runs : run'[q] = IF q = r THEN y ELSE run[q]
  BY <1>1
<1>3. BookInv'
  BY DEF IInv, BookInv, Booked
<1>4. run' \in [Runs -> RunType \cup {IdleRun}]
  BY <1>1
<1>5. \A q \in Runs : run'[q] # IdleRun => Sound(run'[q], ledger', done', row', once')
  BY <1>2 DEF IInv, RunInv
<1>6. \A p, q \in Runs : p # q /\ run'[p] # IdleRun /\ run'[q] # IdleRun => Apart(run'[p], run'[q])
  <2> SUFFICES ASSUME NEW p \in Runs, NEW q \in Runs, p # q, run'[p] # IdleRun, run'[q] # IdleRun
               PROVE  Apart(run'[p], run'[q])
    OBVIOUS
  <2>1. CASE p = r
    BY <1>2, <2>1
  <2>2. CASE q = r
    <3>1. Apart(y, run[p]) /\ run'[p] = run[p] /\ run'[q] = y
      BY <1>2, <2>2
    <3> QED BY <3>1 DEF Apart
  <2>3. CASE p # r /\ q # r
    BY <1>2, <2>3 DEF IInv, RunInv
  <2> QED BY <2>1, <2>2, <2>3
<1> QED BY <1>3, <1>4, <1>5, <1>6 DEF RunInv

\* The queue, the cycles and the clock of the leases.
LEMMA RunsStay ==
  ASSUME IInv, UNCHANGED <<row, run, ledger, done>>, once \subseteq once'
  PROVE  RunInv' /\ BookInv'
<1>1. ASSUME NEW r \in Runs, run[r] # IdleRun PROVE Sound(run[r], ledger, done, row, once')
  <2>1. Sound(run[r], ledger, done, row, once)
    BY <1>1 DEF IInv, RunInv
  <2>2. /\ run[r].pc = "commit" => Effects[run[r].step] \notin ledger[run[r].task]
        /\ run[r].pc = "tell" => row[run[r].task].status \in {"COMPLETED", "FAILED"}
        /\ ledger[run[r].task] \subseteq ledger[run[r].task]
    BY <2>1 DEF Sound
  <2> QED BY <2>1, <2>2, SoundKept
<1>2. RunInv'
  BY <1>1 DEF RunInv, IInv, Apart
<1>3. ASSUME NEW t \in Tasks PROVE Booked(ledger, done, row, once', t)
  BY DEF IInv, BookInv, Booked, SeenTo
<1> QED BY <1>2, <1>3 DEF BookInv

LEMMA FaultFacts == ASSUME IInv, Fault PROVE faults' \in 0 .. MaxFaults
BY AttemptsAssumption DEF IInv, TypeOK, Fault

-----------------------------------------------------------------------------
(* Steps of the queue, the cycles and the world.                             *)

\* What a step that touches none of the submission's records has to show.
LEMMA QuietStep ==
  ASSUME IInv, UNCHANGED <<row, run, ledger, done>>,
         job' \in [Tasks -> JobType], rec' \in [Schedulers -> RecType \cup {IdleRec}],
         once \subseteq once', once' \subseteq OneOff, faults' \in 0 .. MaxFaults
  PROVE  IInv'
<1>1. TypeOK' /\ (AtFirst \subseteq once)'
  BY DEF IInv, TypeOK
<1> QED BY <1>1, RunsStay DEF IInv

LEMMA JobFacts ==
  ASSUME IInv, NEW t \in Tasks
  PROVE  /\ job[t] \in JobType /\ NoJob \in JobType
         /\ \A s \in {"none", "waiting", "active", "delayed", "completed", "failed"} :
              \A h \in Runs \cup {NoRun} : [job[t] EXCEPT !.state = s, !.holder = h] \in JobType
         /\ \A s \in {"none", "waiting", "active", "delayed", "completed", "failed"} :
              [job[t] EXCEPT !.state = s] \in JobType
BY DEF IInv, TypeOK, JobType, NoJob

LEMMA BackoffElapsesKeeps ==
  ASSUME IInv, NEW t \in Tasks, BackoffElapses(t) PROVE IInv'
<1>1. job' \in [Tasks -> JobType]
  BY JobFacts DEF BackoffElapses, IInv, TypeOK
<1> QED BY <1>1, QuietStep DEF BackoffElapses, IInv, TypeOK

LEMMA LockGoneKeeps ==
  ASSUME IInv, NEW t \in Tasks, NEW s \in {"waiting", "failed"}, LockGone(t, s),
         faults' \in 0 .. MaxFaults
  PROVE  IInv'
<1>1. job' \in [Tasks -> JobType]
  BY JobFacts DEF LockGone, IInv, TypeOK
<1> QED BY <1>1, QuietStep DEF LockGone, IInv, TypeOK

LEMMA StalledKeeps ==
  ASSUME IInv, NEW t \in Tasks, NEW s \in {"waiting", "failed"}, Stalled(t, s) PROVE IInv'
BY LockGoneKeeps DEF Stalled, IInv, TypeOK

LEMMA LockLostKeeps ==
  ASSUME IInv, NEW t \in Tasks, NEW s \in {"waiting", "failed"}, LockLost(t, s) PROVE IInv'
BY LockGoneKeeps, FaultFacts DEF LockLost

LEMMA ElsewhereKeeps ==
  ASSUME IInv, NEW e \in OneOff, Elsewhere(e) PROVE IInv'
<1>1. once \subseteq once' /\ once' \subseteq OneOff
  BY DEF Elsewhere, IInv, TypeOK
<1> QED BY <1>1, QuietStep DEF Elsewhere, IInv, TypeOK

LEMMA SnapshotKeeps ==
  ASSUME IInv, NEW c \in Schedulers, NEW t \in Tasks, Snapshot(c, t) PROVE IInv'
<1>1. [pc |-> "inspect", task |-> t, status |-> row[t].status] \in RecType
  BY DEF Snapshot, Candidate, RecType
<1>2. rec' \in [Schedulers -> RecType \cup {IdleRec}]
  BY <1>1 DEF Snapshot, IInv, TypeOK
<1> QED BY <1>2, QuietStep DEF Snapshot, IInv, TypeOK

LEMMA RecFacts ==
  ASSUME IInv, NEW c \in Schedulers, rec[c] # IdleRec
  PROVE  /\ rec[c] \in RecType /\ rec[c].task \in Tasks
         /\ \A pc \in {"inspect", "remove", "reset", "enqueue", "fail"} :
              [rec[c] EXCEPT !.pc = pc] \in RecType
BY DEF IInv, TypeOK, RecType

LEMMA InspectKeeps ==
  ASSUME IInv, NEW c \in Schedulers, Inspect(c) PROVE IInv'
<1> DEFINE remedy == Remedy(c, job[rec[c].task])
<1>1. rec[c] # IdleRec
  BY DEF Inspect, IdleRec
<1>2. remedy \in {"reset", "skip", "remove", "enqueue", "fail"}
  BY DEF Remedy
<1>3. rec' = [rec EXCEPT ![c] = IF remedy = "skip" THEN IdleRec ELSE [rec[c] EXCEPT !.pc = remedy]]
  BY DEF Inspect
<1> HIDE DEF remedy
<1>4. rec' \in [Schedulers -> RecType \cup {IdleRec}]
  BY <1>1, <1>2, <1>3, RecFacts DEF IInv, TypeOK
<1> QED BY <1>4, QuietStep DEF Inspect, IInv, TypeOK

LEMMA RemoveKeeps ==
  ASSUME IInv, NEW c \in Schedulers, Remove(c) PROVE IInv'
<1>1. rec[c] # IdleRec
  BY DEF Remove, IdleRec
<1>2. job' \in [Tasks -> JobType]
  BY <1>1, RecFacts, JobFacts DEF Remove, IInv, TypeOK
<1>3. rec' \in [Schedulers -> RecType \cup {IdleRec}]
  BY <1>1, RecFacts DEF Remove, IInv, TypeOK
<1> QED BY <1>2, <1>3, QuietStep DEF Remove, IInv, TypeOK

LEMMA EnqueueKeeps ==
  ASSUME IInv, NEW c \in Schedulers, Enqueue(c) PROVE IInv'
<1>1. rec[c] # IdleRec
  BY DEF Enqueue, IdleRec
<1>2. Added(rec[c].task) \in JobType
  <2>1. job[rec[c].task] \in JobType /\ NoJob \in JobType
    BY <1>1, RecFacts, JobFacts
  <2>2. [NoJob EXCEPT !.state = "waiting"] \in JobType
    BY DEF NoJob, JobType
  <2> QED BY <2>1, <2>2 DEF Added
<1>3. job' \in [Tasks -> JobType] /\ rec' \in [Schedulers -> RecType \cup {IdleRec}]
  BY <1>2 DEF Enqueue, IInv, TypeOK
<1> QED BY <1>3, QuietStep DEF Enqueue, IInv, TypeOK

LEMMA CycleFailsKeeps ==
  ASSUME IInv, NEW c \in Schedulers, CycleFails(c) PROVE IInv'
<1>1. rec' \in [Schedulers -> RecType \cup {IdleRec}]
  BY DEF CycleFails, IInv, TypeOK
<1>2. faults' \in 0 .. MaxFaults
  BY FaultFacts DEF CycleFails
<1> QED BY <1>1, <1>2, QuietStep DEF CycleFails, IInv, TypeOK

-----------------------------------------------------------------------------
(* Writes of the row by the clock and the cycles.                            *)

\* A row keeps its kind; once settled it stays settled, and becomes complete only
\* by the run that was paid up.
LEMMA RowWritten ==
  ASSUME IInv, NEW t \in Tasks, NEW w, row' = [row EXCEPT ![t] = w], w \in RowType,
         w.kind = row[t].kind, w.eligible = row[t].eligible,
         row[t].status \in {"COMPLETED", "FAILED"} => w.status \in {"COMPLETED", "FAILED"},
         w.status = "COMPLETED" => row[t].status = "COMPLETED",
         UNCHANGED <<run, ledger, done, once>>
  PROVE  RunInv' /\ BookInv' /\ row' \in [Tasks -> RowType]
<1>0. row \in [Tasks -> RowType] /\ TypeOK
  BY DEF IInv, TypeOK
<1>1. \A u \in Tasks : row'[u] = IF u = t THEN w ELSE row[u]
  BY <1>0
<1>2. \A u \in Tasks : Booked(ledger, done, row, once, u)'
  <2> SUFFICES ASSUME NEW u \in Tasks PROVE Booked(ledger, done, row, once, u)'
    OBVIOUS
  <2>1. Booked(ledger, done, row, once, u)
    BY DEF IInv, BookInv
  <2>2. row[u].status \in {"PENDING", "PROCESSING", "COMPLETED", "FAILED"}
    BY <1>0 DEF RowType
  <2> QED BY <2>1, <2>2, <1>1 DEF Booked
<1>3. \A r \in Runs : run[r] # IdleRun => Sound(run[r], ledger, done, row', once)
  <2> SUFFICES ASSUME NEW r \in Runs, run[r] # IdleRun PROVE Sound(run[r], ledger, done, row', once)
    OBVIOUS
  <2>1. Sound(run[r], ledger, done, row, once) /\ run[r].task \in Tasks
    BY RunFacts, <1>0 DEF IInv, RunInv
  <2>2. run[r].pc = "tell" => row[run[r].task].status \in {"COMPLETED", "FAILED"}
    BY <2>1 DEF Sound
  <2>3. /\ row'[run[r].task].kind = row[run[r].task].kind
        /\ row'[run[r].task].eligible = row[run[r].task].eligible
    BY <2>1, <1>1
  <2>4. run[r].pc = "tell" => row'[run[r].task].status \in {"COMPLETED", "FAILED"}
    BY <2>1, <2>2, <1>1
  <2>5. run[r].pc = "commit" => Effects[run[r].step] \notin ledger[run[r].task]
    BY <2>1 DEF Sound
  <2> QED BY <2>1, <2>3, <2>4, <2>5, SoundKept
<1>4. RunInv'
  BY <1>3 DEF RunInv, IInv, Apart
<1> QED BY <1>0, <1>2, <1>4 DEF BookInv

LEMMA RowFacts ==
  ASSUME IInv, NEW t \in Tasks
  PROVE  row[t] \in RowType /\ row[t].status \in {"PENDING", "PROCESSING", "COMPLETED", "FAILED"}
BY DEF IInv, TypeOK, RowType

LEMMA LeaseExpiresKeeps ==
  ASSUME IInv, NEW t \in Tasks, LeaseExpires(t) PROVE IInv'
<1> DEFINE w == [row[t] EXCEPT !.expired = TRUE]
<1>1. w \in RowType /\ w.kind = row[t].kind /\ w.eligible = row[t].eligible /\ w.status = row[t].status
  BY RowFacts DEF RowType
<1>2. row' = [row EXCEPT ![t] = w]
  BY DEF LeaseExpires, IInv, TypeOK
<1> HIDE DEF w
<1>3. RunInv' /\ BookInv' /\ row' \in [Tasks -> RowType]
  BY <1>1, <1>2, RowWritten DEF LeaseExpires
<1> QED BY <1>3 DEF LeaseExpires, IInv, TypeOK

LEMMA ResetKeeps ==
  ASSUME IInv, NEW c \in Schedulers, Reset(c) PROVE IInv'
<1> DEFINE t == rec[c].task
           w == IF row[t].status = "PROCESSING"
                THEN [row[t] EXCEPT !.status = "PENDING", !.worker = NoRun] ELSE row[t]
<1>0. rec[c] # IdleRec
  BY DEF Reset, IdleRec
<1>1. rec[c] # IdleRec /\ t \in Tasks
  BY <1>0, RecFacts
<1>2. /\ w \in RowType /\ w.kind = row[t].kind /\ w.eligible = row[t].eligible
      /\ row[t].status \in {"COMPLETED", "FAILED"} => w.status \in {"COMPLETED", "FAILED"}
      /\ w.status = "COMPLETED" => row[t].status = "COMPLETED"
  <2>1. row[t] \in RowType
    BY <1>1, RowFacts
  <2>2. CASE row[t].status = "PROCESSING"
    <3>1. w = [row[t] EXCEPT !.status = "PENDING", !.worker = NoRun]
      BY <2>2
    <3>2. w \in RowType /\ w.kind = row[t].kind /\ w.eligible = row[t].eligible /\ w.status = "PENDING"
      BY <3>1, <2>1 DEF RowType
    <3> QED BY <3>2, <2>2
  <2>3. CASE row[t].status # "PROCESSING"
    <3>1. w = row[t]
      BY <2>3
    <3> QED BY <3>1, <2>1
  <2> QED BY <2>2, <2>3
<1>3. row' = [row EXCEPT ![t] = w]
  BY <1>1 DEF Reset, IInv, TypeOK
<1>4. UNCHANGED <<run, ledger, done, job, once, faults>>
  BY DEF Reset
<1>5. rec' \in [Schedulers -> RecType \cup {IdleRec}]
  BY <1>1, RecFacts DEF Reset, IInv, TypeOK
<1> HIDE DEF t, w
<1>6. RunInv' /\ BookInv' /\ row' \in [Tasks -> RowType]
  BY <1>1, <1>2, <1>3, <1>4, RowWritten
<1> QED BY <1>4, <1>5, <1>6 DEF IInv, TypeOK

LEMMA FailExhaustedKeeps ==
  ASSUME IInv, NEW c \in Schedulers, FailExhausted(c) PROVE IInv'
<1> DEFINE t == rec[c].task
           w == [row[t] EXCEPT !.status = "FAILED"]
<1>0. rec[c] # IdleRec
  BY DEF FailExhausted, IdleRec
<1>1. rec[c] # IdleRec /\ t \in Tasks
  BY <1>0, RecFacts
<1>2. w \in RowType /\ w.kind = row[t].kind /\ w.eligible = row[t].eligible /\ w.status = "FAILED"
  BY <1>1, RowFacts DEF RowType
<1>3. row' = [row EXCEPT ![t] = w]
  BY <1>1 DEF FailExhausted, IInv, TypeOK
<1>4. UNCHANGED <<run, ledger, done, job, once, faults>>
  BY DEF FailExhausted
<1>5. rec' \in [Schedulers -> RecType \cup {IdleRec}]
  BY DEF FailExhausted, IInv, TypeOK
<1> HIDE DEF t, w
<1>6. RunInv' /\ BookInv' /\ row' \in [Tasks -> RowType]
  BY <1>1, <1>2, <1>3, <1>4, RowWritten
<1> QED BY <1>4, <1>5, <1>6 DEF IInv, TypeOK

-----------------------------------------------------------------------------
(* Moves of a run that write nothing.                                        *)

LEMMA MoveKeeps ==
  ASSUME IInv, NEW r \in Runs, NEW y \in RunType \cup {IdleRun}, run' = [run EXCEPT ![r] = y],
         y # IdleRun => Sound(y, ledger, done, row, once),
         \A q \in Runs : q # r /\ run[q] # IdleRun /\ y # IdleRun => Apart(y, run[q]),
         UNCHANGED <<row, ledger, done, rec, once>>, job' \in [Tasks -> JobType],
         faults' \in 0 .. MaxFaults
  PROVE  IInv'
<1>1. RunInv' /\ BookInv' /\ run' \in [Runs -> RunType \cup {IdleRun}]
  BY RunMoves
<1> QED BY <1>1 DEF IInv, TypeOK

\* A place at which a run promises no more than where it was.
LEMMA GotoKeeps ==
  ASSUME IInv, NEW r \in Runs, run[r] # IdleRun, NEW pc \in Places, Goto(r, pc),
         \/ pc \in {"catch", "tellFailed", "return", "throw"}
         \/ pc = "claim" /\ run[r].pc = "load"
         \/ pc = "work" /\ run[r].pc = "eligible" /\ row[run[r].task].eligible
         \/ pc = "persist" /\ run[r].pc = "eligible" /\ ~ row[run[r].task].eligible
         \/ pc = "persist" /\ run[r].pc = "work" /\ row[run[r].task].kind # "REWARD",
         UNCHANGED <<row, ledger, done, rec, once, job>>, faults' \in 0 .. MaxFaults
  PROVE  IInv'
<1> DEFINE x == run[r]
           y == [x EXCEPT !.pc = pc]
<1>1. x \in RunType /\ Sound(x, ledger, done, row, once)
  BY RunFacts DEF IInv, RunInv
<1>2. y \in RunType /\ y.pc = pc /\ y.task = x.task /\ y.step = x.step /\ y.saw = x.saw
  BY <1>1 DEF RunType
<1>3. run' = [run EXCEPT ![r] = y]
  BY DEF Goto, IInv, TypeOK
<1>4. pc \notin {"commit", "earned", "tell", "eligible"}
  OBVIOUS
<1> HIDE DEF y
<1>5. Sound(y, ledger, done, row, once)
  BY <1>1, <1>2, <1>4 DEF Sound
<1>6. \A q \in Runs : q # r /\ run[q] # IdleRun => Apart(y, run[q])
  BY <1>2, <1>4 DEF Apart
<1>7. job' \in [Tasks -> JobType]
  BY DEF IInv, TypeOK
<1> QED BY <1>2, <1>3, <1>5, <1>6, <1>7, MoveKeeps

LEMMA LoadKeeps ==
  ASSUME IInv, NEW r \in Runs, Load(r) PROVE IInv'
<1>1. run[r] # IdleRun /\ run[r].pc = "load"
  BY IdleFacts DEF Load
<1>2. Goto(r, "return") \/ Goto(r, "claim")
  BY DEF Load
<1>3. "return" \in Places /\ "claim" \in Places
  BY DEF Places
<1> QED BY <1>1, <1>2, <1>3, GotoKeeps DEF Load, IInv, TypeOK

LEMMA EligibilityKeeps ==
  ASSUME IInv, NEW r \in Runs, Eligibility(r) PROVE IInv'
<1>1. run[r] # IdleRun /\ run[r].pc = "eligible"
  BY IdleFacts DEF Eligibility
<1>2. "work" \in Places /\ "persist" \in Places
  BY DEF Places
<1>3. CASE row[run[r].task].eligible
  <2>1. Goto(r, "work")
    BY <1>3 DEF Eligibility
  <2> QED BY <1>1, <1>2, <1>3, <2>1, GotoKeeps DEF Eligibility, IInv, TypeOK
<1>4. CASE ~ row[run[r].task].eligible
  <2>1. Goto(r, "persist")
    BY <1>4 DEF Eligibility
  <2> QED BY <1>1, <1>2, <1>4, <2>1, GotoKeeps DEF Eligibility, IInv, TypeOK
<1> QED BY <1>3, <1>4

LEMMA RewordKeeps ==
  ASSUME IInv, NEW r \in Runs, Reword(r) PROVE IInv'
<1>1. run[r] # IdleRun /\ run[r].pc = "work" /\ row[run[r].task].kind # "REWARD"
  BY IdleFacts DEF Reword, Rewards
<1>2. Goto(r, "persist") /\ "persist" \in Places
  BY DEF Reword, Places
<1> QED BY <1>1, <1>2, GotoKeeps DEF Reword, IInv, TypeOK

LEMMA FailsKeeps ==
  ASSUME IInv, NEW r \in Runs, Fails(r) PROVE IInv'
<1>1. run[r] # IdleRun
  BY IdleFacts DEF Fails, Places
<1>2. Goto(r, "throw") \/ Goto(r, "catch")
  BY DEF Fails
<1>3. "throw" \in Places /\ "catch" \in Places
  BY DEF Places
<1>4. faults' \in 0 .. MaxFaults
  BY FaultFacts DEF Fails
<1> QED BY <1>1, <1>2, <1>3, <1>4, GotoKeeps DEF Fails

LEMMA EndKeeps ==
  ASSUME IInv, NEW r \in Runs, End(r) PROVE IInv'
<1> DEFINE t == run[r].task
<1>1. run[r] # IdleRun
  BY IdleFacts DEF End
<1>2. t \in Tasks
  BY <1>1, RunFacts DEF IInv
<1>3. JobSettled(r, t) \in JobType
  <2>0. job[t] \in JobType
    BY <1>2, JobFacts
  <2>1. job[t] \in JobType /\ job[t].made \in Nat
    BY <2>0 DEF JobType
  <2>2. [job[t] EXCEPT !.state = "completed", !.holder = NoRun] \in JobType
    BY <2>1 DEF JobType
  <2>3. \A s \in {"delayed", "failed"} :
          [state |-> s, made |-> job[t].made + 1, holder |-> NoRun] \in JobType
    BY <2>1 DEF JobType
  <2> QED BY <2>1, <2>2, <2>3 DEF JobSettled
<1>4. job' \in [Tasks -> JobType]
  BY <1>3 DEF End, IInv, TypeOK
<1> QED BY <1>4, MoveKeeps DEF End, IInv, TypeOK

LEMMA CrashKeeps ==
  ASSUME IInv, NEW r \in Runs, Crash(r) PROVE IInv'
<1>1. faults' \in 0 .. MaxFaults
  BY FaultFacts DEF Crash
<1> QED BY <1>1, MoveKeeps DEF Crash, IInv, TypeOK

LEMMA TakeJobKeeps ==
  ASSUME IInv, NEW r \in Runs, NEW t \in Tasks, TakeJob(r, t) PROVE IInv'
<1> DEFINE made == job[t].made + 1
           y == [pc |-> "load", task |-> t, attempt |-> made, step |-> 1, saw |-> FALSE]
<1>0. job[t] \in JobType
  BY JobFacts
<1>1. made \in Nat
  BY <1>0 DEF JobType
<1>2. run' = [run EXCEPT ![r] = y]
  BY DEF TakeJob
<1> HIDE DEF made
<1>3. y \in RunType /\ y.pc = "load" /\ y.task = t /\ y.step = 1
  BY <1>1, EffectFacts DEF RunType, Places
<1> HIDE DEF y
<1>4. Sound(y, ledger, done, row, once)
  BY <1>3 DEF Sound
<1>5. \A q \in Runs : q # r /\ run[q] # IdleRun => Apart(y, run[q])
  BY <1>3 DEF Apart
<1>6. job' \in [Tasks -> JobType]
  BY JobFacts DEF TakeJob, IInv, TypeOK
<1>7. UNCHANGED <<row, ledger, done, rec, once>> /\ faults' \in 0 .. MaxFaults
  BY DEF TakeJob, IInv, TypeOK
<1> QED BY <1>2, <1>3, <1>4, <1>5, <1>6, <1>7, MoveKeeps

\* The place after an effect.
NextOf(x) == [x EXCEPT !.step = x.step + 1, !.saw = FALSE,
                       !.pc = IF x.step = 5 THEN "persist" ELSE "work"]

LEMMA NextEffectFact ==
  ASSUME IInv, NEW r \in Runs, NextEffect(r)
  PROVE  run' = [run EXCEPT ![r] = NextOf(run[r])]
<1>1. Len(Effects) = 5 /\ run \in [Runs -> RunType \cup {IdleRun}]
  BY EffectFacts DEF IInv, TypeOK
<1>2. run' = [run EXCEPT ![r] = [run[r] EXCEPT !.step = run[r].step + 1, !.saw = FALSE,
                                   !.pc = IF run[r].step = Len(Effects) THEN "persist" ELSE "work"]]
  BY <1>1 DEF NextEffect
<1> QED BY <1>1, <1>2 DEF NextOf

\* After an effect that is in the ledger, or need not be, the next one can begin.
LEMMA NextEffectSound ==
  ASSUME IInv, NEW r \in Runs, NEW l, NEW d, NEW w, NEW o, run[r].pc \in {"work", "commit", "earned"},
         Effects[run[r].step] \in Promised => SeenTo(Effects[run[r].step], l[run[r].task], o),
         ledger[run[r].task] \subseteq l[run[r].task], once \subseteq o,
         row[run[r].task].kind = "REWARD", w[run[r].task].kind = "REWARD",
         w[run[r].task].eligible = row[run[r].task].eligible
  PROVE  /\ NextOf(run[r]) \in RunType /\ NextOf(run[r]) # IdleRun
         /\ NextOf(run[r]).task = run[r].task /\ NextOf(run[r]).pc \in {"work", "persist"}
         /\ Sound(NextOf(run[r]), l, d, w, o)
<1> DEFINE y == NextOf(run[r])
           x == run[r]
<1>1. x # IdleRun
  BY IdleFacts
<1>2. x \in RunType /\ x.step \in 1 .. 6 /\ Sound(x, ledger, done, row, once)
  BY <1>1, RunFacts DEF IInv, RunInv
<1>3. x.step \in 1 .. 5
  <2>1. x.pc \in {"work", "commit"} => x.step <= 5
    BY <1>2 DEF Sound
  <2>2. x.pc = "earned" => x.step = 1
    BY <1>2 DEF Sound
  <2> QED BY <1>2, <2>1, <2>2
<1>4. y.step = x.step + 1 /\ y.task = x.task /\ y.pc = (IF x.step = 5 THEN "persist" ELSE "work")
  BY <1>2 DEF RunType, NextOf
<1>5. y \in RunType
  <2>1. x.step + 1 \in 1 .. Len(Effects) + 1
    BY <1>3, EffectFacts
  <2> QED BY <1>2, <2>1 DEF RunType, Places, NextOf
<1> HIDE DEF y
<1>6. y # IdleRun
  BY <1>5, IdleFacts
<1>7. /\ \A n \in 1 .. 5 : n < x.step /\ Effects[n] \in Promised => SeenTo(Effects[n], ledger[x.task], once)
      /\ row[x.task].eligible
  BY <1>2 DEF Sound
<1>8. \A n \in 1 .. 5 : n < y.step /\ Effects[n] \in Promised => SeenTo(Effects[n], l[y.task], o)
  <2> SUFFICES ASSUME NEW n \in 1 .. 5, n < y.step, Effects[n] \in Promised
               PROVE  SeenTo(Effects[n], l[y.task], o)
    OBVIOUS
  <2>1. CASE n = x.step
    BY <2>1, <1>4
  <2>2. CASE n # x.step
    <3>1. n < x.step
      BY <2>2, <1>3, <1>4
    <3>2. SeenTo(Effects[n], ledger[x.task], once)
      BY <3>1, <1>7
    <3> QED BY <3>2, <1>4 DEF SeenTo
  <2> QED BY <2>1, <2>2
<1>9. Sound(y, l, d, w, o)
  <2>1. y.pc \in {"work", "persist"} /\ (y.pc = "work" => y.step <= 5) /\ (y.pc = "persist" => y.step = 6)
    BY <1>3, <1>4
  <2>2. w[y.task].eligible /\ w[y.task].kind = "REWARD"
    BY <1>4, <1>7
  <2> QED BY <2>1, <2>2, <1>8 DEF Sound
<1> QED BY <1>4, <1>5, <1>6, <1>9 DEF y

LEMMA NextEffectKeeps ==
  ASSUME IInv, NEW r \in Runs, NextEffect(r), run[r].pc \in {"work", "commit"},
         row[run[r].task].kind = "REWARD",
         Effects[run[r].step] \in Promised => SeenTo(Effects[run[r].step], ledger[run[r].task], once),
         UNCHANGED <<row, job, rec, ledger, once, done, faults>>
  PROVE  IInv'
<1> DEFINE y == NextOf(run[r])
<1>1. run' = [run EXCEPT ![r] = y]
  BY NextEffectFact
<1>2. /\ y \in RunType /\ y # IdleRun /\ y.task = run[r].task /\ y.pc \in {"work", "persist"}
      /\ Sound(y, ledger, done, row, once)
  BY NextEffectSound
<1> HIDE DEF y
<1>3. \A q \in Runs : q # r /\ run[q] # IdleRun => Apart(y, run[q])
  BY <1>2 DEF Apart
<1> QED BY <1>1, <1>2, <1>3, MoveKeeps DEF IInv, TypeOK

LEMMA SkipKeeps ==
  ASSUME IInv, NEW r \in Runs, Skip(r) PROVE IInv'
<1>1. row[run[r].task].kind = "REWARD"
  BY DEF Skip, Rewards
<1>2. "BADGE" \notin Promised /\ "QUEST" \notin Promised
  BY DEF Promised
<1> QED BY <1>1, <1>2, NextEffectKeeps DEF Skip, Effect, SeenTo

LEMMA TakenForDoneKeeps ==
  ASSUME IInv, NEW r \in Runs, TakenForDone(r) PROVE IInv'
<1>1. run[r] # IdleRun /\ run[r].pc = "commit"
  BY IdleFacts DEF TakenForDone
<1>2. Sound(run[r], ledger, done, row, once)
  BY <1>1 DEF IInv, RunInv
<1>3. row[run[r].task].kind = "REWARD" /\ Effects[run[r].step] \notin AtFirst
  BY <1>1, <1>2 DEF Sound, TakenForDone, Conflict, Effect
<1>4. SeenTo(Effects[run[r].step], ledger[run[r].task], once)
  BY <1>3 DEF TakenForDone, Conflict, Effect, SeenTo
<1> QED BY <1>1, <1>3, <1>4, NextEffectKeeps DEF TakenForDone

LEMMA BeginKeeps ==
  ASSUME IInv, NEW r \in Runs, Begin(r) PROVE IInv'
<1> DEFINE x == run[r]
           y == [x EXCEPT !.pc = "commit", !.saw = Effect(r) \in once]
<1>1. x # IdleRun /\ x.pc = "work"
  BY IdleFacts DEF Begin
<1>2. x \in RunType /\ Sound(x, ledger, done, row, once) /\ x.step \in 1 .. 6
  BY <1>1, RunFacts DEF IInv, RunInv
<1>3. /\ y \in RunType /\ y.pc = "commit" /\ y.task = x.task /\ y.step = x.step
      /\ Effects[x.step] \in once => y.saw
  <2>1. (Effect(r) \in once) \in BOOLEAN
    OBVIOUS
  <2>2. y \in RunType
    BY <1>2, <2>1 DEF RunType, Places
  <2>3. y.pc = "commit" /\ y.task = x.task /\ y.step = x.step
    BY <1>2 DEF RunType
  <2>4. Effects[x.step] \in once => y.saw
    BY <1>2 DEF RunType, Effect
  <2> QED BY <2>2, <2>3, <2>4
<1>4. run' = [run EXCEPT ![r] = y]
  BY DEF Begin, IInv, TypeOK
<1> HIDE DEF y
<1>5. Sound(y, ledger, done, row, once)
  <2>1. Effects[x.step] \notin ledger[x.task] /\ row[x.task].kind = "REWARD"
    BY DEF Begin, Effect, Rewards
  <2>2. Effects[y.step] \in AtFirst => y.saw
    BY <1>3 DEF IInv
  <2> QED BY <1>1, <1>2, <1>3, <2>1, <2>2 DEF Sound
<1>6. \A q \in Runs : q # r /\ run[q] # IdleRun => Apart(y, run[q])
  BY <1>3 DEF Begin, Apart
<1> QED BY <1>3, <1>4, <1>5, <1>6, MoveKeeps DEF Begin, IInv, TypeOK

-----------------------------------------------------------------------------
(* Moves of a run that write the row, the ledger or what was done.           *)

LEMMA WriteKeeps ==
  ASSUME IInv, NEW r \in Runs, NEW y \in RunType, run' = [run EXCEPT ![r] = y],
         Sound(y, ledger', done', row', once'),
         \A q \in Runs : q # r /\ run[q] # IdleRun =>
           Apart(y, run[q]) /\ Sound(run[q], ledger', done', row', once')
  PROVE  RunInv' /\ run' \in [Runs -> RunType \cup {IdleRun}]
<1>1. run \in [Runs -> RunType \cup {IdleRun}]
  BY DEF IInv, TypeOK
<1>2. \A q \in Runs : run'[q] = IF q = r THEN y ELSE run[q]
  BY <1>1
<1>3. run' \in [Runs -> RunType \cup {IdleRun}]
  BY <1>1
<1>4. \A q \in Runs : run'[q] # IdleRun => Sound(run'[q], ledger', done', row', once')
  BY <1>2
<1>5. \A p, q \in Runs : p # q /\ run'[p] # IdleRun /\ run'[q] # IdleRun => Apart(run'[p], run'[q])
  <2> SUFFICES ASSUME NEW p \in Runs, NEW q \in Runs, p # q, run'[p] # IdleRun, run'[q] # IdleRun
               PROVE  Apart(run'[p], run'[q])
    OBVIOUS
  <2>1. CASE p = r
    BY <1>2, <2>1
  <2>2. CASE q = r
    <3>1. Apart(y, run[p]) /\ run'[p] = run[p] /\ run'[q] = y
      BY <1>2, <2>2
    <3> QED BY <3>1 DEF Apart
  <2>3. CASE p # r /\ q # r
    BY <1>2, <2>3 DEF IInv, RunInv
  <2> QED BY <2>1, <2>2, <2>3
<1> QED BY <1>3, <1>4, <1>5 DEF RunInv

LEMMA GotoFact ==
  ASSUME IInv, NEW r \in Runs, run[r] # IdleRun, NEW pc \in Places, Goto(r, pc),
         NEW y, y = [run[r] EXCEPT !.pc = pc]
  PROVE  /\ run' = [run EXCEPT ![r] = y] /\ y \in RunType
         /\ y.pc = pc /\ y.task = run[r].task /\ y.step = run[r].step /\ y.saw = run[r].saw
<1>1. run[r] \in RunType
  BY RunFacts DEF IInv
<1> QED BY <1>1 DEF Goto, RunType, IInv, TypeOK

\* Claim, Persist and Catch: the row of the run's task, and its place.
LEMMA RowMove ==
  ASSUME IInv, NEW r \in Runs, run[r] # IdleRun, NEW pc \in Places, Goto(r, pc),
         NEW w, row' = [row EXCEPT ![run[r].task] = w], w \in RowType,
         w.kind = row[run[r].task].kind, w.eligible = row[run[r].task].eligible,
         row[run[r].task].status \in {"COMPLETED", "FAILED"} => w = row[run[r].task],
         \/ pc \in {"return", "throw", "tellFailed"}
            /\ (w.status = "COMPLETED" => row[run[r].task].status = "COMPLETED")
         \/ /\ pc = IF w.kind = "REWARD" THEN "eligible" ELSE "work"
            /\ run[r].pc = "claim" /\ w.status = "PROCESSING"
         \/ /\ pc = "tell" /\ run[r].pc = "persist" /\ w.status = "COMPLETED"
            /\ row[run[r].task].status = "PROCESSING",
         UNCHANGED <<job, rec, ledger, once, done, faults>>
  PROVE  IInv'
<1> DEFINE x == run[r]
           t == x.task
           y == [x EXCEPT !.pc = pc]
<1>0. /\ x \in RunType /\ t \in Tasks /\ x.step \in 1 .. 6
      /\ row \in [Tasks -> RowType] /\ Sound(x, ledger, done, row, once)
  BY RunFacts DEF IInv, RunInv, TypeOK
<1>1. /\ run' = [run EXCEPT ![r] = y] /\ y \in RunType
      /\ y.pc = pc /\ y.task = t /\ y.step = x.step /\ y.saw = x.saw
  BY GotoFact
<1> HIDE DEF y
<1>2. \A u \in Tasks : row'[u] = IF u = t THEN w ELSE row[u]
  BY <1>0
<1>3. Booked(ledger, done, row, once, t)
  BY <1>0 DEF IInv, BookInv
<1>4. row[t].status \in {"PENDING", "PROCESSING", "COMPLETED", "FAILED"}
  BY <1>0 DEF RowType
<1>5. Sound(y, ledger', done', row', once')
  <2>1. CASE pc \in {"return", "throw", "tellFailed"}
    BY <2>1, <1>1 DEF Sound
  <2>2. CASE pc = (IF w.kind = "REWARD" THEN "eligible" ELSE "work") /\ x.pc = "claim"
    <3>1. x.step = 1 /\ row'[t] = w
      BY <1>0, <1>2, <2>2 DEF Sound
    <3> QED BY <2>2, <3>1, <1>1 DEF Sound
  <2>3. CASE pc = "tell"
    <3>1. w.status = "COMPLETED" /\ row[t].status = "PROCESSING"
      BY <2>3
    <3>2. done[t]["completed"] = 0
      BY <3>1, <1>3 DEF Booked
    <3> QED BY <2>3, <3>1, <3>2, <1>0, <1>1, <1>2 DEF Sound
  <2> QED BY <2>1, <2>2, <2>3
<1>6. ASSUME NEW q \in Runs, q # r, run[q] # IdleRun
      PROVE  Apart(y, run[q]) /\ Sound(run[q], ledger', done', row', once')
  <2>1. Sound(run[q], ledger, done, row, once) /\ run[q].task \in Tasks
    BY <1>6, RunFacts DEF IInv, RunInv
  <2>2. run[q].pc = "tell" => row[run[q].task].status \in {"COMPLETED", "FAILED"}
    BY <2>1 DEF Sound
  <2>3. /\ row'[run[q].task].kind = row[run[q].task].kind
        /\ row'[run[q].task].eligible = row[run[q].task].eligible
    BY <2>1, <1>2
  <2>4. run[q].pc = "tell" => row'[run[q].task].status \in {"COMPLETED", "FAILED"}
    BY <2>1, <2>2, <1>2
  <2>5. run[q].pc = "commit" => Effects[run[q].step] \notin ledger[run[q].task]
    BY <2>1 DEF Sound
  <2>6. Sound(run[q], ledger, done, row', once)
    <3>1. ledger[run[q].task] \subseteq ledger[run[q].task] /\ once \subseteq once
      OBVIOUS
    <3> QED BY ONLY <2>1, <2>3, <2>4, <2>5, <3>1, SoundKept
  <2>7. pc # "commit" /\ pc # "earned"
    OBVIOUS
  <2>8. pc = "tell" /\ run[q].task = t => run[q].pc # "tell"
    BY <2>2
  <2>9. Apart(y, run[q])
    BY <1>1, <2>7, <2>8 DEF Apart
  <2> QED BY <2>6, <2>9
<1>7. RunInv' /\ run' \in [Runs -> RunType \cup {IdleRun}]
  BY <1>1, <1>5, <1>6, WriteKeeps
<1>8. Booked(ledger, done, row', once, t)
  <2>1. CASE w = row[t]
    BY <2>1, <1>0, <1>2, <1>3 DEF Booked
  <2>2. CASE w.status # "COMPLETED" /\ row[t].status \notin {"COMPLETED", "FAILED"}
    BY <2>2, <1>0, <1>2, <1>3, <1>4 DEF Booked
  <2>3. CASE pc = "tell" /\ x.pc = "persist" /\ w.status = "COMPLETED" /\ row[t].status = "PROCESSING"
    <3>1. ASSUME row[t].kind = "REWARD", row[t].eligible
          PROVE  \A e \in Promised : SeenTo(e, ledger[t], once)
      <4>1. x.step = 6
        BY <1>0, <2>3, <3>1 DEF Sound
      <4>2. \A n \in 1 .. 5 : n < 6 /\ Effects[n] \in Promised => SeenTo(Effects[n], ledger[t], once)
        BY <1>0, <2>3, <3>1, <4>1 DEF Sound
      <4>3. \A n \in 1 .. 5 : Effects[n] \in Promised => SeenTo(Effects[n], ledger[t], once)
        BY <4>2
      <4> QED BY <4>3, EffectFacts
    <3> QED BY <3>1, <2>3, <1>0, <1>2, <1>3 DEF Booked
  <2> QED BY <2>1, <2>2, <2>3, <1>4
<1>9. BookInv'
  <2> SUFFICES ASSUME NEW u \in Tasks PROVE Booked(ledger, done, row', once, u)
    BY DEF BookInv
  <2>1. CASE u = t
    BY <2>1, <1>8
  <2>2. CASE u # t
    <3>1. row'[u] = row[u] /\ Booked(ledger, done, row, once, u)
      BY <2>2, <1>2 DEF IInv, BookInv
    <3> QED BY <3>1 DEF Booked
  <2> QED BY <2>1, <2>2
<1>10. row' \in [Tasks -> RowType]
  BY <1>0
<1> QED BY <1>7, <1>9, <1>10 DEF IInv, TypeOK

LEMMA ClaimKeeps ==
  ASSUME IInv, NEW r \in Runs, Claim(r) PROVE IInv'
<1> DEFINE t == run[r].task
           w == [row[t] EXCEPT !.status = "PROCESSING", !.worker = r, !.expired = FALSE]
<1>1. run[r] # IdleRun /\ run[r].pc = "claim"
  BY IdleFacts DEF Claim
<1>2. /\ t \in Tasks /\ row \in [Tasks -> RowType]
      /\ "return" \in Places /\ "work" \in Places /\ "eligible" \in Places
  BY <1>1, RunFacts DEF IInv, TypeOK, Places
<1>3. UNCHANGED <<job, rec, ledger, once, done, faults>>
  BY DEF Claim
<1>4. CASE Claimable(t)
  <2>1. row[t] \in RowType
    BY <1>2
  <2>2. w \in RowType /\ w.kind = row[t].kind /\ w.eligible = row[t].eligible /\ w.status = "PROCESSING"
    BY <2>1 DEF RowType
  <2>3. /\ row' = [row EXCEPT ![t] = w]
        /\ Goto(r, IF w.kind = "REWARD" THEN "eligible" ELSE "work")
    BY <1>2, <1>4, <2>2 DEF Claim, Rewards
  <2>4. row[t].status \notin {"COMPLETED", "FAILED"}
    BY <1>4 DEF Claimable
  <2> HIDE DEF w
  <2> QED BY <1>1, <1>2, <1>3, <2>2, <2>3, <2>4, RowMove
<1>5. CASE ~ Claimable(t)
  <2>1. Goto(r, "return") /\ UNCHANGED row
    BY <1>5 DEF Claim
  <2> QED BY <1>1, <1>2, <1>3, <2>1, GotoKeeps DEF IInv, TypeOK
<1> QED BY <1>4, <1>5

LEMMA PersistKeeps ==
  ASSUME IInv, NEW r \in Runs, Persist(r) PROVE IInv'
<1> DEFINE t == run[r].task
           w == [row[t] EXCEPT !.status = "COMPLETED"]
<1>1. run[r] # IdleRun /\ run[r].pc = "persist"
  BY IdleFacts DEF Persist
<1>2. t \in Tasks /\ row \in [Tasks -> RowType] /\ "return" \in Places /\ "tell" \in Places
  BY <1>1, RunFacts DEF IInv, TypeOK, Places
<1>3. UNCHANGED <<job, rec, ledger, once, done, faults>>
  BY DEF Persist
<1>4. CASE Holds(r, t)
  <2>1. row[t] \in RowType
    BY <1>2
  <2>2. w \in RowType /\ w.kind = row[t].kind /\ w.eligible = row[t].eligible /\ w.status = "COMPLETED"
    BY <2>1 DEF RowType
  <2>3. row' = [row EXCEPT ![t] = w] /\ Goto(r, "tell")
    BY <1>2, <1>4 DEF Persist
  <2>4. row[t].status = "PROCESSING"
    BY <1>4 DEF Holds
  <2> HIDE DEF w
  <2> QED BY <1>1, <1>2, <1>3, <2>2, <2>3, <2>4, RowMove
<1>5. CASE ~ Holds(r, t)
  <2>1. Goto(r, "return") /\ UNCHANGED row
    BY <1>5 DEF Persist
  <2> QED BY <1>1, <1>2, <1>3, <2>1, GotoKeeps DEF IInv, TypeOK
<1> QED BY <1>4, <1>5

LEMMA CatchKeeps ==
  ASSUME IInv, NEW r \in Runs, Catch(r) PROVE IInv'
<1> DEFINE t == run[r].task
           w == [row[t] EXCEPT !.status = IF Last(r) THEN "FAILED" ELSE "PENDING"]
<1>1. run[r] # IdleRun /\ run[r].pc = "catch"
  BY IdleFacts DEF Catch
<1>2. t \in Tasks /\ row \in [Tasks -> RowType]
  BY <1>1, RunFacts DEF IInv, TypeOK
<1>3. UNCHANGED <<job, rec, ledger, once, done, faults>>
  BY DEF Catch
<1>4. PICK pc \in {"throw", "return", "tellFailed"} : Goto(r, pc)
  BY DEF Catch
<1>5. pc \in Places
  BY DEF Places
<1>6. CASE Holds(r, t)
  <2>1. row[t] \in RowType
    BY <1>2
  <2>2. w \in RowType /\ w.kind = row[t].kind /\ w.eligible = row[t].eligible /\ w.status # "COMPLETED"
    BY <2>1 DEF RowType
  <2>3. row' = [row EXCEPT ![t] = w]
    BY <1>2, <1>6 DEF Catch
  <2>4. row[t].status = "PROCESSING"
    BY <1>6 DEF Holds
  <2> HIDE DEF w
  <2> QED BY <1>1, <1>2, <1>3, <1>4, <1>5, <2>2, <2>3, <2>4, RowMove
<1>7. CASE ~ Holds(r, t)
  <2>1. UNCHANGED row
    BY <1>7 DEF Catch
  <2> QED BY <1>1, <1>2, <1>3, <1>4, <1>5, <2>1, GotoKeeps DEF IInv, TypeOK
<1> QED BY <1>6, <1>7

LEMMA SentFact ==
  ASSUME IInv, NEW t \in Tasks, NEW o \in Outputs, Sent(t, o)
  PROVE  /\ done' \in [Tasks -> [Outputs -> Nat]]
         /\ \A u \in Tasks : \A p \in Outputs :
              done'[u][p] = IF u = t /\ p = o THEN done[u][p] + 1 ELSE done[u][p]
<1>1. done \in [Tasks -> [Outputs -> Nat]]
  BY DEF IInv, TypeOK
<1>2. done[t][o] + 1 \in Nat
  BY <1>1
<1> QED BY <1>1, <1>2 DEF Sent

LEMMA OutputFacts ==
  /\ EffectNames \subseteq Outputs /\ {"earned", "completed", "failed"} \subseteq Outputs
  /\ "earned" \notin EffectNames /\ "completed" \notin EffectNames /\ "failed" \notin EffectNames
BY DEF Outputs, EffectNames

\* The transaction of an effect commits.
LEMMA PayKeeps ==
  ASSUME IInv, NEW r \in Runs, run[r].pc = "commit", NEW t, t = run[r].task,
         NEW e, e = Effects[run[r].step],
         ledger' = [ledger EXCEPT ![t] = @ \cup {e}], Sent(t, e),
         NEW y \in RunType, run' = [run EXCEPT ![r] = y], y.task = t,
         \/ y.pc \in {"work", "persist"} /\ Sound(y, ledger', done', row, once')
         \/ y.pc = "earned" /\ y.step = 1 /\ e = "XP",
         once \subseteq once', once' \subseteq OneOff, UNCHANGED <<row, job, rec, faults>>
  PROVE  IInv'
<1> DEFINE x == run[r]
<1>0. /\ x # IdleRun /\ x \in RunType /\ t \in Tasks /\ x.step \in 1 .. 6
      /\ Sound(x, ledger, done, row, once) /\ ledger \in [Tasks -> SUBSET EffectNames]
  BY IdleFacts, RunFacts DEF IInv, RunInv, TypeOK
<1>1. x.step \in 1 .. 5 /\ e \notin ledger[t] /\ row[t].kind = "REWARD" /\ row[t].eligible
  BY <1>0 DEF Sound
<1>2. e \in EffectNames /\ e \in Outputs /\ e # "earned" /\ e # "completed"
  BY <1>1, EffectFacts, OutputFacts
<1>3. \A u \in Tasks : ledger'[u] = IF u = t THEN ledger[u] \cup {e} ELSE ledger[u]
  BY <1>0
<1>4. /\ done' \in [Tasks -> [Outputs -> Nat]]
      /\ \A u \in Tasks : \A p \in Outputs :
           done'[u][p] = IF u = t /\ p = e THEN done[u][p] + 1 ELSE done[u][p]
  BY <1>0, <1>2, SentFact
<1>5. \A u \in Tasks : done'[u]["earned"] = done[u]["earned"]
                       /\ done'[u]["completed"] = done[u]["completed"]
  BY <1>2, <1>4, OutputFacts
<1>6. \A u \in Tasks : Booked(ledger, done, row, once, u)
  BY DEF IInv, BookInv
<1>7. ASSUME NEW u \in Tasks PROVE Booked(ledger', done', row, once', u)
  <2>1. CASE u # t
    <3>1. ledger'[u] = ledger[u] /\ \A p \in Outputs : done'[u][p] = done[u][p]
      BY <2>1, <1>3, <1>4
    <3>2. Booked(ledger, done, row, once, u)
      BY <1>6
    <3> QED BY <3>1, <3>2, OutputFacts DEF Booked, SeenTo
  <2>2. CASE u = t
    <3>1. ledger'[t] = ledger[t] \cup {e} /\ Booked(ledger, done, row, once, t)
      BY <1>0, <1>3, <1>6
    <3>2. \A f \in EffectNames : done'[t][f] = IF f \in ledger'[t] THEN 1 ELSE 0
      <4> SUFFICES ASSUME NEW f \in EffectNames PROVE done'[t][f] = IF f \in ledger'[t] THEN 1 ELSE 0
        OBVIOUS
      <4>1. f \in Outputs /\ done[t][f] = IF f \in ledger[t] THEN 1 ELSE 0
        BY <3>1, OutputFacts DEF Booked
      <4>2. CASE f = e
        BY <4>1, <4>2, <3>1, <1>0, <1>1, <1>4
      <4>3. CASE f # e
        BY <4>1, <4>3, <3>1, <1>0, <1>4
      <4> QED BY <4>2, <4>3
    <3>3. done'[t]["earned"] = done[t]["earned"] /\ done'[t]["completed"] = done[t]["completed"]
      BY <1>0, <1>5
    <3> QED BY <2>2, <3>1, <3>2, <3>3, <1>1 DEF Booked, SeenTo
  <2> QED BY <2>1, <2>2
<1>8. Sound(y, ledger', done', row, once')
  <2>1. CASE y.pc = "earned" /\ y.step = 1 /\ e = "XP"
    <3>1. done[t]["earned"] = 0
      BY <2>1, <1>0, <1>1, <1>6 DEF Booked
    <3>2. done'[t]["earned"] = 0 /\ "XP" \in ledger'[t]
      BY <2>1, <3>1, <1>0, <1>3, <1>5
    <3> QED BY <2>1, <3>2, <1>1 DEF Sound
  <2> QED BY <2>1
<1>9. ASSUME NEW q \in Runs, q # r, run[q] # IdleRun
      PROVE  Apart(y, run[q]) /\ Sound(run[q], ledger', done', row, once')
  <2>1. /\ Sound(run[q], ledger, done, row, once) /\ run[q].task \in Tasks /\ run[q].step \in 1 .. 6
        /\ Apart(x, run[q])
    BY <1>9, <1>0, RunFacts DEF IInv, RunInv
  <2>2. run[q].pc = "commit" => Effects[run[q].step] \notin ledger'[run[q].task]
    <3> SUFFICES ASSUME run[q].pc = "commit" PROVE Effects[run[q].step] \notin ledger'[run[q].task]
      OBVIOUS
    <3>1. run[q].step \in 1 .. 5 /\ Effects[run[q].step] \notin ledger[run[q].task]
      BY <2>1 DEF Sound
    <3>2. CASE run[q].task = t
      <4>1. run[q].step # x.step
        BY <3>2, <2>1 DEF Apart
      <4>2. Effects[run[q].step] # e
        BY <4>1, <3>1, <1>1, EffectFacts
      <4> QED BY <4>2, <3>1, <3>2, <1>3, <2>1
    <3>3. CASE run[q].task # t
      BY <3>1, <3>3, <1>3, <2>1
    <3> QED BY <3>2, <3>3
  <2>3. run[q].pc = "tell" => row[run[q].task].status \in {"COMPLETED", "FAILED"}
    BY <2>1 DEF Sound
  <2>4. /\ ledger[run[q].task] \subseteq ledger'[run[q].task]
        /\ done'[run[q].task]["earned"] = done[run[q].task]["earned"]
        /\ done'[run[q].task]["completed"] = done[run[q].task]["completed"]
        /\ once \subseteq once'
    BY <2>1, <1>3, <1>5
  <2>5. Sound(run[q], ledger', done', row, once')
    BY ONLY <2>1, <2>2, <2>3, <2>4, SoundKept
  <2>6. ~ (y.pc = "earned" /\ run[q].pc = "earned" /\ run[q].task = t)
    BY <2>1, <1>1 DEF Sound
  <2>7. Apart(y, run[q])
    BY <2>6 DEF Apart
  <2> QED BY <2>5, <2>7
<1>10. UNCHANGED row
  OBVIOUS
<1>11. RunInv' /\ run' \in [Runs -> RunType \cup {IdleRun}]
  BY <1>8, <1>9, <1>10, WriteKeeps
<1>12. BookInv'
  BY <1>7, <1>10 DEF BookInv
<1>13. ledger' \in [Tasks -> SUBSET EffectNames]
  BY <1>0, <1>2
<1> QED BY <1>4, <1>11, <1>12, <1>13 DEF IInv, TypeOK

\* What the run does after the commit of an effect other than XP.
LEMMA PaidNext ==
  ASSUME IInv, NEW r \in Runs, run[r].pc = "commit", NEW t, t = run[r].task,
         NEW e, e = Effects[run[r].step], ledger' = [ledger EXCEPT ![t] = @ \cup {e}],
         Sent(t, e), NextEffect(r), once \subseteq once', once' \subseteq OneOff,
         UNCHANGED <<row, job, rec, faults>>
  PROVE  IInv'
<1> DEFINE y == NextOf(run[r])
<1>0. /\ run[r] # IdleRun /\ t \in Tasks /\ Sound(run[r], ledger, done, row, once)
      /\ ledger \in [Tasks -> SUBSET EffectNames]
  BY IdleFacts, RunFacts DEF IInv, RunInv, TypeOK
<1>1. row[t].kind = "REWARD"
  BY <1>0 DEF Sound
<1>2. e \in ledger'[t] /\ ledger[t] \subseteq ledger'[t]
  BY <1>0
<1>3. /\ y \in RunType /\ y.task = t /\ y.pc \in {"work", "persist"}
      /\ Sound(y, ledger', done', row, once')
  <2>1. run[r].pc \in {"work", "commit", "earned"} /\ row[run[r].task].kind = "REWARD"
    BY <1>1
  <2>2. /\ SeenTo(Effects[run[r].step], ledger'[run[r].task], once')
        /\ ledger[run[r].task] \subseteq ledger'[run[r].task]
    BY <1>2 DEF SeenTo
  <2>3. PICK l, d, o : l = ledger' /\ d = done' /\ o = once'
    OBVIOUS
  <2>4. SeenTo(Effects[run[r].step], l[run[r].task], o)
    BY <2>2, <2>3
  <2>5. ledger[run[r].task] \subseteq l[run[r].task] /\ once \subseteq o
    BY <2>2, <2>3
  <2>6. /\ Sound(NextOf(run[r]), l, d, row, o) /\ NextOf(run[r]) \in RunType
        /\ NextOf(run[r]).task = run[r].task /\ NextOf(run[r]).pc \in {"work", "persist"}
    BY <2>1, <2>4, <2>5, NextEffectSound
  <2> QED BY <2>3, <2>6
<1>4. run' = [run EXCEPT ![r] = y]
  BY NextEffectFact
<1> HIDE DEF y
<1> QED BY <1>3, <1>4, PayKeeps

LEMMA CommitKeeps ==
  ASSUME IInv, NEW r \in Runs, Commit(r) PROVE IInv'
<1> DEFINE t == run[r].task
           e == Effects[run[r].step]
           y == [run[r] EXCEPT !.pc = "earned"]
<1>1. run[r] # IdleRun /\ run[r].pc = "commit"
  BY IdleFacts DEF Commit
<1>2. ledger' = [ledger EXCEPT ![t] = @ \cup {e}] /\ Sent(t, e) /\ UNCHANGED <<row, job, rec, faults>>
  BY DEF Commit, Effect
<1>3. once \subseteq once' /\ once' \subseteq OneOff
  BY DEF Commit, IInv, TypeOK, OneOff
<1>4. CASE e = "XP"
  <2>1. Goto(r, "earned") /\ "earned" \in Places
    BY <1>4 DEF Commit, Effect, Places
  <2>2. run' = [run EXCEPT ![r] = y] /\ y \in RunType /\ y.pc = "earned" /\ y.task = t
        /\ y.step = run[r].step
    BY <1>1, <2>1, GotoFact
  <2>3. run[r].step \in 1 .. 6 /\ Sound(run[r], ledger, done, row, once)
    BY <1>1, RunFacts DEF IInv, RunInv
  <2>4. run[r].step \in 1 .. 5
    BY <2>3, <1>1 DEF Sound
  <2>5. run[r].step = 1
    BY <2>4, <1>4, EffectFacts
  <2> HIDE DEF y, t, e
  <2>6. t = run[r].task /\ e = Effects[run[r].step]
    BY DEF t, e
  <2> QED BY <1>1, <1>2, <1>3, <1>4, <2>2, <2>5, <2>6, PayKeeps
<1>5. CASE e # "XP"
  <2>1. NextEffect(r)
    BY <1>5 DEF Commit, Effect
  <2> QED BY <1>1, <1>2, <1>3, <2>1, PaidNext
<1> QED BY <1>4, <1>5

LEMMA CommitBadgeKeeps ==
  ASSUME IInv, NEW r \in Runs, CommitBadge(r) PROVE IInv'
<1>1. run[r].pc = "commit" /\ Effects[run[r].step] = "PET"
  BY DEF CommitBadge, Effect
<1>2. once \subseteq once' /\ once' \subseteq OneOff
  BY DEF CommitBadge, IInv, TypeOK, OneOff
<1>3. /\ ledger' = [ledger EXCEPT ![run[r].task] = @ \cup {"PET"}] /\ Sent(run[r].task, "PET")
      /\ NextEffect(r) /\ UNCHANGED <<row, job, rec, faults>>
  BY DEF CommitBadge
<1> QED BY <1>1, <1>2, <1>3, PaidNext

\* What was published or counted, after the transactions of the effects.
LEMMA ToldKeeps ==
  ASSUME IInv, NEW r \in Runs, run[r] # IdleRun, NEW t, t = run[r].task,
         NEW o \in {"earned", "completed", "failed"}, Sent(t, o),
         \/ o = "earned" /\ run[r].pc = "earned"
         \/ o = "completed" /\ run[r].pc = "tell"
         \/ o = "failed",
         NEW y \in RunType, run' = [run EXCEPT ![r] = y],
         y.pc \in {"work", "persist", "return"}, Sound(y, ledger, done, row, once),
         UNCHANGED <<row, job, rec, ledger, once, faults>>
  PROVE  IInv'
<1> DEFINE x == run[r]
<1>0. x \in RunType /\ t \in Tasks /\ Sound(x, ledger, done, row, once) /\ o \in Outputs
  BY RunFacts, OutputFacts DEF IInv, RunInv
<1>1. /\ done' \in [Tasks -> [Outputs -> Nat]]
      /\ \A u \in Tasks : \A p \in Outputs :
           done'[u][p] = IF u = t /\ p = o THEN done[u][p] + 1 ELSE done[u][p]
  BY <1>0, SentFact
<1>2. \A u \in Tasks : Booked(ledger, done, row, once, u) /\ done[u] \in [Outputs -> Nat]
  BY DEF IInv, BookInv, TypeOK
<1>3. /\ o = "earned" => done[t]["earned"] = 0 /\ "XP" \in ledger[t]
      /\ o = "completed" => done[t]["completed"] = 0 /\ row[t].status \in {"COMPLETED", "FAILED"}
  BY <1>0 DEF Sound
<1>4. ASSUME NEW u \in Tasks PROVE Booked(ledger, done', row, once, u)
  <2>1. \A e \in EffectNames : done'[u][e] = done[u][e]
    BY <1>1, OutputFacts
  <2>2. CASE u # t
    <3>1. \A p \in Outputs : done'[u][p] = done[u][p]
      BY <2>2, <1>1
    <3> QED BY <3>1, <2>1, <1>2, OutputFacts DEF Booked
  <2>3. CASE u = t
    <3>1. done'[t]["earned"] = IF o = "earned" THEN done[t]["earned"] + 1 ELSE done[t]["earned"]
      BY <2>3, <1>1, OutputFacts
    <3>2. done'[t]["completed"] = IF o = "completed" THEN done[t]["completed"] + 1 ELSE done[t]["completed"]
      BY <2>3, <1>1, OutputFacts
    <3>3. Booked(ledger, done, row, once, t)
      BY <1>0, <1>2
    <3>4. CASE o = "earned"
      BY <3>4, <3>1, <3>2, <3>3, <2>1, <2>3, <1>3 DEF Booked
    <3>5. CASE o = "completed"
      BY <3>5, <3>1, <3>2, <3>3, <2>1, <2>3, <1>3 DEF Booked
    <3>6. CASE o = "failed"
      BY <3>6, <3>1, <3>2, <3>3, <2>1, <2>3 DEF Booked
    <3> QED BY <3>4, <3>5, <3>6
  <2> QED BY <2>2, <2>3
<1>5. ASSUME NEW q \in Runs, q # r, run[q] # IdleRun
      PROVE  Apart(y, run[q]) /\ Sound(run[q], ledger, done', row, once)
  <2>1. /\ Sound(run[q], ledger, done, row, once) /\ run[q].task \in Tasks /\ Apart(x, run[q])
    BY <1>5, <1>0, RunFacts DEF IInv, RunInv
  <2>2. run[q].pc = "earned" => done'[run[q].task]["earned"] = done[run[q].task]["earned"]
    <3>1. run[q].pc = "earned" => ~ (run[q].task = t /\ o = "earned")
      BY <2>1 DEF Apart
    <3> QED BY <3>1, <2>1, <1>1, OutputFacts
  <2>3. run[q].pc = "tell" => done'[run[q].task]["completed"] = done[run[q].task]["completed"]
    <3>1. run[q].pc = "tell" => ~ (run[q].task = t /\ o = "completed")
      BY <2>1 DEF Apart
    <3> QED BY <3>1, <2>1, <1>1, OutputFacts
  <2>4. /\ run[q].pc = "tell" => row[run[q].task].status \in {"COMPLETED", "FAILED"}
        /\ run[q].pc = "commit" => Effects[run[q].step] \notin ledger[run[q].task]
        /\ ledger[run[q].task] \subseteq ledger[run[q].task] /\ once \subseteq once
    BY <2>1 DEF Sound
  <2>5. Sound(run[q], ledger, done', row, once)
    BY ONLY <2>1, <2>2, <2>3, <2>4, SoundKept
  <2>6. Apart(y, run[q])
    BY DEF Apart
  <2> QED BY <2>5, <2>6
<1>6. Sound(y, ledger, done', row, once)
  BY DEF Sound
<1>7. UNCHANGED <<row, ledger, once>>
  OBVIOUS
<1>8. RunInv' /\ run' \in [Runs -> RunType \cup {IdleRun}]
  BY <1>5, <1>6, <1>7, WriteKeeps
<1>9. BookInv'
  BY <1>4, <1>7 DEF BookInv
<1> QED BY <1>1, <1>8, <1>9 DEF IInv, TypeOK

LEMMA EarnedKeeps ==
  ASSUME IInv, NEW r \in Runs, Earned(r) PROVE IInv'
<1> DEFINE y == NextOf(run[r])
           t == run[r].task
<1>1. run[r] # IdleRun /\ run[r].pc = "earned"
  BY IdleFacts DEF Earned
<1>2. Sound(run[r], ledger, done, row, once) /\ t \in Tasks
  BY <1>1, RunFacts DEF IInv, RunInv
<1>3. row[t].kind = "REWARD" /\ run[r].step = 1 /\ "XP" \in ledger[t]
  BY <1>1, <1>2 DEF Sound
<1>4. SeenTo(Effects[run[r].step], ledger[t], once)
  BY <1>3, EffectFacts DEF SeenTo
<1>5. /\ y \in RunType /\ y.pc \in {"work", "persist"} /\ Sound(y, ledger, done, row, once)
  BY <1>1, <1>3, <1>4, NextEffectSound
<1>6. run' = [run EXCEPT ![r] = y]
  BY NextEffectFact DEF Earned
<1>7. Sent(t, "earned") /\ UNCHANGED <<row, job, rec, ledger, once, faults>>
  BY DEF Earned
<1> HIDE DEF y, t
<1>8. t = run[r].task
  BY DEF t
<1> QED BY <1>1, <1>5, <1>6, <1>7, <1>8, ToldKeeps

LEMMA TellKeeps ==
  ASSUME IInv, NEW r \in Runs, Tell(r) \/ TellFailed(r) PROVE IInv'
<1> DEFINE y == [run[r] EXCEPT !.pc = "return"]
           t == run[r].task
<1>1. run[r] # IdleRun /\ Goto(r, "return") /\ "return" \in Places
  BY IdleFacts DEF Tell, TellFailed, Places
<1>2. run' = [run EXCEPT ![r] = y] /\ y \in RunType /\ y.pc = "return"
  BY <1>1, GotoFact
<1> HIDE DEF y
<1>3. Sound(y, ledger, done, row, once)
  BY <1>2 DEF Sound
<1>4. PICK o \in {"earned", "completed", "failed"} :
        Sent(t, o) /\ ((o = "completed" /\ run[r].pc = "tell") \/ o = "failed")
  BY DEF Tell, TellFailed
<1>5. UNCHANGED <<row, job, rec, ledger, once, faults>>
  BY DEF Tell, TellFailed
<1> HIDE DEF t
<1>6. t = run[r].task
  BY DEF t
<1> QED BY <1>1, <1>2, <1>3, <1>4, <1>5, <1>6, ToldKeeps

-----------------------------------------------------------------------------
(* The theorems.                                                             *)

LEMMA StutterKeeps == ASSUME IInv, UNCHANGED vars PROVE IInv'
BY QuietStep DEF vars, IInv, TypeOK

LEMMA NextInv == ASSUME IInv, [Next]_vars PROVE IInv'
<1>1. CASE UNCHANGED vars
  BY <1>1, StutterKeeps
<1>2. ASSUME NEW t \in Tasks, NEW r \in Runs, TakeJob(r, t) PROVE IInv'
  BY <1>2, TakeJobKeeps
<1>3. ASSUME NEW t \in Tasks, BackoffElapses(t) \/ LeaseExpires(t) \/ Stall(t) PROVE IInv'
  BY <1>3, BackoffElapsesKeeps, LeaseExpiresKeeps, StalledKeeps DEF Stall
<1>4. ASSUME NEW t \in Tasks, NEW s \in {"waiting", "failed"}, LockLost(t, s) PROVE IInv'
  BY <1>4, LockLostKeeps
<1>5. ASSUME NEW r \in Runs, RunStep(r) PROVE IInv'
  <2>1. ASSUME Load(r) \/ Claim(r) \/ Eligibility(r) \/ Reword(r) \/ Skip(r) \/ Begin(r) PROVE IInv'
    BY <2>1, LoadKeeps, ClaimKeeps, EligibilityKeeps, RewordKeeps, SkipKeeps, BeginKeeps
  <2>2. ASSUME Commit(r) \/ CommitBadge(r) \/ TakenForDone(r) \/ Earned(r) PROVE IInv'
    BY <2>2, CommitKeeps, CommitBadgeKeeps, TakenForDoneKeeps, EarnedKeeps
  <2>3. ASSUME Persist(r) \/ Tell(r) \/ Catch(r) \/ TellFailed(r) \/ End(r) PROVE IInv'
    BY <2>3, PersistKeeps, TellKeeps, CatchKeeps, EndKeeps
  <2> QED BY <1>5, <2>1, <2>2, <2>3 DEF RunStep
<1>6. ASSUME NEW r \in Runs, Fails(r) \/ Crash(r) PROVE IInv'
  BY <1>6, FailsKeeps, CrashKeeps
<1>7. ASSUME NEW c \in Schedulers, CycleStep(c) PROVE IInv'
  BY <1>7, InspectKeeps, RemoveKeeps, ResetKeeps, EnqueueKeeps, FailExhaustedKeeps DEF CycleStep
<1>8. ASSUME NEW c \in Schedulers, CycleFails(c) PROVE IInv'
  BY <1>8, CycleFailsKeeps
<1>9. ASSUME NEW c \in Schedulers, NEW t \in Tasks, Snapshot(c, t) PROVE IInv'
  BY <1>9, SnapshotKeeps
<1>10. ASSUME NEW e \in OneOff, Elsewhere(e) PROVE IInv'
  BY <1>10, ElsewhereKeeps
<1> QED BY <1>1, <1>2, <1>3, <1>4, <1>5, <1>6, <1>7, <1>8, <1>9, <1>10 DEF Next

THEOREM Inductive == Spec => []IInv
<1> QED BY InitInv, NextInv, PTL DEF Spec

\* For every instance: the columns, jobs, runs and cycles keep their types.
THEOREM TypeCorrect == Spec => []TypeOK
<1>1. IInv => TypeOK
  BY DEF IInv
<1> QED BY <1>1, Inductive, PTL

\* For every instance: no effect of a reward is applied twice, its XP counts at most
\* once for the quests, and the learner is told at most once.
THEOREM PaidOnce == Spec => []OncePerSubmission
<1>1. IInv => OncePerSubmission
  <2> SUFFICES ASSUME IInv, NEW t \in Tasks, NEW o \in Outputs \ {"failed"} PROVE done[t][o] <= 1
    BY DEF OncePerSubmission
  <2>1. Booked(ledger, done, row, once, t)
    BY DEF IInv, BookInv
  <2>2. o \in EffectNames \/ o = "earned" \/ o = "completed"
    BY DEF Outputs
  <2>3. CASE o \in EffectNames
    BY <2>1, <2>3 DEF Booked
  <2>4. CASE o = "earned" \/ o = "completed"
    BY <2>1, <2>4 DEF Booked
  <2> QED BY <2>2, <2>3, <2>4
<1> QED BY <1>1, Inductive, PTL

\* For every instance: the reward of a practice recording that is complete was paid
\* in full, but for an effect whose one-off row came to exist since the start, and
\* that of an exam recording never paid anything.
THEOREM PaidInFull == Spec => []CompletedIsPaid
<1>1. IInv => CompletedIsPaid
  <2> SUFFICES ASSUME IInv, NEW t \in Tasks, Rewards(t)
               PROVE  IF row[t].eligible
                      THEN row[t].status = "COMPLETED" =>
                             \A e \in Promised : done[t][e] = 1 \/ e \in once \ AtFirst
                      ELSE \A e \in EffectNames : done[t][e] = 0
    BY DEF CompletedIsPaid
  <2>1. Booked(ledger, done, row, once, t)
    BY DEF IInv, BookInv
  <2>2. CASE row[t].eligible
    <3> SUFFICES ASSUME row[t].status = "COMPLETED", NEW e \in Promised, e \notin once \ AtFirst
                 PROVE  done[t][e] = 1
      BY <2>2
    <3>1. e \in EffectNames /\ e \in ledger[t]
      BY <2>1, <2>2, EffectFacts DEF Booked, SeenTo, Rewards
    <3> QED BY <2>1, <3>1 DEF Booked
  <2>3. CASE ~ row[t].eligible
    <3>1. ledger[t] = {}
      BY <2>1, <2>3 DEF Booked, Rewards
    <3> QED BY <2>1, <2>3, <3>1 DEF Booked
  <2> QED BY <2>2, <2>3
<1> QED BY <1>1, Inductive, PTL

\* For every instance: what is settled stays as it was settled, except by the
\* scheduler's update by id.
THEOREM SettlementKept == Spec => SettledKept
<1>1. ASSUME IInv, [Next]_vars, NEW t \in Tasks, Settled(t), row'[t].status # row[t].status
      PROVE  \E c \in Schedulers : rec[c].pc = "fail" /\ rec[c].task = t
  <2>0. row \in [Tasks -> RowType] /\ row[t].status \in {"COMPLETED", "FAILED"}
    BY <1>1 DEF IInv, TypeOK, Settled
  <2>1. row' # row
    BY <1>1
  <2>2. ASSUME NEW u \in Tasks, LeaseExpires(u) PROVE FALSE
    BY <2>0, <2>2, <1>1 DEF LeaseExpires
  <2>3. ASSUME NEW r \in Runs, Claim(r) PROVE FALSE
    BY <2>0, <2>3, <1>1 DEF Claim, Claimable
  <2>4. ASSUME NEW r \in Runs, Persist(r) PROVE FALSE
    BY <2>0, <2>4, <1>1 DEF Persist, Holds
  <2>5. ASSUME NEW r \in Runs, Catch(r) PROVE FALSE
    BY <2>0, <2>5, <1>1 DEF Catch, Holds
  <2>6. ASSUME NEW c \in Schedulers, Reset(c) PROVE FALSE
    BY <2>0, <2>6, <1>1 DEF Reset
  <2>7. ASSUME NEW c \in Schedulers, FailExhausted(c) PROVE rec[c].pc = "fail" /\ rec[c].task = t
    BY <2>0, <2>7, <1>1 DEF FailExhausted
  <2>8. ASSUME NEW r \in Runs, RunStep(r) PROVE FALSE
    BY <2>1, <2>3, <2>4, <2>5, <2>8 DEF RunStep, Load, Eligibility, Reword, Skip, Begin, Commit,
       CommitBadge, TakenForDone, Earned, Tell, TellFailed, End
  <2>9. ASSUME NEW c \in Schedulers, CycleStep(c)
        PROVE  \E d \in Schedulers : rec[d].pc = "fail" /\ rec[d].task = t
    BY <2>1, <2>6, <2>7, <2>9 DEF CycleStep, Inspect, Remove, Enqueue
  <2>10. ASSUME NEW u \in Tasks, NEW r \in Runs, TakeJob(r, u) PROVE FALSE
    BY <2>1, <2>10 DEF TakeJob
  <2>11. ASSUME NEW u \in Tasks, BackoffElapses(u) \/ Stall(u) PROVE FALSE
    BY <2>1, <2>11 DEF BackoffElapses, Stall, Stalled, LockGone
  <2>12. ASSUME NEW u \in Tasks, NEW s \in {"waiting", "failed"}, LockLost(u, s) PROVE FALSE
    BY <2>1, <2>12 DEF LockLost, LockGone
  <2>13. ASSUME NEW r \in Runs, Fails(r) \/ Crash(r) PROVE FALSE
    BY <2>1, <2>13 DEF Fails, Crash
  <2>14. ASSUME NEW c \in Schedulers, CycleFails(c) \/ \E u \in Tasks : Snapshot(c, u) PROVE FALSE
    BY <2>1, <2>14 DEF CycleFails, Snapshot
  <2>15. ASSUME NEW e \in OneOff, Elsewhere(e) PROVE FALSE
    BY <2>1, <2>15 DEF Elsewhere
  <2>16. Next
    BY <1>1, <2>1 DEF vars
  <2> QED BY <2>2, <2>8, <2>9, <2>10, <2>11, <2>12, <2>13, <2>14, <2>15, <2>16 DEF Next
<1>2. IInv /\ [Next]_vars =>
        [\A t \in Tasks : Settled(t) /\ row'[t].status # row[t].status =>
           \E c \in Schedulers : rec[c].pc = "fail" /\ rec[c].task = t]_vars
  BY <1>1
<1> QED BY <1>2, Inductive, PTL DEF Spec, SettledKept

=============================================================================
