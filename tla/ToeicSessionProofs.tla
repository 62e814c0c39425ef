-------------------------- MODULE ToeicSessionProofs --------------------------
(* For every number of sessions, attempts, answers and requests at once: what  *)
(* the results, the sections and the sessions of TOEIC assessments can be      *)
(* relied on for, although completeComponent and startComponent race.          *)
EXTENDS ToeicSession, SequenceTheorems, TLAPS

-----------------------------------------------------------------------------
(* The inductive invariant.                                                  *)

\* Answers are saved in time, and the score is computed from them.
AttemptInv ==
  /\ AttemptTypeOK
  /\ \A a \in Attempts :
       /\ a \in Active => attempt[a].saved <= now
       /\ attempt[a].status = "IN_PROGRESS" => attempt[a].saved <= attempt[a].deadline
  /\ ScoredAsSubmitted
  /\ OneActive

\* An attempt that is, or was, the paper of session s.
OwnPaper(a, s) ==
  /\ attempt[a].status # "none"
  /\ attempt[a].status = "deleted" \/ attempt[a].created >= session[s].started

SessionInv ==
  \A s \in Sessions :
    /\ session[s].started <= now
    /\ paper[s] # NoPaper => OwnPaper(paper[s], s)
    /\ session[s].status = "none" => paper[s] = NoPaper /\ \A i \in Places : ~ section[s][i].closed
    /\ \A i \in Places : Completed(s, i) => section[s][i].closed

AnswerInv == LinkedInTime /\ \A n \in DOMAIN answers : answers[n].at <= now

\* While a request runs the clock of its section can be started, but not moved.
ClockInv(x, started) ==
  IF x.pc # "start" /\ x.started = Never THEN started \in {Never, now}
  ELSE x.started # Never /\ started \in {Never, x.started}
       /\ (started = Never => x.pc = "start" /\ x.started = now)

RequestInv(x) ==
  /\ session[x.s].status # "none"
  /\ x.paper # NoPaper => OwnPaper(x.paper, x.s)
  /\ ClockInv(x, section[x.s][x.i].started)
  /\ x.pc = "commit" =>
       /\ Reading(x.i) => HandedIn(x.paper)
       /\ x.last => \A j \in Places : j = x.i \/ section[x.s][j].closed

ReqInv == \A r \in Requests : req[r] # Idle => RequestInv(req[r])

IInv ==
  /\ TypeOK /\ AttemptInv /\ SessionInv /\ AnswerInv /\ ReqInv
  /\ DoneIsClosed /\ ClosedWasHandedIn

-----------------------------------------------------------------------------
(* The attempts by themselves.                                               *)

LEMMA AttemptRecords ==
  ASSUME AttemptTypeOK
  PROVE  /\ NoAttempt \in AttemptType /\ NewAttempt \in AttemptType
         /\ \A a \in Attempts : Deleted(a) \in AttemptType
         /\ \A a \in Attempts, t \in Nat : Submitted(a, t) \in AttemptType
<1>1. now \in Nat
  BY TimesAssumption DEF AttemptTypeOK
<1>2. NoAttempt \in AttemptType
  BY SheetsAssumption DEF AttemptType, NoAttempt
<1>3. NewAttempt \in AttemptType
  BY <1>1, <1>2 DEF AttemptType, NewAttempt
<1>4. ASSUME NEW a \in Attempts
      PROVE  Deleted(a) \in AttemptType
  BY <1>2 DEF AttemptType, Deleted
<1>5. ASSUME NEW a \in Attempts, NEW t \in Nat
      PROVE  Submitted(a, t) \in AttemptType
  BY DEF AttemptTypeOK, AttemptType, Submitted
<1> QED BY <1>2, <1>3, <1>4, <1>5

\* What a step of the attempts leaves of them.
Kept ==
  \A a \in Attempts :
    /\ attempt[a].status # "none" =>
         /\ attempt'[a].status # "none"
         /\ attempt'[a].status = "deleted" \/ attempt'[a].created = attempt[a].created
    /\ attempt[a].status \in {"deleted", "SUBMITTED"} => attempt'[a] = attempt[a]

LEMMA AttemptStep ==
  ASSUME AttemptInv, AttemptNext
  PROVE  AttemptInv' /\ Kept /\ now' = now
<1>1. now \in Nat
  BY TimesAssumption DEF AttemptInv, AttemptTypeOK
<1>2. PICK a \in Attempts :
        \/ StartAttempt(a) \/ BeginAttempt(a) \/ FinalizeExpired(a)
        \/ SubmitAttempt(a) \/ CancelAttempt(a)
        \/ \E sheet \in Sheets : SaveAnswers(a, sheet)
  BY DEF AttemptNext
<1> USE DEF AttemptInv, AttemptTypeOK, AttemptType, Active, ScoredAsSubmitted, OneActive, Kept
<1>3. CASE StartAttempt(a)
  <2> USE <1>1, <1>3 DEF StartAttempt
  <2>1. \A b \in Attempts \ {a} : attempt'[b] = Retired(b)
    OBVIOUS
  <2>2. attempt'[a] = NewAttempt
    OBVIOUS
  <2>3. \A b \in Attempts : Retired(b) \in AttemptType
    BY AttemptRecords DEF Retired
  <2>4. \A b \in Attempts \ {a} :
          /\ attempt'[b].status \notin {"PENDING_START", "IN_PROGRESS"}
          /\ attempt'[b].status = "SUBMITTED" =>
               attempt'[b] = attempt[b] \/ (RanOut(b) /\ attempt'[b] = Submitted(b, attempt[b].deadline))
    BY <2>1 DEF Retired, Deleted, Submitted, Stale, RanOut, NoAttempt
  <2>5. \A b \in Attempts \ {a} :
          attempt'[b] = attempt[b] \/ (b \in Active /\ (attempt'[b].status = "deleted"
                                                         \/ attempt'[b].created = attempt[b].created))
    BY <2>1 DEF Retired, Deleted, Submitted, Stale, RanOut, NoAttempt
  <2>6. attempt' \in [Attempts -> AttemptType]
    BY AttemptRecords, <2>3
  <2>7. NewAttempt.status = "PENDING_START" /\ NewAttempt.saved = 0
    BY DEF NewAttempt, NoAttempt
  <2>8. ScoredAsSubmitted'
    <3> SUFFICES ASSUME NEW b \in Attempts, attempt'[b].status = "SUBMITTED"
                 PROVE  /\ attempt'[b].scored = attempt'[b].sheet
                        /\ attempt'[b].saved <= attempt'[b].at
                        /\ attempt'[b].at <= attempt'[b].deadline
      OBVIOUS
    <3>1. b # a
      BY <2>2, <2>7
    <3>2. attempt[b] \in AttemptType
      OBVIOUS
    <3>3. CASE attempt'[b] = attempt[b]
      BY <3>3
    <3>4. CASE RanOut(b) /\ attempt'[b] = Submitted(b, attempt[b].deadline)
      <4>1. attempt[b].saved <= attempt[b].deadline
        BY <3>4 DEF RanOut
      <4>2. /\ attempt'[b].scored = attempt[b].sheet /\ attempt'[b].sheet = attempt[b].sheet
            /\ attempt'[b].saved = attempt[b].saved /\ attempt'[b].deadline = attempt[b].deadline
            /\ attempt'[b].at = attempt[b].deadline
        BY <3>2, <3>4 DEF Submitted
      <4> QED BY <3>2, <4>1, <4>2
    <3> QED BY <2>4, <3>1, <3>3, <3>4
  <2>9. Kept
    <3>1. \A b \in Attempts \ {a} : attempt[b].status # "none" => attempt'[b].status # "none"
      BY <2>1 DEF Retired, Deleted, Submitted, NoAttempt
    <3> QED BY <2>5, <3>1
  <2>10. \A b \in Attempts : b \in Active' => b = a
    BY <2>4
  <2> QED BY <2>2, <2>6, <2>7, <2>8, <2>9, <2>10
<1>4. CASE BeginAttempt(a)
  <2>1. now + TestTime \in Nat /\ now <= now + TestTime
    BY <1>1, TimesAssumption
  <2>2. a \in Active /\ attempt[a] \in AttemptType
    BY <1>4 DEF BeginAttempt
  <2> DEFINE y == [attempt[a] EXCEPT !.status = "IN_PROGRESS", !.deadline = now + TestTime]
  <2>3. attempt' = [attempt EXCEPT ![a] = y] /\ now' = now
    BY <1>4 DEF BeginAttempt
  <2>4. y \in AttemptType
    BY <2>1, <2>2
  <2>5. y.saved <= now /\ y.saved <= y.deadline /\ y.status = "IN_PROGRESS" /\ y.created = attempt[a].created
    BY <1>1, <2>1, <2>2
  <2> HIDE DEF y
  <2>6. attempt'[a] = y /\ \A b \in Attempts \ {a} : attempt'[b] = attempt[b]
    BY <2>3
  <2> QED BY <1>1, <1>4, <2>2, <2>3, <2>4, <2>5, <2>6 DEF BeginAttempt
<1>5. CASE FinalizeExpired(a)
  <2>1. Submitted(a, attempt[a].deadline) \in AttemptType
    BY AttemptRecords
  <2> QED BY <1>1, <1>5, <2>1 DEF FinalizeExpired, RanOut, Submitted
<1>6. CASE SubmitAttempt(a)
  <2> DEFINE t == IF attempt[a].deadline < now THEN attempt[a].deadline ELSE now
  <2>1. t \in Nat /\ t <= attempt[a].deadline /\ attempt[a].saved <= t
    BY <1>1, <1>6 DEF SubmitAttempt
  <2>2. Submitted(a, t) \in AttemptType
    BY <2>1, AttemptRecords
  <2>3. attempt' = [attempt EXCEPT ![a] = Submitted(a, t)] /\ now' = now
    BY <1>6 DEF SubmitAttempt
  <2> HIDE DEF t
  <2> QED BY <1>1, <1>6, <2>1, <2>2, <2>3 DEF SubmitAttempt, Submitted
<1>7. CASE CancelAttempt(a)
  <2>1. Deleted(a) \in AttemptType
    BY AttemptRecords
  <2> QED BY <1>1, <1>7, <2>1 DEF CancelAttempt, Deleted, NoAttempt
<1>8. CASE \E sheet \in Sheets : SaveAnswers(a, sheet)
  <2> PICK sheet \in Sheets : SaveAnswers(a, sheet)
    BY <1>8
  <2>1. attempt[a] \in AttemptType /\ attempt[a].status = "IN_PROGRESS" /\ a \in Active
    BY DEF SaveAnswers
  <2>2. now <= attempt[a].deadline
    BY <1>1, <2>1 DEF SaveAnswers, RanOut
  <2> DEFINE y == [attempt[a] EXCEPT !.sheet = sheet, !.saved = now]
  <2>3. attempt' = [attempt EXCEPT ![a] = y] /\ now' = now
    BY DEF SaveAnswers
  <2>4. /\ y \in AttemptType /\ y.saved = now /\ y.deadline = attempt[a].deadline
        /\ y.status = "IN_PROGRESS" /\ y.created = attempt[a].created
    BY <1>1, <2>1
  <2> HIDE DEF y
  <2>5. attempt'[a] = y /\ \A b \in Attempts \ {a} : attempt'[b] = attempt[b]
    BY <2>3
  <2> QED BY <1>1, <2>1, <2>2, <2>3, <2>4, <2>5
<1> QED BY <1>2, <1>3, <1>4, <1>5, <1>6, <1>7, <1>8

\* A session gets a paper of its own only where there is none.
LEMMA NewPaper ==
  ASSUME AttemptInv, NEW a \in Attempts, Active = {}, attempt[a].status = "none",
         attempt' = [attempt EXCEPT ![a] = NewAttempt], now' = now
  PROVE  AttemptInv' /\ Kept
<1>1. NewAttempt \in AttemptType
  BY AttemptRecords DEF AttemptInv
<1>2. NewAttempt.status = "PENDING_START" /\ NewAttempt.saved = 0
  BY DEF NewAttempt, NoAttempt
<1>3. now \in Nat
  BY TimesAssumption DEF AttemptInv, AttemptTypeOK
<1> QED BY <1>1, <1>2, <1>3
     DEF AttemptInv, AttemptTypeOK, AttemptType, Active, ScoredAsSubmitted, OneActive, Kept

-----------------------------------------------------------------------------
(* The sessions.                                                             *)

LEMMA Facts ==
  ASSUME IInv
  PROVE  /\ now \in Nat /\ now >= 0 /\ NoPaper \notin Attempts /\ NoSession \notin Sessions
         /\ Never \notin Nat
         /\ \A r \in Requests : req[r] # Idle => req[r] \in ReqType
         /\ \A r \in Requests : req[r] # Idle <=> req[r].pc # "idle"
         /\ \A i, j \in Places : Kinds[i] = Kinds[j] => i = j
<1>1. now \in Nat
  BY TimesAssumption DEF IInv, TypeOK, AttemptTypeOK
<1>2. \A r \in Requests : req[r] \in ReqType \cup {Idle}
  BY DEF IInv, TypeOK
<1>3. \A i, j \in Places : Kinds[i] = Kinds[j] => i = j
  BY KindsAssumption DEF Places
<1> QED BY <1>1, <1>2, <1>3, NothingAssumption DEF Never, ReqType, Idle

\* A step of the attempts alone keeps what sessions and requests know of them.
LEMMA OwnKept ==
  ASSUME Kept, UNCHANGED session, NEW a \in Attempts, NEW s \in Sessions, OwnPaper(a, s)
  PROVE  OwnPaper(a, s)'
  BY DEF Kept, OwnPaper

LEMMA HandedInKept ==
  ASSUME Kept, NEW a \in Attempts \cup {NoPaper}, HandedIn(a)
  PROVE  HandedIn(a)'
  BY DEF Kept, HandedIn

LEMMA ClosedKept ==
  ASSUME Kept, ClosedWasHandedIn, UNCHANGED session,
         \A s \in Sessions, i \in Places : section'[s][i].closed => section[s][i].closed
  PROVE  ClosedWasHandedIn'
  BY DEF Kept, ClosedWasHandedIn, Reading

LEMMA Still ==
  ASSUME UNCHANGED attemptVars
  PROVE  Kept /\ (AttemptInv => AttemptInv')
  BY DEF attemptVars, Kept, AttemptInv, AttemptTypeOK, Active, ScoredAsSubmitted, OneActive

LEMMA InitStep == Init => IInv
<1> SUFFICES ASSUME Init PROVE IInv
  OBVIOUS
<1>1. NoAttempt \in AttemptType /\ now = 0 /\ attempt = [a \in Attempts |-> NoAttempt]
  BY SheetsAssumption DEF Init, AttemptInit, AttemptType, NoAttempt
<1>2. AttemptInv
  BY <1>1, TimesAssumption
     DEF AttemptInv, AttemptTypeOK, Active, ScoredAsSubmitted, OneActive, NoAttempt
<1>3. TypeOK
  BY <1>2, LimitAssumption
     DEF Init, AttemptInv, TypeOK, SessionType, SectionType, Never
<1>4. SessionInv
  BY <1>1 DEF Init, SessionInv, Completed
<1>5. AnswerInv /\ ReqInv /\ DoneIsClosed /\ ClosedWasHandedIn
  BY DEF Init, AnswerInv, LinkedInTime, ReqInv, DoneIsClosed, ClosedWasHandedIn
<1> QED BY <1>2, <1>3, <1>4, <1>5 DEF IInv

LEMMA PaperStepInv ==
  ASSUME IInv, PaperStep
  PROVE  IInv'
<1>1. AttemptInv' /\ Kept /\ now' = now
  BY AttemptStep DEF IInv, PaperStep
<1>2. UNCHANGED <<session, section, answers, req>>
  BY DEF PaperStep
<1>3. \A s \in Sessions : paper'[s] # NoPaper =>
        paper'[s] = paper[s] /\ paper[s] \in Attempts /\ attempt'[paper[s]].status # "deleted"
  BY DEF PaperStep, IInv, TypeOK
<1>4. TypeOK'
  BY <1>1, <1>2 DEF IInv, TypeOK, PaperStep, AttemptInv
<1>5. SessionInv'
  <2>1. \A s \in Sessions : paper'[s] # NoPaper =>
          \E a \in Attempts : paper'[s] = a /\ OwnPaper(a, s)
    BY <1>3 DEF IInv, SessionInv
  <2>2. \A s \in Sessions : paper'[s] # NoPaper => OwnPaper(paper[s], s)'
    BY <1>1, <1>2, <2>1, OwnKept
  <2>3. \A s \in Sessions : paper[s] = NoPaper => paper'[s] = NoPaper
    BY <1>3
  <2>4. /\ \A s \in Sessions : session'[s].started <= now'
        /\ \A s \in Sessions : session'[s].status = "none" =>
             paper'[s] = NoPaper /\ \A i \in Places : ~ section'[s][i].closed
        /\ \A s \in Sessions : \A i \in Places : Completed(s, i)' => section'[s][i].closed
    BY <1>1, <1>2, <2>3 DEF IInv, SessionInv, Completed
  <2> QED BY <2>2, <2>4 DEF SessionInv
<1>6. AnswerInv'
  BY <1>1, <1>2 DEF IInv, AnswerInv, LinkedInTime
<1>7. ReqInv'
  <2> SUFFICES ASSUME NEW r \in Requests, req[r] # Idle
               PROVE  RequestInv(req[r])'
    BY <1>2 DEF ReqInv, RequestInv, OwnPaper, ClockInv, HandedIn, Reading
  <2>1. req[r] \in ReqType /\ RequestInv(req[r])
    BY Facts DEF IInv, ReqInv
  <2>2. req[r].paper # NoPaper => OwnPaper(req[r].paper, req[r].s)'
    BY <1>1, <1>2, <2>1, OwnKept DEF ReqType, RequestInv
  <2>3. HandedIn(req[r].paper) => HandedIn(req[r].paper)'
    <3>1. req[r].paper \in Attempts \cup {NoPaper}
      BY <2>1 DEF ReqType
    <3>2. \A a \in Attempts \cup {NoPaper} : HandedIn(a) => HandedIn(a)'
      BY <1>1, HandedInKept
    <3> QED BY <1>2, <3>1, <3>2 DEF HandedIn
  <2> QED BY <1>1, <1>2, <2>1, <2>2, <2>3 DEF RequestInv, ClockInv, Reading
<1>8. DoneIsClosed' /\ ClosedWasHandedIn'
  BY <1>1, <1>2, ClosedKept DEF IInv, DoneIsClosed
<1> QED BY <1>1, <1>4, <1>5, <1>6, <1>7, <1>8 DEF IInv

LEMMA TickInv ==
  ASSUME IInv, Tick
  PROVE  IInv'
<1>1. now \in Nat /\ now' = now + 1 /\ now' <= MaxNow /\ MaxNow \in Nat
  BY Facts, TimesAssumption DEF Tick
<1>2. UNCHANGED <<attempt, session, section, paper, answers, req>> /\ \A r \in Requests : req[r] = Idle
  BY DEF Tick, sessionVars
<1>3. AttemptInv'
  <2>1. AttemptTypeOK' /\ ScoredAsSubmitted' /\ OneActive'
    BY <1>1, <1>2 DEF IInv, AttemptInv, AttemptTypeOK, ScoredAsSubmitted, OneActive, Active
  <2>2. \A a \in Attempts : a \in Active => attempt[a].saved <= now + 1
    BY <1>1 DEF IInv, AttemptInv, AttemptTypeOK, AttemptType
  <2> QED BY <1>1, <1>2, <2>1, <2>2 DEF IInv, AttemptInv, Active
<1>4. TypeOK'
  BY <1>2, <1>3 DEF IInv, TypeOK, AttemptInv
<1>5. SessionInv'
  <2>1. \A s \in Sessions : session[s].started <= now + 1
    BY <1>1 DEF IInv, SessionInv, TypeOK, SessionType
  <2> QED BY <1>1, <1>2, <2>1 DEF IInv, SessionInv, OwnPaper, Completed
<1>6. AnswerInv'
  <2>1. \A n \in DOMAIN answers : answers[n].at <= now + 1
    <3>1. \A n \in DOMAIN answers : answers[n] \in AnswerType
      BY DEF IInv, TypeOK
    <3>2. \A n \in DOMAIN answers : answers[n].at \in Nat /\ answers[n].at <= now
      BY <3>1 DEF IInv, AnswerInv, AnswerType
    <3> QED BY <1>1, <3>2
  <2> QED BY <1>1, <1>2, <2>1 DEF IInv, AnswerInv, LinkedInTime
<1>7. ReqInv'
  BY <1>2 DEF ReqInv
<1>8. DoneIsClosed' /\ ClosedWasHandedIn'
  BY <1>2 DEF IInv, DoneIsClosed, ClosedWasHandedIn, Reading
<1> QED BY <1>3, <1>4, <1>5, <1>6, <1>7, <1>8 DEF IInv

\* A step of one request that writes nothing: it need only know true things.
LEMMA ReadOnly ==
  ASSUME IInv, NEW r \in Requests, NEW x \in ReqType \cup {Idle}, x # Idle => RequestInv(x),
         req' = [req EXCEPT ![r] = x],
         UNCHANGED <<attemptVars, session, section, paper, answers>>
  PROVE  IInv'
<1>1. AttemptInv' /\ TypeOK'
  BY Still DEF IInv, TypeOK, AttemptTypeOK, attemptVars
<1>2. SessionInv' /\ AnswerInv' /\ DoneIsClosed' /\ ClosedWasHandedIn'
  BY DEF IInv, SessionInv, AnswerInv, LinkedInTime, DoneIsClosed, ClosedWasHandedIn, OwnPaper,
         Completed, Reading, attemptVars
<1>3. ReqInv'
  <2> SUFFICES ASSUME NEW q \in Requests, req'[q] # Idle
               PROVE  RequestInv(req[q])'
    BY DEF ReqInv
  <2>1. RequestInv(req'[q])
    BY DEF IInv, TypeOK, ReqInv
  <2> QED BY <2>1 DEF RequestInv, OwnPaper, ClockInv, HandedIn, Reading, attemptVars
<1> QED BY <1>1, <1>2, <1>3 DEF IInv

LEMMA FailInv ==
  ASSUME IInv, NEW r \in Requests, Fail(r)
  PROVE  IInv'
  BY ReadOnly DEF Fail, Answered

LEMMA PaperOfFacts ==
  ASSUME IInv, NEW s \in Sessions, NEW i \in Places
  PROVE  /\ PaperOf(s, i) \in Attempts \cup {NoPaper}
         /\ PaperOf(s, i) # NoPaper => OwnPaper(PaperOf(s, i), s)
  BY DEF PaperOf, IInv, TypeOK, SessionInv

LEMMA StartReadInv ==
  ASSUME IInv, NEW r \in Requests, NEW s \in Sessions, NEW i \in Places, StartRead(r, s, i)
  PROVE  IInv'
<1> DEFINE t == IF section[s][i].started = Never THEN now ELSE section[s][i].started
           x == [pc |-> "start", s |-> s, i |-> i, paper |-> PaperOf(s, i), late |-> FALSE,
                 text |-> FALSE, last |-> FALSE, started |-> t]
<1>1. req' = [req EXCEPT ![r] = x] /\ session[s].status # "none"
  BY DEF StartRead
<1>2. section[s][i].started \in Nat \cup {Never} /\ now \in Nat /\ Never \notin Nat
  BY Facts DEF IInv, TypeOK, SectionType
<1>3. x \in ReqType
  BY <1>2, PaperOfFacts DEF ReqType
<1>4. RequestInv(x)
  BY <1>1, <1>2, PaperOfFacts DEF RequestInv, ClockInv
<1> QED BY <1>1, <1>3, <1>4, ReadOnly DEF StartRead

LEMMA CloseReadInv ==
  ASSUME IInv, NEW r \in Requests, NEW s \in Sessions, NEW i \in Places, NEW text \in BOOLEAN,
         CloseRead(r, s, i, text)
  PROVE  IInv'
<1> DEFINE y == section[s][i].started
           x == [pc |-> "close", s |-> s, i |-> i, started |-> y, paper |-> PaperOf(s, i),
                 text |-> text, last |-> FALSE, late |-> Timed(i, y) /\ now > y + Limit]
<1>1. req' = [req EXCEPT ![r] = x] /\ session[s].status # "none"
  BY DEF CloseRead
<1>2. y \in Nat \cup {Never}
  BY DEF IInv, TypeOK, SectionType
<1>3. x \in ReqType
  BY <1>2, PaperOfFacts DEF ReqType
<1>4. RequestInv(x)
  BY <1>1, <1>2, PaperOfFacts DEF RequestInv, ClockInv
<1> QED BY <1>1, <1>3, <1>4, ReadOnly DEF CloseRead

LEMMA CloseCheckInv ==
  ASSUME IInv, NEW r \in Requests, CloseCheck(r)
  PROVE  IInv'
<1> DEFINE l == Last(req[r].s, req[r].i)
           x == [req[r] EXCEPT !.pc = "commit", !.last = l]
<1>1. /\ req[r].pc = "close" /\ req[r] # Idle /\ req[r] \in ReqType /\ RequestInv(req[r])
      /\ Reading(req[r].i) => HandedIn(req[r].paper)
  BY Facts DEF CloseCheck, IInv, ReqInv, Idle
<1>2. req' = [req EXCEPT ![r] = x]
  BY DEF CloseCheck
<1>3. l \in BOOLEAN /\ (l => \A j \in Places : j = req[r].i \/ section[req[r].s][j].closed)
  BY <1>1 DEF Last, IInv, SessionInv, ReqType
<1> HIDE DEF l
<1>4. x \in ReqType /\ x # Idle
  BY <1>1, <1>3 DEF ReqType, Idle
<1>5. /\ x.s = req[r].s /\ x.i = req[r].i /\ x.started = req[r].started
      /\ x.paper = req[r].paper /\ x.last = l /\ x.pc = "commit"
  BY <1>1 DEF ReqType
<1> HIDE DEF x
<1>6. RequestInv(x)
  BY <1>1, <1>3, <1>5 DEF RequestInv, ClockInv
<1> QED BY <1>2, <1>4, <1>6, ReadOnly DEF CloseCheck

LEMMA OpenSessionInv ==
  ASSUME IInv, NEW s \in Sessions, OpenSession(s)
  PROVE  IInv'
<1>1. /\ session' = [session EXCEPT ![s] = [status |-> "IN_PROGRESS", started |-> now]]
      /\ session[s].status = "none" /\ UNCHANGED <<attemptVars, section, paper, answers, req>>
  BY DEF OpenSession
<1>2. AttemptInv' /\ TypeOK'
  BY <1>1, Still, Facts DEF IInv, TypeOK, AttemptTypeOK, attemptVars, SessionType
<1>3. paper[s] = NoPaper /\ \A i \in Places : ~ section[s][i].closed
  BY <1>1 DEF IInv, SessionInv
<1>4. /\ session'[s] = [status |-> "IN_PROGRESS", started |-> now]
      /\ \A z \in Sessions \ {s} : session'[z] = session[z]
  BY <1>1 DEF IInv, TypeOK
<1>5. SessionInv'
  BY <1>1, <1>3, <1>4, Facts DEF IInv, SessionInv, OwnPaper, Completed, attemptVars
<1>6. AnswerInv'
  BY <1>1 DEF IInv, AnswerInv, LinkedInTime, attemptVars
<1>7. ReqInv'
  <2> SUFFICES ASSUME NEW q \in Requests, req[q] # Idle
               PROVE  RequestInv(req[q])'
    BY <1>1 DEF ReqInv
  <2>1. RequestInv(req[q]) /\ req[q] \in ReqType /\ req[q].s # s
    BY <1>1, Facts DEF IInv, ReqInv, RequestInv
  <2>2. session'[req[q].s] = session[req[q].s]
    BY <1>4, <2>1 DEF ReqType
  <2> QED BY <1>1, <2>1, <2>2 DEF RequestInv, OwnPaper, ClockInv, HandedIn, Reading, attemptVars
<1>8. DoneIsClosed'
  BY <1>1, <1>4 DEF IInv, DoneIsClosed
<1>9. ClosedWasHandedIn'
  BY <1>1, <1>3, <1>4 DEF IInv, ClosedWasHandedIn, Reading, attemptVars
<1> QED BY <1>2, <1>5, <1>6, <1>7, <1>8, <1>9 DEF IInv

-----------------------------------------------------------------------------
(* Opening a section, which may reopen one that was closed meanwhile.        *)

\* What opening does to a section: its clock starts now, if it had not started.
OpenKeeps(s, i) ==
  /\ section'[s][i].closed = section[s][i].closed
  /\ Completed(s, i)' => Completed(s, i)
  /\ \/ section'[s][i].started = section[s][i].started
     \/ section[s][i].started = Never /\ section'[s][i].started = now

LEMMA OpenedFacts ==
  ASSUME IInv, NEW r \in Requests, req[r].pc = "start", Opened(r)
  PROVE  /\ section' \in [Sessions -> [Places -> SectionType]]
         /\ \A s \in Sessions, i \in Places :
              OpenKeeps(s, i) /\ (section'[s][i].status = "IN_PROGRESS" => section'[s][i].started # Never)
<1> DEFINE x == req[r]
           y == [section[x.s][x.i] EXCEPT !.status = "IN_PROGRESS", !.started = x.started]
<1>1. x \in ReqType /\ RequestInv(x) /\ x.pc = "start"
  BY Facts DEF IInv, ReqInv, Idle
<1>2. x.s \in Sessions /\ x.i \in Places /\ x.started \in Nat \cup {Never}
  BY <1>1 DEF ReqType
<1>3. section' = [section EXCEPT ![x.s] = [section[x.s] EXCEPT ![x.i] = y]]
  BY <1>2 DEF Opened, IInv, TypeOK
<1>4. section \in [Sessions -> [Places -> SectionType]]
  BY DEF IInv, TypeOK
<1>5. section[x.s][x.i] \in SectionType
  BY <1>2, <1>4
<1>6. /\ y \in SectionType /\ y.status = "IN_PROGRESS" /\ y.started = x.started
      /\ y.closed = section[x.s][x.i].closed
  BY <1>2, <1>5 DEF SectionType
<1>7. /\ x.started # Never
      /\ \/ x.started = section[x.s][x.i].started
         \/ section[x.s][x.i].started = Never /\ x.started = now
  BY <1>1 DEF RequestInv, ClockInv
<1> HIDE DEF x, y
<1>8. /\ section'[x.s][x.i] = y
      /\ \A s \in Sessions, i \in Places : s # x.s \/ i # x.i => section'[s][i] = section[s][i]
  BY <1>2, <1>3, <1>4
<1>9. section' \in [Sessions -> [Places -> SectionType]]
  BY <1>2, <1>3, <1>4, <1>6
<1>10. ASSUME NEW s \in Sessions, NEW i \in Places
       PROVE  /\ OpenKeeps(s, i)
              /\ section'[s][i].status = "IN_PROGRESS" => section'[s][i].started # Never
  <2>1. CASE s = x.s /\ i = x.i
    BY <1>6, <1>7, <1>8, <2>1 DEF OpenKeeps, Completed
  <2>2. CASE ~ (s = x.s /\ i = x.i)
    BY <1>8, <2>2 DEF OpenKeeps, Completed, IInv, TypeOK
  <2> QED BY <2>1, <2>2
<1> QED BY <1>9, <1>10

LEMMA OpenInv ==
  ASSUME IInv, NEW r \in Requests, req[r].pc = "start", Opened(r), Answered(r),
         UNCHANGED <<now, session, answers>>,
         Kept, AttemptInv', paper' \in [Sessions -> Attempts \cup {NoPaper}],
         \A s \in Sessions : paper'[s] # NoPaper => OwnPaper(paper[s], s)',
         \A s \in Sessions : session[s].status = "none" => paper'[s] = paper[s]
  PROVE  IInv'
<1>1. /\ section' \in [Sessions -> [Places -> SectionType]]
      /\ \A s \in Sessions, i \in Places :
           OpenKeeps(s, i) /\ (section'[s][i].status = "IN_PROGRESS" => section'[s][i].started # Never)
  BY OpenedFacts
<1>2. TypeOK'
  BY <1>1 DEF IInv, TypeOK, Answered, AttemptInv
<1>3. SessionInv'
  <2>1. ASSUME NEW s \in Sessions, session[s].status = "none"
        PROVE  paper'[s] = NoPaper /\ \A i \in Places : ~ section'[s][i].closed
    <3>1. paper[s] = NoPaper /\ \A i \in Places : ~ section[s][i].closed
      BY <2>1 DEF IInv, SessionInv
    <3>2. \A i \in Places : section'[s][i].closed = section[s][i].closed
      BY <1>1 DEF OpenKeeps
    <3> QED BY <2>1, <3>1, <3>2
  <2>2. \A s \in Sessions, i \in Places : Completed(s, i)' => section'[s][i].closed
    BY <1>1 DEF IInv, SessionInv, OpenKeeps
  <2> QED BY <2>1, <2>2 DEF IInv, SessionInv
<1>4. AnswerInv'
  <2> SUFFICES ASSUME NEW n \in DOMAIN answers, answers[n].of # NoSession, NEW i \in Places,
                      Kinds[i] = answers[n].kind, section'[answers[n].of][i].started # Never
               PROVE  answers[n].at <= section'[answers[n].of][i].started + Limit
    BY DEF IInv, AnswerInv, LinkedInTime
  <2> DEFINE s == answers[n].of
  <2>1. answers[n] \in AnswerType
    BY DEF IInv, TypeOK
  <2>2. s \in Sessions /\ answers[n].at \in Nat /\ answers[n].at <= now
    BY <2>1 DEF AnswerType, IInv, AnswerInv
  <2>3. CASE section'[s][i].started = section[s][i].started
    BY <2>3 DEF IInv, AnswerInv, LinkedInTime
  <2>4. CASE section'[s][i].started = now
    BY <2>2, <2>4, LimitAssumption, Facts
  <2> QED BY <1>1, <2>2, <2>3, <2>4 DEF OpenKeeps
<1>5. ReqInv'
  <2> SUFFICES ASSUME NEW q \in Requests, req'[q] # Idle
               PROVE  RequestInv(req[q])'
    BY DEF ReqInv
  <2>1. req'[q] = req[q] /\ req[q] # Idle
    BY DEF Answered, IInv, TypeOK
  <2>2. req[q] \in ReqType /\ RequestInv(req[q])
    BY <2>1, Facts DEF IInv, ReqInv
  <2>3. req[q].s \in Sessions /\ req[q].i \in Places /\ req[q].paper \in Attempts \cup {NoPaper}
    BY <2>2 DEF ReqType
  <2>4. OpenKeeps(req[q].s, req[q].i)
    BY <1>1, <2>3
  <2>5. ClockInv(req[q], section'[req[q].s][req[q].i].started)
    BY <2>2, <2>4, Facts DEF RequestInv, ClockInv, OpenKeeps
  <2>6. \A a \in Attempts, s \in Sessions : OwnPaper(a, s) => OwnPaper(a, s)'
    BY OwnKept
  <2>7. \A a \in Attempts \cup {NoPaper} : HandedIn(a) => HandedIn(a)'
    BY HandedInKept
  <2>8. \A j \in Places : section[req[q].s][j].closed => section'[req[q].s][j].closed
    BY <1>1, <2>3 DEF OpenKeeps
  <2> QED BY <2>1, <2>2, <2>3, <2>5, <2>6, <2>7, <2>8
       DEF RequestInv, OwnPaper, HandedIn, Reading, ClockInv
<1>6. DoneIsClosed'
  BY <1>1 DEF IInv, DoneIsClosed, OpenKeeps
<1>7. ClosedWasHandedIn'
  BY <1>1, ClosedKept DEF IInv, OpenKeeps
<1> QED BY <1>2, <1>3, <1>4, <1>5, <1>6, <1>7 DEF IInv

LEMMA StartCommitInv ==
  ASSUME IInv, NEW r \in Requests, StartCommit(r)
  PROVE  IInv'
<1>1. UNCHANGED <<attemptVars, session, paper, answers>> /\ Opened(r) /\ Answered(r) /\ req[r].pc = "start"
  BY DEF StartCommit
<1>2. Kept /\ AttemptInv' /\ now' = now /\ paper' \in [Sessions -> Attempts \cup {NoPaper}]
  BY <1>1, Still DEF IInv, attemptVars, TypeOK
<1>3. \A s \in Sessions : paper'[s] # NoPaper => OwnPaper(paper[s], s)'
  BY <1>1 DEF IInv, SessionInv, OwnPaper, attemptVars
<1> QED BY <1>1, <1>2, <1>3, OpenInv

LEMMA StartPaperInv ==
  ASSUME IInv, NEW r \in Requests, NEW a \in Attempts, StartPaper(r, a)
  PROVE  IInv'
<1>1. /\ req[r].pc = "start" /\ Active = {} /\ attempt[a].status = "none"
      /\ attempt' = [attempt EXCEPT ![a] = NewAttempt]
      /\ paper' = [paper EXCEPT ![req[r].s] = a]
      /\ Opened(r) /\ Answered(r) /\ UNCHANGED <<now, session, answers>>
  BY DEF StartPaper
<1>2. req[r] \in ReqType /\ RequestInv(req[r])
  BY <1>1, Facts DEF IInv, ReqInv, Idle
<1>3. Kept /\ AttemptInv'
  BY <1>1, NewPaper DEF IInv
<1>4. req[r].s \in Sessions /\ session[req[r].s].status # "none"
  BY <1>2 DEF ReqType, RequestInv
<1>5. paper' \in [Sessions -> Attempts \cup {NoPaper}]
  BY <1>1 DEF IInv, TypeOK
<1>6. attempt'[a].status = "PENDING_START" /\ attempt'[a].created = now
  BY <1>1 DEF NewAttempt, NoAttempt, IInv, AttemptInv, AttemptTypeOK
<1>7. ASSUME NEW s \in Sessions, paper'[s] # NoPaper
      PROVE  OwnPaper(paper[s], s)'
  <2>1. CASE s = req[r].s
    <3>1. paper'[s] = a
      BY <1>1, <2>1 DEF IInv, TypeOK
    <3>2. session[s].started <= now
      BY DEF IInv, SessionInv
    <3>3. session[s].started \in Nat /\ now \in Nat
      BY Facts DEF IInv, TypeOK, SessionType
    <3> QED BY <1>1, <1>6, <3>1, <3>2, <3>3 DEF OwnPaper
  <2>2. CASE s # req[r].s
    <3>1. paper'[s] = paper[s] /\ paper[s] \in Attempts /\ OwnPaper(paper[s], s)
      BY <1>1, <1>7, <2>2 DEF IInv, TypeOK, SessionInv
    <3>2. \A b \in Attempts : OwnPaper(b, s) => OwnPaper(b, s)'
      BY <1>1, <1>3, OwnKept
    <3> QED BY <3>1, <3>2
  <2> QED BY <2>1, <2>2
<1>8. \A s \in Sessions : session[s].status = "none" => paper'[s] = paper[s]
  BY <1>1, <1>4 DEF IInv, TypeOK
<1> QED BY <1>1, <1>3, <1>5, <1>7, <1>8, OpenInv

-----------------------------------------------------------------------------
(* Closing a section.                                                        *)

\* Answers at one more end: the old ones, and one of now that is linked to nothing.
LEMMA OneMore ==
  ASSUME IInv, Len(answers) < MaxAnswers, NEW z \in AnswerType, z.at = now, z.of = NoSession,
         NEW as, as = Append(answers, z)
  PROVE  /\ as \in Seq(AnswerType) /\ Len(as) <= MaxAnswers
         /\ \A n \in DOMAIN as : as[n].at <= now /\ ((n \in DOMAIN answers /\ as[n] = answers[n]) \/ as[n].of = NoSession)
<1>1. answers \in Seq(AnswerType) /\ Len(answers) \in Nat /\ MaxAnswers \in Nat /\ now \in Nat
  BY LimitAssumption, Facts DEF IInv, TypeOK
<1>2. as \in Seq(AnswerType) /\ Len(as) = Len(answers) + 1
  BY <1>1, AppendProperties
<1>3. /\ DOMAIN answers = 1 .. Len(answers) /\ DOMAIN as = 1 .. Len(as)
      /\ \A n \in 1 .. Len(answers) : as[n] = answers[n]
      /\ as[Len(answers) + 1] = z
  BY <1>1, <1>2, AppendProperties, LenProperties
<1>4. \A n \in DOMAIN as : (n \in DOMAIN answers /\ as[n] = answers[n]) \/ (n = Len(answers) + 1 /\ as[n] = z)
  <2>1. \A k \in Nat : \A n \in 1 .. k + 1 : n \in 1 .. k \/ n = k + 1
    OBVIOUS
  <2>2. DOMAIN as = 1 .. Len(answers) + 1
    BY <1>2, <1>3
  <2> QED BY <1>1, <1>3, <2>1, <2>2
<1> QED BY <1>1, <1>2, <1>4 DEF IInv, AnswerInv

LEMMA StoredFacts ==
  ASSUME IInv, NEW x \in ReqType
  PROVE  /\ Stored(x) \in Seq(AnswerType) /\ Len(Stored(x)) <= MaxAnswers
         /\ \A n \in DOMAIN Stored(x) :
              /\ Stored(x)[n].at <= now
              /\ (n \in DOMAIN answers /\ Stored(x)[n] = answers[n]) \/ Stored(x)[n].of = NoSession
<1> DEFINE z == [kind |-> "WRITING", at |-> now, by |-> x.s, of |-> NoSession]
<1>1. z \in AnswerType /\ z.at = now /\ z.of = NoSession
  BY Facts DEF AnswerType, ReqType
<1> HIDE DEF z
<1>2. CASE Stored(x) = answers
  BY <1>2 DEF IInv, TypeOK, AnswerInv
<1>3. CASE Len(answers) < MaxAnswers /\ Stored(x) = Append(answers, z)
  BY <1>1, <1>3, OneMore
<1> QED BY <1>2, <1>3 DEF Stored, z

LEMMA LinkedFacts ==
  ASSUME NEW x \in ReqType, NEW as \in Seq(AnswerType)
  PROVE  /\ Linked(x, as) \in Seq(AnswerType) /\ Len(Linked(x, as)) = Len(as)
         /\ DOMAIN Linked(x, as) = DOMAIN as
         /\ \A n \in DOMAIN as :
              \/ Linked(x, as)[n] = as[n]
              \/ /\ n \in Countable(x, as)
                 /\ Linked(x, as)[n] = [as[n] EXCEPT !.of = x.s]
<1> DEFINE e(n) == IF /\ n \in Countable(x, as) /\ \A m \in Countable(x, as) : m <= n
                      /\ as[n].of = NoSession
                     THEN [as[n] EXCEPT !.of = x.s] ELSE as[n]
<1>1. \A n \in DOMAIN as : as[n] \in AnswerType
  BY LenProperties, ElementOfSeq
<1>2. \A y \in AnswerType : [y EXCEPT !.of = x.s] \in AnswerType
  BY DEF AnswerType, ReqType
<1>3. \A n \in DOMAIN as : e(n) \in AnswerType
  BY <1>1, <1>2
<1>4. Linked(x, as) = [n \in DOMAIN as |-> e(n)]
  BY DEF Linked
<1>5. DOMAIN as = 1 .. Len(as) /\ Len(as) \in Nat
  BY LenProperties
<1>6. \A n \in DOMAIN as : e(n) = as[n] \/ (n \in Countable(x, as) /\ e(n) = [as[n] EXCEPT !.of = x.s])
  OBVIOUS
<1> HIDE DEF e
<1>7. [n \in 1 .. Len(as) |-> e(n)] \in Seq(AnswerType)
  <2>1. [n \in 1 .. Len(as) |-> e(n)] \in [1 .. Len(as) -> AnswerType]
    BY <1>3, <1>5
  <2> QED BY <1>5, <2>1, SeqDef
<1>8. Len([n \in 1 .. Len(as) |-> e(n)]) = Len(as)
  <2> DEFINE f == [n \in 1 .. Len(as) |-> e(n)]
  <2>1. DOMAIN f = 1 .. Len(f) /\ Len(f) \in Nat
    BY <1>7, LenProperties
  <2>2. DOMAIN f = 1 .. Len(as)
    OBVIOUS
  <2> HIDE DEF f
  <2>3. \A j, k \in Nat : 1 .. j = 1 .. k => j = k
    OBVIOUS
  <2>4. Len(f) = Len(as)
    BY <1>5, <2>1, <2>2, <2>3
  <2> QED BY <2>4 DEF f
<1> QED BY <1>4, <1>5, <1>6, <1>7, <1>8

LEMMA ClosedFacts ==
  ASSUME NEW y \in SectionType
  PROVE  LET z == [y EXCEPT !.status = "COMPLETED", !.closed = TRUE]
         IN  /\ z \in SectionType /\ z.status = "COMPLETED" /\ z.closed
             /\ z.started = y.started
  BY DEF SectionType

LEMMA CloseCommitInv ==
  ASSUME IInv, NEW r \in Requests, CloseCommit(r)
  PROVE  IInv'
<1> DEFINE x  == req[r]
           as == Stored(x)
<1>1. x \in ReqType /\ RequestInv(x) /\ x.pc = "commit"
  BY Facts DEF IInv, ReqInv, CloseCommit, Idle
<1>2. /\ answers' = Linked(x, as)
      /\ section' = [section EXCEPT ![x.s][x.i].status = "COMPLETED", ![x.s][x.i].closed = TRUE]
      /\ session' = IF x.last THEN [session EXCEPT ![x.s].status = "COMPLETED"] ELSE session
      /\ req' = [req EXCEPT ![r] = Idle] /\ UNCHANGED <<attemptVars, paper>>
  BY DEF CloseCommit, Answered
<1>3. x.s \in Sessions /\ x.i \in Places /\ x.started \in Nat \cup {Never} /\ x.paper \in Attempts \cup {NoPaper}
  BY <1>1 DEF ReqType
<1>4. AttemptInv' /\ now' = now /\ attempt' = attempt /\ paper' = paper
  BY <1>2, Still DEF IInv, attemptVars
<1>5. ASSUME NEW s \in Sessions, NEW i \in Places
      PROVE  /\ section'[s][i] = IF s = x.s /\ i = x.i
                                   THEN [section[s][i] EXCEPT !.status = "COMPLETED", !.closed = TRUE]
                                   ELSE section[s][i]
             /\ section[s][i] \in SectionType
  BY <1>2, <1>3 DEF IInv, TypeOK
<1>6. section' \in [Sessions -> [Places -> SectionType]]
  <2>1. section \in [Sessions -> [Places -> SectionType]]
    BY DEF IInv, TypeOK
  <2>2. [section[x.s][x.i] EXCEPT !.status = "COMPLETED", !.closed = TRUE] \in SectionType
    BY <1>3, <1>5, ClosedFacts
  <2>3. section' = [section EXCEPT ![x.s] = [section[x.s] EXCEPT ![x.i] =
                      [section[x.s][x.i] EXCEPT !.status = "COMPLETED", !.closed = TRUE]]]
    BY <1>2, <1>3, <2>1
  <2> QED BY <1>3, <2>1, <2>2, <2>3
<1>7. \A s \in Sessions, i \in Places :
        /\ section'[s][i].started = section[s][i].started
        /\ section[s][i].closed => section'[s][i].closed
        /\ section'[s][i].status = "IN_PROGRESS" => section[s][i].status = "IN_PROGRESS"
        /\ Completed(s, i)' => section'[s][i].closed
        /\ section'[s][i].closed => section[s][i].closed \/ (s = x.s /\ i = x.i)
  <2> SUFFICES ASSUME NEW s \in Sessions, NEW i \in Places
               PROVE  /\ section'[s][i].started = section[s][i].started
                      /\ section[s][i].closed => section'[s][i].closed
                      /\ section'[s][i].status = "IN_PROGRESS" => section[s][i].status = "IN_PROGRESS"
                      /\ section'[s][i].status = "COMPLETED" => section'[s][i].closed
                      /\ section'[s][i].closed => section[s][i].closed \/ (s = x.s /\ i = x.i)
    BY DEF Completed
  <2>1. section[s][i].status = "COMPLETED" => section[s][i].closed
    BY DEF IInv, SessionInv, Completed
  <2>2. CASE s = x.s /\ i = x.i
    <3>1. section'[s][i] = [section[s][i] EXCEPT !.status = "COMPLETED", !.closed = TRUE]
      BY <1>5, <2>2
    <3>2. section[s][i] \in SectionType
      BY <1>5
    <3> HIDE DEF x
    <3> QED BY <2>2, <3>1, <3>2, ClosedFacts
  <2>3. CASE ~ (s = x.s /\ i = x.i)
    <3>1. section'[s][i] = section[s][i]
      BY <1>5, <2>3
    <3> QED BY <2>1, <3>1
  <2> QED BY <2>2, <2>3
<1>8. \A s \in Sessions : session'[s].started = session[s].started
                          /\ (session'[s].status = "none" <=> session[s].status = "none")
                          /\ (session'[s].status = "COMPLETED" =>
                                session[s].status = "COMPLETED" \/ (s = x.s /\ x.last))
  BY <1>1, <1>2, <1>3 DEF IInv, TypeOK, SessionType, RequestInv
<1>9. as \in Seq(AnswerType) /\ Len(as) <= MaxAnswers
  BY <1>1, StoredFacts
<1>10. /\ answers' \in Seq(AnswerType) /\ Len(answers') <= MaxAnswers /\ DOMAIN answers' = DOMAIN as
       /\ \A n \in DOMAIN as :
            answers'[n] = as[n] \/ (n \in Countable(x, as) /\ answers'[n] = [as[n] EXCEPT !.of = x.s])
  <2>1. answers' = Linked(x, as) /\ x \in ReqType
    BY <1>1, <1>2
  <2> HIDE DEF x, as
  <2> QED BY <1>9, <2>1, LinkedFacts
<1>11. TypeOK'
  <2>1. session' \in [Sessions -> SessionType]
    BY <1>2, <1>3 DEF IInv, TypeOK, SessionType
  <2>2. req' \in [Requests -> ReqType \cup {Idle}]
    BY <1>2 DEF IInv, TypeOK
  <2> QED BY <1>4, <1>6, <1>7, <1>10, <2>1, <2>2 DEF IInv, TypeOK, AttemptInv
<1>12. SessionInv'
  <2>1. session[x.s].status # "none"
    BY <1>1 DEF RequestInv
  <2> QED BY <1>4, <1>7, <1>8, <2>1 DEF IInv, SessionInv, OwnPaper
<1>13. AnswerInv'
  <2>1. \A n \in DOMAIN as : /\ as[n] \in AnswerType /\ as[n].at <= now
                             /\ (n \in DOMAIN answers /\ as[n] = answers[n]) \/ as[n].of = NoSession
    BY <1>1, <1>9, StoredFacts
  <2>2. \A n \in DOMAIN as : answers'[n].at = as[n].at /\ answers'[n].kind = as[n].kind
    BY <1>10, <2>1 DEF AnswerType
  <2>3. ASSUME NEW n \in DOMAIN as, answers'[n].of # NoSession, NEW i \in Places,
               Kinds[i] = answers'[n].kind, section'[answers'[n].of][i].started # Never
        PROVE  answers'[n].at <= section'[answers'[n].of][i].started + Limit
    <3>1. CASE answers'[n] = as[n]
      <4>1. n \in DOMAIN answers /\ answers'[n] = answers[n] /\ answers[n] \in AnswerType
        BY <2>1, <2>3, <3>1
      <4>2. answers[n].of \in Sessions
        BY <2>3, <4>1 DEF AnswerType
      <4>3. section'[answers[n].of][i].started = section[answers[n].of][i].started
        BY <1>7, <4>2
      <4> QED BY <2>3, <4>1, <4>3 DEF IInv, AnswerInv, LinkedInTime
    <3>2. CASE n \in Countable(x, as) /\ answers'[n] = [as[n] EXCEPT !.of = x.s]
      <4>1. as[n] \in AnswerType /\ answers'[n].of = x.s /\ as[n].kind = Kinds[x.i]
        BY <2>1, <3>2 DEF AnswerType, Countable
      <4>2. i = x.i /\ ~ Reading(i)
        BY <1>3, <2>2, <2>3, <4>1, Facts DEF Reading, AnswerType
      <4>3. ClockInv(x, section[x.s][x.i].started) /\ section'[x.s][x.i].started = section[x.s][x.i].started
        BY <1>1, <1>3, <1>7 DEF RequestInv
      <4>4. section[x.s][x.i].started # Never
        BY <2>3, <4>1, <4>2, <4>3
      <4>5. CASE x.started = Never
        <5>1. section[x.s][x.i].started = now
          BY <1>1, <4>3, <4>4, <4>5 DEF ClockInv
        <5> QED BY <2>1, <2>2, <4>1, <4>2, <4>3, <5>1, LimitAssumption, Facts DEF AnswerType
      <4>6. CASE x.started # Never
        <5>1. section[x.s][x.i].started = x.started
          BY <1>1, <4>3, <4>4, <4>6 DEF ClockInv
        <5>2. as[n].at <= x.started + Limit
          BY <3>2, <4>2, <4>6 DEF Countable, Timed
        <5> QED BY <2>2, <4>1, <4>2, <4>3, <5>1, <5>2
      <4> QED BY <4>5, <4>6
    <3> QED BY <1>10, <3>1, <3>2
  <2> HIDE DEF as
  <2>4. \A n \in DOMAIN answers' : answers'[n].at <= now'
    BY <1>4, <1>10, <2>1, <2>2
  <2>5. LinkedInTime'
    BY <1>10, <2>3 DEF LinkedInTime
  <2> QED BY <2>4, <2>5 DEF AnswerInv
<1>14. ReqInv'
  <2> SUFFICES ASSUME NEW q \in Requests, req'[q] # Idle
               PROVE  RequestInv(req[q])'
    BY DEF ReqInv
  <2>1. req'[q] = req[q] /\ req[q] # Idle
    BY <1>2 DEF IInv, TypeOK
  <2>2. req[q] \in ReqType /\ RequestInv(req[q])
    BY <2>1, Facts DEF IInv, ReqInv
  <2>3. req[q].s \in Sessions /\ req[q].i \in Places /\ req[q].paper \in Attempts \cup {NoPaper}
    BY <2>2 DEF ReqType
  <2>4. session'[req[q].s].started = session[req[q].s].started /\ session'[req[q].s].status # "none"
    BY <1>8, <2>2, <2>3 DEF RequestInv
  <2>5. section'[req[q].s][req[q].i].started = section[req[q].s][req[q].i].started
    BY <1>7, <2>3
  <2>6. \A j \in Places : section[req[q].s][j].closed => section'[req[q].s][j].closed
    BY <1>7, <2>3
  <2> QED BY <1>4, <2>1, <2>2, <2>4, <2>5, <2>6
       DEF RequestInv, OwnPaper, HandedIn, Reading, ClockInv
<1>15. DoneIsClosed'
  <2>1. section'[x.s][x.i].closed
    <3>1. /\ section'[x.s][x.i] = [section[x.s][x.i] EXCEPT !.status = "COMPLETED", !.closed = TRUE]
          /\ section[x.s][x.i] \in SectionType
      BY <1>3, <1>5
    <3> HIDE DEF x
    <3> QED BY <3>1, ClosedFacts
  <2>2. x.last => \A j \in Places : j = x.i \/ section[x.s][j].closed
    BY <1>1 DEF RequestInv
  <2> HIDE DEF x
  <2> QED BY <1>3, <1>7, <1>8, <2>1, <2>2 DEF IInv, DoneIsClosed
<1>16. ClosedWasHandedIn'
  <2>1. Reading(x.i) => attempt[x.paper].status = "SUBMITTED" /\ x.paper \in Attempts
                        /\ attempt[x.paper].created >= session[x.s].started
    BY <1>1, <1>3 DEF RequestInv, HandedIn, OwnPaper
  <2> HIDE DEF x
  <2> QED BY <1>3, <1>4, <1>7, <1>8, <2>1 DEF IInv, ClosedWasHandedIn, Reading
<1> QED BY <1>4, <1>11, <1>12, <1>13, <1>14, <1>15, <1>16 DEF IInv

LEMMA RecordAnswerInv ==
  ASSUME IInv, NEW kind \in {"SPEAKING", "WRITING"}, RecordAnswer(kind)
  PROVE  IInv'
<1> DEFINE z == [kind |-> kind, at |-> now, by |-> NoSession, of |-> NoSession]
<1>1. /\ Len(answers) < MaxAnswers /\ answers' = Append(answers, z)
      /\ UNCHANGED <<attemptVars, session, section, paper, req>>
  BY DEF RecordAnswer
<1>2. z \in AnswerType /\ z.at = now /\ z.of = NoSession
  BY Facts DEF AnswerType
<1> HIDE DEF z
<1>3. /\ answers' \in Seq(AnswerType) /\ Len(answers') <= MaxAnswers
      /\ \A n \in DOMAIN answers' :
           answers'[n].at <= now /\ ((n \in DOMAIN answers /\ answers'[n] = answers[n]) \/ answers'[n].of = NoSession)
  BY <1>1, <1>2, OneMore
<1>4. AttemptInv' /\ TypeOK'
  BY <1>1, <1>3, Still DEF IInv, TypeOK, AttemptTypeOK, attemptVars
<1>5. AnswerInv'
  BY <1>1, <1>3 DEF IInv, AnswerInv, LinkedInTime, attemptVars
<1>6. SessionInv' /\ ReqInv' /\ DoneIsClosed' /\ ClosedWasHandedIn'
  BY <1>1 DEF IInv, SessionInv, ReqInv, RequestInv, DoneIsClosed, ClosedWasHandedIn, OwnPaper,
              Completed, Reading, HandedIn, ClockInv, attemptVars
<1> QED BY <1>4, <1>5, <1>6 DEF IInv

-----------------------------------------------------------------------------

LEMMA StutterInv ==
  ASSUME IInv, UNCHANGED vars
  PROVE  IInv'
<1>1. AttemptInv' /\ TypeOK'
  BY Still DEF IInv, TypeOK, AttemptTypeOK, vars, attemptVars, sessionVars
<1>2. SessionInv' /\ ReqInv' /\ AnswerInv' /\ DoneIsClosed' /\ ClosedWasHandedIn'
  BY DEF IInv, SessionInv, ReqInv, RequestInv, AnswerInv, LinkedInTime, DoneIsClosed,
         ClosedWasHandedIn, OwnPaper, Completed, Reading, HandedIn, ClockInv, vars, attemptVars,
         sessionVars
<1> QED BY <1>1, <1>2 DEF IInv

LEMMA NextInv == IInv /\ [Next]_vars => IInv'
<1> SUFFICES ASSUME IInv, [Next]_vars PROVE IInv'
  OBVIOUS
<1>1. CASE \E s \in Sessions : OpenSession(s)
  BY <1>1, OpenSessionInv
<1>2. CASE \E r \in Requests : StartCommit(r) \/ CloseCheck(r) \/ CloseCommit(r) \/ Fail(r)
  BY <1>2, StartCommitInv, CloseCheckInv, CloseCommitInv, FailInv
<1>3. CASE \E r \in Requests : \E a \in Attempts : StartPaper(r, a)
  BY <1>3, StartPaperInv
<1>4. CASE \E r \in Requests : \E s \in Sessions, i \in Places :
             StartRead(r, s, i) \/ \E text \in BOOLEAN : CloseRead(r, s, i, text)
  BY <1>4, StartReadInv, CloseReadInv
<1>5. CASE \E kind \in {"SPEAKING", "WRITING"} : RecordAnswer(kind)
  BY <1>5, RecordAnswerInv
<1>6. CASE PaperStep \/ Tick
  BY <1>6, PaperStepInv, TickInv
<1>7. CASE UNCHANGED vars
  BY <1>7, StutterInv
<1> QED BY <1>1, <1>2, <1>3, <1>4, <1>5, <1>6, <1>7 DEF Next

LEMMA Inductive == Spec => []IInv
  BY InitStep, NextInv, PTL DEF Spec

\* The rows and the requests keep their types, and open sections have their clock.
THEOREM TypeCorrect == Spec => []TypeOK
<1>1. IInv => TypeOK
  BY DEF IInv
<1> QED BY <1>1, Inductive, PTL

\* No save that races with a submission, an expiry or a new start leaves a result
\* that does not match its answers, or answers later than its deadline.
THEOREM ResultsMatchAnswers == Spec => []ScoredAsSubmitted
<1>1. IInv => ScoredAsSubmitted
  BY DEF IInv, AttemptInv
<1> QED BY <1>1, Inductive, PTL

\* Sessions and single starts never open a paper twice.
THEOREM OnePaperOpen == Spec => []OneActive
<1>1. IInv => OneActive
  BY DEF IInv, AttemptInv
<1> QED BY <1>1, Inductive, PTL

\* However its sections are closed and reopened, a completed session had each of
\* them handed in.
THEOREM CompletedWasClosed == Spec => []DoneIsClosed
<1>1. IInv => DoneIsClosed
  BY DEF IInv
<1> QED BY <1>1, Inductive, PTL

\* A closed Listening & Reading section has a paper of its session's time behind it.
THEOREM PaperHandedIn == Spec => []ClosedWasHandedIn
<1>1. IInv => ClosedWasHandedIn
  BY DEF IInv
<1> QED BY <1>1, Inductive, PTL

\* No answer given after a section's time counts for it, whichever request
\* started its clock.
THEOREM NothingLateCounts == Spec => []LinkedInTime
<1>1. IInv => LinkedInTime
  BY DEF IInv, AnswerInv
<1> QED BY <1>1, Inductive, PTL

=============================================================================
