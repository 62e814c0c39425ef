---------------------------- MODULE ToeicSession ----------------------------
(* The sessions in which a learner sits one TOEIC assessment: sections opened  *)
(* and closed in turn, where the Listening & Reading section is an attempt of  *)
(* module ToeicAttempt and the others collect the answers recorded or written  *)
(* while they were open.                                                       *)
(*                                                                             *)
(* startComponent and completeComponent take no lock. They read the session,   *)
(* then write it by id in a transaction, so a request is several steps: what   *)
(* it read, (for a closing) the row it updated and the sections it saw beside  *)
(* it, and the commit. A request is short against the unit of time. Every      *)
(* section is a required one.                                                  *)
EXTENDS ToeicAttempt, Sequences

CONSTANTS
  Sessions,
  Kinds,        \* the sections of the assessment, in order
  Limit,        \* time of a Speaking or Writing section, with its margin
  Requests,     \* requests the server works on at once (bound)
  MaxAnswers,   \* recordings and written answers (bound)
  NoSession, NoPaper

ASSUME KindsAssumption ==
  Kinds \in {<<"LISTENING_READING">>, <<"SPEAKING", "WRITING">>,
             <<"LISTENING_READING", "SPEAKING", "WRITING">>}
ASSUME LimitAssumption == Limit \in Nat /\ MaxAnswers \in Nat
ASSUME NothingAssumption == NoSession \notin Sessions /\ NoPaper \notin Attempts

VARIABLES
  session,   \* ToeicAssessmentAttempt
  section,   \* ToeicAssessmentAttemptComponent, by session and place
  paper,     \* toeicAttemptId of its Listening & Reading section
  answers,   \* the learner's recordings and texts, oldest first
  req        \* the requests under way

sessionVars == <<session, section, paper, answers, req>>
vars == <<attemptVars, sessionVars>>

-----------------------------------------------------------------------------

Places == DOMAIN Kinds
Never  == -1

SessionType == [status : {"none", "IN_PROGRESS", "COMPLETED"}, started : Nat]
\* closed: submittedAt is set.
SectionType ==
  [status : {"NOT_STARTED", "IN_PROGRESS", "COMPLETED"}, started : Nat \cup {Never},
   closed : BOOLEAN]
\* by: the section whose key a text was stored under; of: the one it is linked to.
AnswerType ==
  [kind : {"SPEAKING", "WRITING"}, at : Nat, by : Sessions \cup {NoSession},
   of : Sessions \cup {NoSession}]

\* started, paper: what was read of the section; late, text: whether an answer came
\* after its time, and whether one came; last: no other section was seen open.
Idle == [pc |-> "idle"]
ReqType ==
  [pc : {"start", "close", "commit"}, s : Sessions, i : Places, started : Nat \cup {Never},
   paper : Attempts \cup {NoPaper}, late : BOOLEAN, text : BOOLEAN, last : BOOLEAN]

Init ==
  /\ AttemptInit
  /\ session = [s \in Sessions |-> [status |-> "none", started |-> 0]]
  /\ section = [s \in Sessions |-> [i \in Places |->
                  [status |-> "NOT_STARTED", started |-> Never, closed |-> FALSE]]]
  /\ paper = [s \in Sessions |-> NoPaper]
  /\ answers = << >>
  /\ req = [r \in Requests |-> Idle]

Completed(s, i) == section[s][i].status = "COMPLETED"
Reading(i)      == Kinds[i] = "LISTENING_READING"
PaperOf(s, i)   == IF Reading(i) THEN paper[s] ELSE NoPaper

-----------------------------------------------------------------------------

\* startAttempt: always a new session (a key that was used answers with its own).
OpenSession(s) ==
  /\ session[s].status = "none"
  /\ session' = [session EXCEPT ![s] = [status |-> "IN_PROGRESS", started |-> now]]
  /\ UNCHANGED <<attemptVars, section, paper, answers, req>>

\* startComponent, up to its write.
StartRead(r, s, i) ==
  /\ req[r] = Idle
  /\ session[s].status = "IN_PROGRESS"
  /\ \A j \in 1 .. i - 1 : Completed(s, j)
  /\ ~ Completed(s, i)
  /\ req' = [req EXCEPT ![r] =
       [pc |-> "start", s |-> s, i |-> i, paper |-> PaperOf(s, i), late |-> FALSE, text |-> FALSE,
        last |-> FALSE,
        started |-> IF section[s][i].started = Never THEN now ELSE section[s][i].started]]
  /\ UNCHANGED <<attemptVars, session, section, paper, answers>>

\* No other transaction holds the row of the section.
Free(r) ==
  \A q \in Requests \ {r} : req[q].pc = "commit" => <<req[q].s, req[q].i>> # <<req[r].s, req[r].i>>

Opened(r) ==
  section' = [section EXCEPT ![req[r].s][req[r].i].status = "IN_PROGRESS",
                             ![req[r].s][req[r].i].started = req[r].started]

Answered(r) == req' = [req EXCEPT ![r] = Idle]

StartCommit(r) ==
  /\ req[r].pc = "start" /\ Free(r)
  /\ Reading(req[r].i) => req[r].paper # NoPaper
  /\ Opened(r) /\ Answered(r)
  /\ UNCHANGED <<attemptVars, session, paper, answers>>

\* The section gets an attempt of its own, unless the index refuses it.
StartPaper(r, a) ==
  /\ req[r].pc = "start" /\ Free(r)
  /\ Reading(req[r].i) /\ req[r].paper = NoPaper
  /\ Active = {} /\ attempt[a].status = "none"
  /\ attempt' = [attempt EXCEPT ![a] = NewAttempt]
  /\ paper' = [paper EXCEPT ![req[r].s] = a]
  /\ Opened(r) /\ Answered(r)
  /\ UNCHANGED <<now, session, answers>>

\* completeComponent, up to its transaction. It does not ask whether the section
\* was opened, or the ones before it closed.
Timed(i, started) == ~ Reading(i) /\ started # Never

CloseRead(r, s, i, text) ==
  /\ req[r] = Idle
  /\ session[s].status # "none" /\ ~ Completed(s, i)
  /\ text => Kinds[i] = "WRITING"
  /\ req' = [req EXCEPT ![r] =
       [pc |-> "close", s |-> s, i |-> i, started |-> section[s][i].started,
        paper |-> PaperOf(s, i), text |-> text, last |-> FALSE,
        late |-> Timed(i, section[s][i].started) /\ now > section[s][i].started + Limit]]
  /\ UNCHANGED <<attemptVars, session, section, paper, answers>>

\* MUTANT of HandedIn: a paper that was begun will do.
HandedInOrBegun(a) == a # NoPaper /\ attempt[a].status \in {"IN_PROGRESS", "SUBMITTED"}

HandedIn(a) == a # NoPaper /\ attempt[a].status = "SUBMITTED"

\* MUTANT of Last: one other section closed is enough.
LastOrAnother(s, i) == \E j \in Places : j = i \/ Completed(s, j)

\* completeParentIfReady, which sees what others have committed.
Last(s, i) == \A j \in Places : j = i \/ Completed(s, j)

CloseCheck(r) ==
  /\ req[r].pc = "close" /\ Free(r)
  /\ Reading(req[r].i) => HandedIn(req[r].paper)
  /\ req' = [req EXCEPT ![r].pc = "commit", ![r].last = Last(req[r].s, req[r].i)]
  /\ UNCHANGED <<attemptVars, session, section, paper, answers>>

\* attachWritingAnswers stores a text once under the key of its section, ...
Stored(x) ==
  IF x.text /\ ~ x.late /\ Len(answers) < MaxAnswers
       /\ \A n \in DOMAIN answers : answers[n].by # x.s
    THEN Append(answers, [kind |-> "WRITING", at |-> now, by |-> x.s, of |-> NoSession])
    ELSE answers

\* MUTANT of Countable: the time limit is forgotten.
CountableLate(x, as) ==
  {n \in DOMAIN as : /\ as[n].kind = Kinds[x.i]
                     /\ as[n].at >= (IF x.started = Never THEN session[x.s].started ELSE x.started)}

\* ... and of the answers since the section was opened (the session, when it never
\* was) until its time is over ...
Countable(x, as) ==
  {n \in DOMAIN as :
     /\ as[n].kind = Kinds[x.i]
     /\ as[n].at >= (IF x.started = Never THEN session[x.s].started ELSE x.started)
     /\ Timed(x.i, x.started) => as[n].at <= x.started + Limit}

\* ... the newest is linked to it, unless it is linked already.
Linked(x, as) ==
  [n \in DOMAIN as |->
     IF /\ n \in Countable(x, as) /\ \A m \in Countable(x, as) : m <= n
        /\ as[n].of = NoSession
       THEN [as[n] EXCEPT !.of = x.s] ELSE as[n]]

CloseCommit(r) ==
  LET x == req[r] IN
  /\ x.pc = "commit"
  /\ answers' = Linked(x, Stored(x))
  /\ section' = [section EXCEPT ![x.s][x.i].status = "COMPLETED", ![x.s][x.i].closed = TRUE]
  /\ session' = IF x.last THEN [session EXCEPT ![x.s].status = "COMPLETED"] ELSE session
  /\ Answered(r)
  /\ UNCHANGED <<attemptVars, paper>>

\* The request fails: a check above, the index, a time limit, or the server stops.
Fail(r) ==
  /\ req[r] # Idle
  /\ Answered(r)
  /\ UNCHANGED <<attemptVars, session, section, paper, answers>>

-----------------------------------------------------------------------------

\* The learner records an answer, or hands in the same writing task elsewhere.
RecordAnswer(kind) ==
  /\ Len(answers) < MaxAnswers
  /\ answers' = Append(answers, [kind |-> kind, at |-> now, by |-> NoSession, of |-> NoSession])
  /\ UNCHANGED <<attemptVars, session, section, paper, req>>

\* The attempt itself is worked on; one that is deleted leaves its section.
PaperStep ==
  /\ AttemptNext
  /\ paper' = [s \in Sessions |->
       IF paper[s] # NoPaper /\ attempt'[paper[s]].status = "deleted" THEN NoPaper ELSE paper[s]]
  /\ UNCHANGED <<session, section, answers, req>>

Tick ==
  /\ now < MaxNow /\ \A r \in Requests : req[r] = Idle
  /\ now' = now + 1
  /\ UNCHANGED <<attempt, sessionVars>>

Next ==
  \/ \E s \in Sessions : OpenSession(s)
  \/ \E r \in Requests :
       \/ StartCommit(r) \/ CloseCheck(r) \/ CloseCommit(r) \/ Fail(r)
       \/ \E a \in Attempts : StartPaper(r, a)
       \/ \E s \in Sessions, i \in Places :
            StartRead(r, s, i) \/ \E text \in BOOLEAN : CloseRead(r, s, i, text)
  \/ \E kind \in {"SPEAKING", "WRITING"} : RecordAnswer(kind)
  \/ PaperStep \/ Tick

Spec == Init /\ [][Next]_vars

-----------------------------------------------------------------------------
(* Properties.                                                               *)

\* Types: the rows and the requests; a section that is open has its clock.
TypeOK ==
  /\ AttemptTypeOK
  /\ session \in [Sessions -> SessionType]
  /\ section \in [Sessions -> [Places -> SectionType]]
  /\ \A s \in Sessions, i \in Places :
       section[s][i].status = "IN_PROGRESS" => section[s][i].started # Never
  /\ paper \in [Sessions -> Attempts \cup {NoPaper}]
  /\ answers \in Seq(AnswerType) /\ Len(answers) <= MaxAnswers
  /\ req \in [Requests -> ReqType \cup {Idle}]

\* The paper of a learner is open once: the sessions, and the learner who starts
\* the same paper by itself, never have two active attempts between them.
OneActive == \A a, b \in Active : a = b

\* A session is completed only after every section was handed in, in whatever
\* order the requests that close them commit.
DoneIsClosed ==
  \A s \in Sessions, i \in Places : session[s].status = "COMPLETED" => section[s][i].closed

\* A Listening & Reading section is closed only after a paper begun since that
\* session started was handed in, through cancellations and papers that replace
\* papers; it need not be the one the section points to by now.
ClosedWasHandedIn ==
  \A s \in Sessions, i \in Places : Reading(i) /\ section[s][i].closed =>
    \E a \in Attempts :
      attempt[a].status = "SUBMITTED" /\ attempt[a].created >= session[s].started

\* An answer that counts for a section was given within its time ("only if handed
\* in before the section runs out plus 30 seconds"), if its clock ever started.
LinkedInTime ==
  \A n \in DOMAIN answers : answers[n].of # NoSession =>
    \A i \in Places :
      LET x == section[answers[n].of][i] IN
      Kinds[i] = answers[n].kind /\ x.started # Never => answers[n].at <= x.started + Limit

\* REFUTED: a section that was closed stays closed.
ClosedStaysClosed ==
  \A s \in Sessions, i \in Places : section[s][i].closed => Completed(s, i)

\* REFUTED: a session left behind, whose paper ran out, keeps no new session from
\* opening its own ("Start always opens a new session").
NothingLeftInTheWay ==
  \A r \in Requests : req[r].pc = "start" /\ Reading(req[r].i) /\ req[r].paper = NoPaper =>
    \A s \in Sessions : paper[s] # NoPaper => ~ RanOut(paper[s])

=============================================================================
