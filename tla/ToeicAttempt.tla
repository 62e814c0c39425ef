---------------------------- MODULE ToeicAttempt ----------------------------
(* The attempts of one learner at one Listening & Reading paper in one mode:   *)
(* from the start to the result.                                               *)
(*                                                                             *)
(* Every operation is one transaction that locks the attempt (and, but for the *)
(* reads that find it expired, the learner's paper) and decides on what it     *)
(* reads under that lock, so each is one action. Nothing watches the clock: an *)
(* attempt that ran out is finalized by whoever touches it next.               *)
EXTENDS Integers, FiniteSets

CONSTANTS
  Attempts,
  Sheets, Blank,   \* what the answers of an attempt can be
  TestTime,        \* durationSeconds of the paper
  PendingTtl,      \* PENDING_TTL_MS
  MaxNow           \* last instant of the model (bound)

ASSUME SheetsAssumption == Blank \in Sheets
ASSUME TimesAssumption == TestTime \in Nat \ {0} /\ PendingTtl \in Nat /\ MaxNow \in Nat

VARIABLES
  now,
  attempt    \* the ToeicAttempt rows

attemptVars == <<now, attempt>>

-----------------------------------------------------------------------------

\* saved: when the answers were last saved; scored: the answers the stored score
\* was computed from; at: submittedAt.
AttemptType ==
  [status : {"none", "PENDING_START", "IN_PROGRESS", "SUBMITTED", "deleted"},
   created : Nat, deadline : Nat, sheet : Sheets, saved : Nat, scored : Sheets, at : Nat]

NoAttempt ==
  [status |-> "none", created |-> 0, deadline |-> 0, sheet |-> Blank, saved |-> 0,
   scored |-> Blank, at |-> 0]

NewAttempt == [NoAttempt EXCEPT !.status = "PENDING_START", !.created = now]

AttemptInit == now = 0 /\ attempt = [a \in Attempts |-> NoAttempt]

\* The rows under the index ToeicAttempt_one_active_per_user_exam_mode.
Active   == {a \in Attempts : attempt[a].status \in {"PENDING_START", "IN_PROGRESS"}}
Stale(a) == attempt[a].status = "PENDING_START" /\ now - attempt[a].created > PendingTtl
RanOut(a) == attempt[a].status = "IN_PROGRESS" /\ attempt[a].deadline <= now

\* computeAndSubmitTx, with the submittedAt its caller gives.
Submitted(a, t) ==
  [attempt[a] EXCEPT !.status = "SUBMITTED", !.scored = attempt[a].sheet, !.at = t]

Deleted(a) == [NoAttempt EXCEPT !.status = "deleted"]

\* What startAttempt does to an active attempt that it does not reuse.
Retired(b) ==
  IF Stale(b) THEN Deleted(b)
  ELSE IF RanOut(b) THEN Submitted(b, attempt[b].deadline)
  ELSE attempt[b]

\* A still running attempt is reused, or refused when it covers other parts.
StartAttempt(a) ==
  /\ attempt[a].status = "none"
  /\ \A b \in Active : Stale(b) \/ RanOut(b)
  /\ attempt' = [b \in Attempts |-> IF b = a THEN NewAttempt ELSE Retired(b)]
  /\ UNCHANGED now

BeginAttempt(a) ==
  /\ attempt[a].status = "PENDING_START"
  /\ attempt' = [attempt EXCEPT ![a].status = "IN_PROGRESS", ![a].deadline = now + TestTime]
  /\ UNCHANGED now

\* MUTANT of SaveAnswers: the status read before the lock is relied on.
SaveAnswersLate(a, sheet) ==
  /\ attempt[a].status \in {"IN_PROGRESS", "SUBMITTED"} /\ now < attempt[a].deadline
  /\ attempt' = [attempt EXCEPT ![a].sheet = sheet, ![a].saved = now]
  /\ UNCHANGED now

SaveAnswers(a, sheet) ==
  /\ attempt[a].status = "IN_PROGRESS" /\ ~ RanOut(a)
  /\ attempt' = [attempt EXCEPT ![a].sheet = sheet, ![a].saved = now]
  /\ UNCHANGED now

\* finalizeExpiredTx, out of a late save, the attempt's page or its result.
FinalizeExpired(a) ==
  /\ RanOut(a)
  /\ attempt' = [attempt EXCEPT ![a] = Submitted(a, attempt[a].deadline)]
  /\ UNCHANGED now

SubmitAttempt(a) ==
  /\ attempt[a].status = "IN_PROGRESS"
  /\ attempt' = [attempt EXCEPT ![a] =
                   Submitted(a, IF attempt[a].deadline < now THEN attempt[a].deadline ELSE now)]
  /\ UNCHANGED now

CancelAttempt(a) ==
  /\ a \in Active
  /\ attempt' = [attempt EXCEPT ![a] = Deleted(a)]
  /\ UNCHANGED now

AttemptNext ==
  \E a \in Attempts :
    \/ StartAttempt(a) \/ BeginAttempt(a) \/ FinalizeExpired(a)
    \/ SubmitAttempt(a) \/ CancelAttempt(a)
    \/ \E sheet \in Sheets : SaveAnswers(a, sheet)

AttemptTypeOK == now \in 0 .. MaxNow /\ attempt \in [Attempts -> AttemptType]

\* A result is computed from the answers the attempt still has, all saved by the
\* time it was handed in, and that is not past its deadline, whether it was
\* submitted or finalized, and whatever saves raced with that.
ScoredAsSubmitted ==
  \A a \in Attempts : attempt[a].status = "SUBMITTED" =>
    /\ attempt[a].scored = attempt[a].sheet
    /\ attempt[a].saved <= attempt[a].at /\ attempt[a].at <= attempt[a].deadline

=============================================================================
