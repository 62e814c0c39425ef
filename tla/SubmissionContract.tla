-------------------------- MODULE SubmissionContract --------------------------
(* What the scoring promises about a submission, to the learner who waits for *)
(* it and to the post-processing that follows it: a run judges it once, and   *)
(* what follows the verdict (the event, the count of the attempt, the jobs    *)
(* its score asked for) happens in this order and at most once, though it may *)
(* be cut off. A submission may be given up at any time, even once judged.    *)
EXTENDS Integers

CONSTANT Submissions

VARIABLES
  verdict,  \* of each submission
  asked,    \* the post-processing its score asked for
  next,     \* what its verdict still has to be followed by
  told,     \* the event the learner got
  counted,  \* how often the attempt counts as progress
  jobs      \* the post-processing jobs that exist

vars == <<verdict, asked, next, told, counted, jobs>>

Init ==
  /\ verdict = [s \in Submissions |-> "none"]
  /\ asked   = [s \in Submissions |-> {}]
  /\ next    = [s \in Submissions |-> "nothing"]
  /\ told    = [s \in Submissions |-> "nothing"]
  /\ counted = [s \in Submissions |-> 0]
  /\ jobs    = [s \in Submissions |-> {}]

Submit(s) ==
  /\ verdict[s] = "none"
  /\ verdict' = [verdict EXCEPT ![s] = "open"]
  /\ UNCHANGED <<asked, next, told, counted, jobs>>

Judge(s, v, kinds, event) ==
  /\ verdict[s] = "open"
  /\ verdict' = [verdict EXCEPT ![s] = v]
  /\ asked' = [asked EXCEPT ![s] = kinds]
  /\ next' = [next EXCEPT ![s] = event]
  /\ UNCHANGED <<told, counted, jobs>>

\* A score above 0 asks for a reward; silence asks for nothing.
Score(s)   == \E kinds \in {{"FEEDBACK"}, {"FEEDBACK", "REWARD"}} :
                Judge(s, "scored", kinds, "tellCompleted")
Silence(s) == Judge(s, "silent", {}, "tellCompleted")
Fail(s)    == Judge(s, "failed", {}, "tellFailed")

\* Nothing follows, and what follows an earlier verdict is not called off.
GiveUp(s) ==
  /\ verdict[s] # "none"
  /\ verdict' = [verdict EXCEPT ![s] = "givenUp"]
  /\ UNCHANGED <<asked, next, told, counted, jobs>>

TellCompleted(s) ==
  /\ next[s] = "tellCompleted" /\ told[s] = "nothing"
  /\ told' = [told EXCEPT ![s] = "completed"]
  /\ next' = [next EXCEPT ![s] = IF asked[s] = {} THEN "nothing" ELSE "count"]
  /\ UNCHANGED <<verdict, asked, counted, jobs>>

TellFailed(s) ==
  /\ next[s] = "tellFailed" /\ told[s] = "nothing"
  /\ told' = [told EXCEPT ![s] = "failed"]
  /\ next' = [next EXCEPT ![s] = "nothing"]
  /\ UNCHANGED <<verdict, asked, counted, jobs>>

\* A score of null is no progress.
Count(s) ==
  /\ next[s] = "count" /\ counted[s] = 0
  /\ \E n \in {0, 1} : counted' = [counted EXCEPT ![s] = n]
  /\ next' = [next EXCEPT ![s] = "handOver"]
  /\ UNCHANGED <<verdict, asked, told, jobs>>

\* The jobs, or some of them.
HandOver(s) ==
  /\ next[s] = "handOver"
  /\ \E kinds \in SUBSET asked[s] : jobs' = [jobs EXCEPT ![s] = @ \cup kinds]
  /\ next' = [next EXCEPT ![s] = "nothing"]
  /\ UNCHANGED <<verdict, asked, told, counted>>

CutOff(s) ==
  /\ next' = [next EXCEPT ![s] = "nothing"]
  /\ UNCHANGED <<verdict, asked, told, counted, jobs>>

\* A job that is missing is made up for.
Repair(s) ==
  /\ verdict[s] = "scored"
  /\ \E kind \in asked[s] : jobs' = [jobs EXCEPT ![s] = @ \cup {kind}]
  /\ UNCHANGED <<verdict, asked, next, told, counted>>

Next == \E s \in Submissions :
  \/ Submit(s) \/ Score(s) \/ Silence(s) \/ Fail(s) \/ GiveUp(s)
  \/ TellCompleted(s) \/ TellFailed(s) \/ Count(s) \/ HandOver(s) \/ CutOff(s) \/ Repair(s)

Spec == Init /\ [][Next]_vars

=============================================================================
