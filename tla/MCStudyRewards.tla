---------------------------- MODULE MCStudyRewards ----------------------------
(* Instances of StudyRewards for model checking.                               *)
EXTENDS StudyRewards, TLC

Alike == Permutations(Practices) \cup Permutations(Quizzes)

=============================================================================
