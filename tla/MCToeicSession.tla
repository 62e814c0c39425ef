--------------------------- MODULE MCToeicSession ---------------------------
(* Two of the three product families (FAMILY_KINDS), and what is alike.        *)
EXTENDS ToeicSession, TLC

Paper   == <<"LISTENING_READING">>
Answers == <<"SPEAKING", "WRITING">>

Alike == Permutations(Requests) \cup Permutations(Attempts) \cup Permutations(Sessions)

=============================================================================
