------------------------- MODULE MCSpeakingScoring -------------------------
(* Model-checking instance of SpeakingScoring. *)
EXTENDS SpeakingScoring
=============================================================================
