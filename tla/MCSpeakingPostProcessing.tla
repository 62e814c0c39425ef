---------------------- MODULE MCSpeakingPostProcessing ----------------------
(* Instances of SpeakingPostProcessing for model checking.                   *)
EXTENDS SpeakingPostProcessing, TLC
=============================================================================
