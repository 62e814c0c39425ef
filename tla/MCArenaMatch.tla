---------------------------- MODULE MCArenaMatch -----------------------------
(* Instances of ArenaMatch for model checking; the constants are in the .cfg  *)
(* files.                                                                     *)
EXTENDS ArenaMatch
=============================================================================
