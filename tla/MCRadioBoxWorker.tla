-------------------------- MODULE MCRadioBoxWorker --------------------------
(***************************************************************************)
(* RadioBoxWorker for TLC: three posts, so that a post can meet the first  *)
(* pass, one that still waits, and one that was processed.                 *)
(***************************************************************************)
EXTENDS RadioBoxWorker

MC_Routes == {0, 1}
MC_PresetRoute == 2
MC_Qrgs == {0, 1}
============================================================================
