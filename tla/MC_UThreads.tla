---------------------------- MODULE MC_UThreads ----------------------------
(***************************************************************************)
(* Three threads, one signal and one handler function: enough for a      *)
(* thread to be created by another, to signal a third, and for all of     *)
(* them to be suspended at once.                                           *)
(***************************************************************************)
EXTENDS UThreads

=============================================================================
