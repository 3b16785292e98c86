----------------------------- MODULE MC_Sched -----------------------------
(***************************************************************************)
(* Three threads over four ticks.  Bursts of 1 and 3 around a quantum of  *)
(* 2 reach both the run-to-completion and the time-slice branch of        *)
(* schedule_priority_rr; jobs arriving at different ticks give HRRN equal *)
(* and unequal response ratios; deadlines 2 and 3 let DM jobs tie, differ, *)
(* miss, and be cut at a release.                                          *)
(***************************************************************************)
EXTENDS Sched

==========================================================================
