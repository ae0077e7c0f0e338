--------------------------- MODULE RecorderClaims ---------------------------
(***************************************************************************)
(* What a comment of the source says of the recorder task and its steps do *)
(* not keep: TLC refutes it.                                               *)
(***************************************************************************)
EXTENDS MCRecorderTask

(* recorder_utils.c:149, on a new day it is looked whether a period of the *)
(* day before runs on.  It is only looked on days that have no period of   *)
(* their own: with a schedule for every night, no file follows the one     *)
(* that ends at midnight.                                                  *)
PeriodRunsOn ==
  [][PollStart /\ diskValid' /\ type = COMMON /\ InPeriod(sched, clock)
     /\ rec.file # NoFile /\ Slot = rec.file + 1
       => pc' = "starting"]_vars
=============================================================================
