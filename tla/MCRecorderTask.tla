--------------------------- MODULE MCRecorderTask ---------------------------
(* Small instances of RecorderTask: schedules for days of a few seconds.   *)
EXTENDS RecorderTask

Every(from, to) == [w \in WeekDays |-> [en |-> TRUE, from |-> from, to |-> to]]
FirstOnly(from, to) == [Every(from, to) EXCEPT ![1].en = FALSE]

AllDay == {{Every(0, DaySecs - 1)}}

(* All day, or only over the first midnight: a file that is open is closed *)
(* by a new schedule and continued by the next.                            *)
DayOrNight == AllDay \cup {{FirstOnly(DaySecs - 1, 1)}}

(* Over every midnight. *)
Nights == {{Every(DaySecs - 1, 1)}}
=============================================================================
