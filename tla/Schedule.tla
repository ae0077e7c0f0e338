------------------------------ MODULE Schedule ------------------------------
(***************************************************************************)
(* check_record_time of recorder_utils.c: whether the configured schedule  *)
(* asks for a recording at a time of a day of the week.                    *)
(*                                                                         *)
(* A schedule is a set of lists (those whose en is set); a list gives each *)
(* day of the week a period.  Both ends of a period belong to it; one that *)
(* ends before it begins runs into the next day.                           *)
(***************************************************************************)
EXTENDS Integers

CONSTANTS
  DaysPerWeek,   \* 7
  DaySecs        \* the length of a day

WeekDays == 0 .. DaysPerWeek - 1
Periods  == [en : BOOLEAN, from : 0 .. DaySecs - 1, to : 0 .. DaySecs - 1]
Lists    == [WeekDays -> Periods]

Yesterday(w) == IF w = 0 THEN DaysPerWeek - 1 ELSE w - 1

(* The period of a day, as far as it lies in that day.                     *)
InItsDayTwice(p, t) ==                       \* mutant: its end counts for its own day
  \/ p.from < p.to /\ p.from <= t /\ t <= p.to
  \/ p.from > p.to /\ (p.from <= t \/ t <= p.to)
InItsDay(p, t) == \/ p.from < p.to /\ p.from <= t /\ t <= p.to
                  \/ p.from > p.to /\ p.from <= t

(* What the period of the day before leaves for a day.                     *)
InNextDay(p, t) == p.en /\ p.from > p.to /\ t <= p.to

CheckRecordTime(lists, w, t) ==
  \E list \in lists :
    IF list[w].en THEN InItsDay(list[w], t)
    ELSE InNextDay(list[Yesterday(w)], t)

-----------------------------------------------------------------------------
(* What a period means, in absolute seconds from the day it is set for: it *)
(* reaches a time of that day or of the next one.                          *)
PeriodEnd(p, day) ==
  (IF p.to < p.from THEN day + 1 ELSE day) * DaySecs + p.to

InPeriod(lists, clock) ==
  \E list \in lists : \E day \in {clock \div DaySecs - 1, clock \div DaySecs} :
    LET p == list[day % DaysPerWeek]
    IN  /\ p.en /\ p.from # p.to
        /\ day * DaySecs + p.from <= clock /\ clock <= PeriodEnd(p, day)
=============================================================================
