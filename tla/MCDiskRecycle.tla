---------------------------- MODULE MCDiskRecycle ----------------------------
(* A small card for DiskRecycle and CardCheck: three months, of which the  *)
(* first two have recordings of two days, some of them in both trees.      *)
EXTENDS CardCheck

Common(m, d) == [root |-> "common", mon |-> m, day |-> d]
Alarm(m, d)  == [root |-> "alarm", mon |-> m, day |-> d]

FewDays == {Common(1, 1), Common(1, 2), Common(2, 1), Common(3, 1),
            Alarm(1, 1), Alarm(2, 2)}
===============================================================================
