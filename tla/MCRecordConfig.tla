--------------------------- MODULE MCRecordConfig ---------------------------
(* A week of two days, two factory files, and requests that differ in what  *)
(* the properties tell apart.                                              *)
EXTENDS RecordConfig

CONSTANTS allday, night, bad

MCTimes == {allday, night, bad}
MCBadTimes == {bad}

Plan(every, each) == [en |-> TRUE, days |-> [d \in Days |-> IF d = 0 THEN every ELSE each]]
On(t)  == [en |-> TRUE, time |-> t]
Off(t) == [en |-> FALSE, time |-> t]
Req(en, m, p, r) == [vich |-> 0, enable |-> en, mode |-> m, plan |-> p, recMins |-> r]

(* A rec_time that is in the range, one that is not, and one that is cut   *)
(* to a byte; a closed recorder; periods out of range, used and unused;    *)
(* and a channel there is not.                                             *)
MCRequests ==
  { Req(TRUE,  "common", Plan(On(allday), On(night)), 1),
    Req(TRUE,  "common", Plan(Off(bad), On(allday)), 9),
    Req(TRUE,  "alarm",  Plan(Off(night), On(night)), 258),
    Req(TRUE,  "alarm",  Plan(Off(night), Off(bad)), 3),
    Req(FALSE, "alarm",  Plan(Off(night), On(allday)), 0),
    Req(TRUE,  "common", Plan(Off(night), On(bad)), 1),
    [Req(TRUE, "alarm",  Plan(Off(night), On(night)), 1) EXCEPT !.vich = 1] }

FactoryCfg(o, t) ==
  [enable |-> TRUE, mode |-> "common", plan |-> Plan(Off(allday), On(t)), recTime |-> 4, opts |-> o]

Plain == [ver |-> 0, cfg |-> FactoryCfg(0, allday)]
New   == [ver |-> 1, cfg |-> FactoryCfg(3, night)]

MCFactories == {[vendor |-> v, default |-> d] : v \in {NoFile, New}, d \in {NoFile, Plain}}
MCVersioned == {[vendor |-> New, default |-> Plain]}
=============================================================================
