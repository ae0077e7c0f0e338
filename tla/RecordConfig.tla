---------------------------- MODULE RecordConfig ----------------------------
(***************************************************************************)
(* The record configuration: g_rec_cfg of recorder_params.c, the file it   *)
(* is kept in, the factory files it may be replaced from at a start, and   *)
(* recType, the copy of it the recorder task decides by.  A client changes *)
(* the configuration through IPCMsgSetRecordCfg of recorder_server.c; the  *)
(* process may end at any step and is started again from outside.          *)
(*                                                                         *)
(* The three lists of periods are handled alike: one stands for them.  The *)
(* two periods of a day are one value, vech and auto_del are left out.     *)
(***************************************************************************)
EXTENDS Integers

CONSTANTS
  LastDay,     \* 7: the periods are those of "every day" and of seven days
  Times, BadTimes,  \* what a period may say, and what dev_check_datetime refuses
  AllDay,      \* 0:00:00 to 23:59:59, the period of the defaults
  Options,     \* the number of DEFAULT_PKT_TM_OPT, 6
  Requests,    \* what clients send
  Factories,   \* the pairs of factory files a device may carry
  NoFile, NoCfg

Days    == 0 .. LastDay
Periods == [en : BOOLEAN, time : Times]
Plans   == [en : BOOLEAN, days : [Days -> Periods]]
Modes   == {"common", "alarm"}
Bytes   == 0 .. 255

(* DEV_RECORD_CFG_t; opts is pkt_tm_opt_num, 0 when there are no options.  *)
Cfgs  == [enable : BOOLEAN, mode : Modes, plan : Plans, recTime : Bytes, opts : 0 .. 8]
Files == [ver : Nat, cfg : Cfgs]

CLOSED == "closed"

(* dev_set_record_cfg: every period of every day is looked at, used or not.*)
Valid(plan) == \A d \in Days : plan.days[d].en => plan.days[d].time \notin BadTimes

ASSUME SizesAssumption == LastDay \in Nat \ {0} /\ Options \in 1 .. 8
ASSUME TimesAssumption == BadTimes \subseteq Times /\ AllDay \in Times \ BadTimes
ASSUME RequestsAssumption ==
  Requests \subseteq [vich : Int, enable : BOOLEAN, mode : Modes, plan : Plans, recMins : Int]
(* The factory files, which are read as they are, hold no invalid period.  *)
ASSUME FactoriesAssumption ==
  /\ NoFile \notin Files /\ NoCfg \notin Cfgs
  /\ Factories \subseteq [vendor : Files \cup {NoFile}, default : Files \cup {NoFile}]
  /\ \A f \in Factories : \A x \in {f.vendor, f.default} :
       x # NoFile => Valid(x.cfg.plan)

VARIABLES
  factory,   \* g_record_cfg_file_vendor and g_record_cfg_file_default
  file,      \* g_record_cfg_file
  mem,       \* g_rec_cfg[0]
  recType,   \* g_recorder_status.recType
  day,       \* i and j of set_record_type: the days copied so far
  pc,        \* where the process is: in a start, idle, in a request, or gone
  hist       \* no code: what was saved last for a client, whether there were
             \* requests since the start, the factory file the start has seen

vars == <<factory, file, mem, recType, day, pc, hist>>

-----------------------------------------------------------------------------
(* pkt_tm_options and rec_time as init_record_info leaves them.            *)
Fit(c) ==
  LET n == IF c.opts = 0 THEN Options ELSE c.opts
  IN  [c EXCEPT !.opts = n, !.recTime = IF @ >= n THEN n - 1 ELSE @]

(* set_record_default_info.                                                *)
DefaultCfg ==
  [enable |-> TRUE, mode |-> "common", recTime |-> 5, opts |-> 0,
   plan |-> [en |-> TRUE, days |-> [d \in Days |-> [en |-> d > 0, time |-> AllDay]]]]

(* save_record_info: the old version is read and not written.  Whether the *)
(* write succeeds is not up to this code; a failing one keeps the file.    *)
Written(c) == [ver |-> 0, cfg |-> c]

(* replace_default_cfg_file, of the vendor's file or else the default one. *)
Factory == IF factory.vendor # NoFile THEN factory.vendor ELSE factory.default

ReplacesOlder ==                               \* mutant: the same version is replaced too
  Factory # NoFile /\ (IF file = NoFile THEN TRUE ELSE Factory.ver >= file.ver)
Replaces == Factory # NoFile /\ (IF file = NoFile THEN TRUE ELSE Factory.ver # file.ver)

(* What the recorder task is told: set_record_type.  The period of "every  *)
(* day", of day 0, is not copied.  A recorder that is switched off keeps   *)
(* the periods it had.                                                     *)
TypeOf(c) == IF ~c.enable THEN CLOSED ELSE c.mode

WeekOf(plan) == [en |-> plan.en, days |-> [d \in 1 .. LastDay |-> plan.days[d]]]

Copied(c) == [type |-> TypeOf(c), week |-> IF c.enable THEN WeekOf(c.plan) ELSE recType.week]

(* The memory of a process that has just been started.                     *)
NoPlan    == [en |-> FALSE, days |-> [d \in Days |-> [en |-> FALSE, time |-> AllDay]]]
EmptyMem  == [enable |-> FALSE, mode |-> "common", plan |-> NoPlan, recTime |-> 0, opts |-> 0]
EmptyType == [type |-> CLOSED, week |-> WeekOf(NoPlan)]

Init ==
  /\ factory \in Factories
  /\ file = NoFile
  /\ mem = EmptyMem
  /\ recType = EmptyType
  /\ day = 0
  /\ pc = "down"
  /\ hist = [saved |-> NoCfg, asked |-> FALSE, seen |-> NoFile]

-----------------------------------------------------------------------------
(* recorder_app: init_record_info, then set_record_type in                 *)
(* regitster_recorder_task.                                                *)

ReplaceFile ==
  /\ pc = "down"
  /\ pc' = "starting"
  /\ file' = IF Replaces THEN Factory ELSE file
  /\ hist' = [asked |-> FALSE, seen |-> Factory,
              saved |-> IF Factory = NoFile THEN hist.saved
                        ELSE IF Factory.ver = 0 THEN hist.saved ELSE NoCfg]
  /\ UNCHANGED <<factory, mem, recType, day>>

(* Nothing to be read and the defaults not to be written: init_record_info *)
(* gives up, and recorder_app goes on with what is in memory.              *)
LoadFails ==
  /\ pc = "starting" /\ file = NoFile
  /\ pc' = "loaded" /\ mem' = DefaultCfg
  /\ UNCHANGED <<factory, file, recType, day, hist>>

LoadCfg ==
  /\ pc = "starting"
  /\ pc' = "loaded"
  /\ LET read == IF file = NoFile THEN Written(DefaultCfg) ELSE file
     IN  /\ mem' = Fit(read.cfg)
         /\ file' \in {read} \cup (IF mem' # read.cfg THEN {Written(mem')} ELSE {})
  /\ UNCHANGED <<factory, recType, day, hist>>

(* The copy is made before there is a task that could see it half done.    *)
StartTask ==
  /\ pc = "loaded"
  /\ pc' = "idle"
  /\ recType' = Copied(mem)
  /\ UNCHANGED <<factory, file, mem, day, hist>>

-----------------------------------------------------------------------------
(* IPCMsgSetRecordCfg: a copy of g_rec_cfg, changed and stored back.  What *)
(* it sends the recorder task is not handled there.                        *)

Changed(r) ==
  [mem EXCEPT !.enable = r.enable, !.mode = r.mode, !.plan = r.plan,
              !.recTime = r.recMins % 256]

SetCfg(r) ==
  /\ pc = "idle"
  /\ IF r.vich = 0 /\ Valid(r.plan)
     THEN /\ pc' = "stored" /\ mem' = Changed(r)
          /\ hist' = [hist EXCEPT !.asked = TRUE]
     ELSE UNCHANGED <<pc, mem, hist>>
  /\ UNCHANGED <<factory, file, recType, day>>

SaveCfg ==
  /\ pc = "stored"
  /\ pc' = "saved"
  /\ file' = Written(mem)
  /\ hist' = [hist EXCEPT !.saved = mem]
  /\ UNCHANGED <<factory, mem, recType, day>>

SaveCfgFails ==
  /\ pc = "stored"
  /\ pc' = "saved"
  /\ UNCHANGED <<factory, file, mem, recType, day, hist>>

(* set_record_type copies field by field, and the recorder task reads      *)
(* without the lock: it may see any of the states in between.              *)
SetType ==
  /\ pc = "saved"
  /\ recType' = [recType EXCEPT !.type = TypeOf(mem)]
  /\ pc' = IF mem.enable THEN "typed" ELSE "idle"
  /\ UNCHANGED <<factory, file, mem, day, hist>>

CopyList ==
  /\ pc = "typed"
  /\ recType' = [recType EXCEPT !.week.en = mem.plan.en]
  /\ pc' = "listed"
  /\ UNCHANGED <<factory, file, mem, day, hist>>

CopyDay ==
  /\ pc = "listed"
  /\ recType' = [recType EXCEPT !.week.days[day + 1].en = mem.plan.days[day + 1].en]
  /\ pc' = "enabled"
  /\ UNCHANGED <<factory, file, mem, day, hist>>

(* The loop over the days, which starts behind "every day".                *)
LastCopiedEarly(d) == d + 2 >= LastDay         \* mutant: the last day is left out
LastCopied(d) == d + 1 = LastDay

CopyTime ==
  /\ pc = "enabled"
  /\ recType' = [recType EXCEPT !.week.days[day + 1].time = mem.plan.days[day + 1].time]
  /\ IF LastCopied(day) THEN pc' = "idle" /\ day' = 0
                        ELSE pc' = "listed" /\ day' = day + 1
  /\ UNCHANGED <<factory, file, mem, hist>>

-----------------------------------------------------------------------------
(* The environment: the process ends, at any step, and while it is not     *)
(* there the device may get other factory files.                           *)

ProcessEnds ==
  /\ pc # "down"
  /\ pc' = "down" /\ mem' = EmptyMem /\ recType' = EmptyType /\ day' = 0
  /\ UNCHANGED <<factory, file, hist>>

Upgrade ==
  /\ pc = "down"
  /\ factory' \in Factories \ {factory}
  /\ UNCHANGED <<file, mem, recType, day, pc, hist>>

Next ==
  \/ ReplaceFile \/ LoadFails \/ LoadCfg \/ StartTask
  \/ \E r \in Requests : SetCfg(r)
  \/ SaveCfg \/ SaveCfgFails
  \/ SetType \/ CopyList \/ CopyDay \/ CopyTime
  \/ ProcessEnds \/ Upgrade

Spec == Init /\ [][Next]_vars

-----------------------------------------------------------------------------
(* Types.                                                                  *)
RecTypes == [type : Modes \cup {CLOSED},
             week : [en : BOOLEAN, days : [1 .. LastDay -> Periods]]]

TypeOK ==
  /\ factory \in Factories
  /\ file \in Files \cup {NoFile}
  /\ mem \in Cfgs
  /\ recType \in RecTypes
  /\ day \in 0 .. LastDay - 1
  /\ pc \in {"down", "starting", "loaded", "idle", "stored", "saved", "typed", "listed", "enabled"}
  /\ hist \in [saved : Cfgs \cup {NoCfg}, asked : BOOLEAN, seen : Files \cup {NoFile}]

(* Between requests the recorder task decides by the configuration in      *)
(* memory, and no period it may look at is out of range: whatever the      *)
(* requests were, wherever the process ended before, and although the copy *)
(* is made in steps.  While one is being made, all it has reached is that  *)
(* of the new configuration; what it has not may be that of an old one.    *)
CopiedDay(d) == recType.week.days[d] = mem.plan.days[d]

InForce ==
  /\ pc \in {"idle", "typed", "listed", "enabled"} =>
       /\ recType.type = TypeOf(mem)
       /\ mem.enable => \A d \in 1 .. LastDay :
            (pc = "idle" \/ d <= day) =>
               /\ CopiedDay(d)
               /\ recType.week.days[d].en => recType.week.days[d].time \notin BadTimes
  /\ pc \in {"idle", "listed", "enabled"} /\ mem.enable => recType.week.en = mem.plan.en

(* A start puts in force what was last saved for a client, up to the range *)
(* of the record time, unless the factory file carries a version.          *)
SavedSurvives ==
  pc = "idle" /\ ~hist.asked /\ hist.saved # NoCfg => mem = Fit(hist.saved)

(* "Decide by the version number whether to replace the configuration      *)
(* file", says replace_default_cfg_file: a start that finds the factory    *)
(* file of the last start does not replace what a client has saved.        *)
ReplacedAfterUpgrade ==
  [][pc = "down" /\ pc' = "starting" /\ hist.saved # NoCfg /\ hist.seen = Factory
       => file' = file]_vars
=============================================================================
