------------------------------ MODULE CardCheck ------------------------------
(***************************************************************************)
(* The self check of the card at the start of the process, and the         *)
(* recorder task, which runs already: it may open files and delete days    *)
(* (DiskRecycle) while the check adds up what the recordings fill.  If     *)
(* that is not about what is used, the clients are told to format the      *)
(* card.                                                                   *)
(***************************************************************************)
EXTENDS DiskRecycle

CONSTANTS
  Foreigns,     \* what other files may fill of the card, in units, besides Capacity
  Tolerance,    \* 2000 megabytes
  MaxDays       \* MAX_RECORD_DAYS

ASSUME CheckAssumption ==
  Foreigns \subseteq Nat /\ Tolerance \in Nat /\ MaxDays \in Nat

VARIABLES
  main,         \* the main thread: "begin", "scan", "serve"
  check,        \* the check's local variables and its result, gSDCardStatus
  disturbed     \* history: the check could not see all it should, see below

checkVars == <<vars, main, check, disturbed>>

NoCheck == [foreign |-> 0, used |-> 0, unread |-> {}, read |-> {},
            count |-> 0, status |-> "ok"]

CheckInit == Init /\ main = "begin" /\ check = NoCheck /\ disturbed = FALSE

Filled == Cardinality({p \in days : p.root \in OnCard})

(* The status of the card, which another program may have used as well, is *)
(* asked for first, then its common tree opened.                           *)
BeginCheck ==
  /\ main = "begin"
  /\ \E f \in Foreigns :
       check' = [NoCheck EXCEPT !.foreign = f, !.used = Filled + f,
                                !.unread = {m \in dirs : m.root = "common"}]
  /\ main' = "scan"
  /\ disturbed' = (\E p \in days : p.root = "alarm" /\ p.root \in OnCard)
  /\ UNCHANGED vars

(* A month: one that was there from the beginning, or has come since.  A   *)
(* day counts as one, and its files as one unit.                           *)
TooManyFrom(n) == n >= MaxDays              \* mutant: one day too early
TooMany(n) == n > MaxDays

ReadMonth ==
  /\ main = "scan" /\ ~TooMany(check.count)
  /\ \E m \in {d \in dirs : d.root = "common"} \ check.read :
       check' = [check EXCEPT !.read = @ \cup {m}, !.unread = @ \ {m},
                              !.count = @ + Cardinality(DaysIn(m))]
  /\ UNCHANGED <<vars, main, disturbed>>

(* All are read, except those deleted before their turn; or the days are   *)
(* too many for the list, and what was added up is thrown away.            *)
Sum == IF TooMany(check.count) THEN -1 ELSE check.count
Off == IF check.used >= Sum THEN check.used - Sum ELSE Sum - check.used

EndCheck ==
  /\ main = "scan"
  /\ TooMany(check.count) \/ check.unread \cap dirs = {}
  /\ check' = [NoCheck EXCEPT !.foreign = check.foreign,
                              !.status = IF Off > Tolerance THEN "format" ELSE "ok"]
  /\ main' = "serve"
  /\ disturbed' = (disturbed \/ check.count > MaxDays)
  /\ UNCHANGED vars

Check == BeginCheck \/ ReadMonth \/ EndCheck

Record ==
  /\ Next
  /\ disturbed' = (disturbed \/ (main = "scan" /\ days' # days))
  /\ UNCHANGED <<main, check>>

CheckNext == Record \/ Check

(* The task tries to start recording again and again, and a call runs      *)
(* through; so does the check.                                             *)
CheckSpec ==
  CheckInit /\ [][CheckNext]_checkVars /\ WF_vars(Recycle) /\ WF_checkVars(Check)

-----------------------------------------------------------------------------
(* Properties.                                                             *)

(* The clients are told to format the card if other files fill more than   *)
(* the tolerance, and only then, provided that the recordings lie in the   *)
(* tree that is read, are of no more days than the list holds, and none is *)
(* deleted or begun during the check.                                      *)
VerdictIsRight ==
  main = "serve" /\ "common" \in OnCard /\ ~disturbed
    => (check.status = "format" <=> check.foreign > Tolerance)
===============================================================================
