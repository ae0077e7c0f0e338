------------------------------- MODULE Archive -------------------------------
(***************************************************************************)
(* What the recorder task promises to those who read its recordings: the   *)
(* units of a file are recorded one after the other, each when it is over, *)
(* and what the card shows of them is only added to.  To be saved the      *)
(* units of the file leave the card for a moment, while the process knows  *)
(* all of them.  A file that is opened again goes on with what the card    *)
(* shows; of the file before at most one unit is lost by that.  When the   *)
(* process ends at most a minute of units is lost, if it does not end in   *)
(* that moment.                                                            *)
(***************************************************************************)
EXTENDS Integers

CONSTANTS
  UnitSecs,     \* length of a unit, in seconds
  MinuteUnits,  \* units between two saves
  FileUnits     \* units of a file: 0 .. FileUnits - 1

VARIABLES
  now,          \* the time, in seconds
  file,         \* the file the process records or recorded last, or NoFile
  held,         \* the units of it the process knows
  kept,         \* the units the card shows
  saving        \* the units of the file are off the card, to be saved

vars == <<now, file, held, kept, saving>>

NoFile == -1
FileSecs == UnitSecs * FileUnits

(* A unit is a record with its file, its number in the file, and whatever  *)
(* is stored of it.                                                        *)
Ends(u) == u.file * FileSecs + (u.unit + 1) * UnitSecs
Unsaved == held \ kept

Init == now = 0 /\ file = NoFile /\ held = {} /\ kept = {} /\ saving = FALSE

Pass == now' = now + 1 /\ UNCHANGED <<file, held, kept, saving>>

(* The file of the present slot is opened. *)
Open ==
  /\ ~saving
  /\ \A u, v \in Unsaved : u = v
  /\ file' = now \div FileSecs
  /\ held' = {u \in kept : u.file = file'}
  /\ UNCHANGED <<now, kept, saving>>

(* A unit is over and recorded. *)
Record ==
  /\ \E u \in held' :
       /\ u.file = file /\ Ends(u) <= now
       /\ \A v \in held : v.unit < u.unit
       /\ held' = held \cup {u}
  /\ UNCHANGED <<now, file, kept, saving>>

(* A save: the units leave the card, and come back with those since. *)
Cut ==
  /\ ~saving
  /\ \A u \in kept : u.file = file => u \in held
  /\ kept' = {u \in kept : u.file # file} /\ saving' = TRUE
  /\ UNCHANGED <<now, file, held>>
Save ==
  /\ saving
  /\ kept' = kept \cup held /\ saving' = FALSE
  /\ UNCHANGED <<now, file, held>>

(* The process ends, and what it had not saved is lost. *)
End ==
  /\ saving \/ \A u, v \in Unsaved : v.unit - u.unit < MinuteUnits
  /\ file' = NoFile /\ held' = {} /\ saving' = FALSE
  /\ UNCHANGED <<now, kept>>

Next == Pass \/ Open \/ Record \/ Cut \/ Save \/ End

Spec == Init /\ [][Next]_vars
==============================================================================
