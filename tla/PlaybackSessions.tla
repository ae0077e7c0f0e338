--------------------------- MODULE PlaybackSessions ---------------------------
(***************************************************************************)
(* What the playback server promises a client: a session is claimed,       *)
(* plays, and ends by itself or because it is stopped.  A stop is not      *)
(* forgotten: after it the session can only end, unless a seek that was    *)
(* asked for after the stop revives it.  Requests are served one by one.   *)
(***************************************************************************)
CONSTANT Slots

VARIABLES
  stage,     \* "free", "claimed", "playing" or "stopping"
  seeking    \* the session a seek is being served for, if any

vars == <<stage, seeking>>

Init ==
  /\ stage = [i \in Slots |-> "free"]
  /\ seeking = {}

Goes(i, from, to) ==
  /\ stage[i] \in from
  /\ stage' = [stage EXCEPT ![i] = to]

Served == seeking = {} /\ UNCHANGED seeking

Claim(i) == Served /\ Goes(i, {"free"}, "claimed")
Play(i)  == Served /\ Goes(i, {"claimed"}, "playing")
Stop(i)  == Served /\ Goes(i, {"playing"}, "stopping")
End(i)   == Goes(i, {"playing", "stopping"}, "free") /\ UNCHANGED seeking

(* One request may stop several sessions: those of a client that is gone.  *)
StopAll ==
  /\ Served
  /\ \E S \in SUBSET Slots :
       /\ \A i \in S : stage[i] \in {"playing", "stopping"}
       /\ stage' = [i \in Slots |-> IF i \in S THEN "stopping" ELSE stage[i]]

(* A seek is asked for a session that exists.  It revives a stopped one,   *)
(* once, or comes to nothing: the session has ended, the file is missing.  *)
AskSeek(i) == seeking = {} /\ stage[i] # "free" /\ seeking' = {i} /\ UNCHANGED stage
Seek(i)    == i \in seeking /\ seeking' = {} /\ Goes(i, {"stopping"}, "playing")
SeekOver   == seeking # {} /\ seeking' = {} /\ UNCHANGED stage

Next ==
  \/ StopAll \/ SeekOver
  \/ \E i \in Slots :
       Claim(i) \/ Play(i) \/ Stop(i) \/ AskSeek(i) \/ Seek(i) \/ End(i)

Spec == Init /\ [][Next]_vars
===============================================================================
