------------------------------ MODULE MCPlayback ------------------------------
(* Values of the constants of Playback for model checking.                 *)
EXTENDS Playback

OneLate  == <<1, 0>>          \* a frame stored one place late
OneFrame == <<0>>

Ask(play, stop, speed, seek, destroy) ==
  [r \in AllRequests |-> CASE r = "PLAY" -> play [] r = "STOP" -> stop
      [] r = "SPEED" -> speed [] r = "SEEK" -> seek [] r = "DESTROY" -> destroy]

TwoSessions == Ask(2, 0, 0, 1, 1)
OneSlot     == Ask(1, 1, 1, 1, 0)
===============================================================================
