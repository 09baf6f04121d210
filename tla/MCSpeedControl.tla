---- MODULE MCSpeedControl ----
(***************************************************************************)
(* TLC instance of SpeedControl: a clock that wraps every 4 s, frames of   *)
(* 10 and 20 ms, stops of 3.6 s (the delays of autotrack.h 81-103), and a  *)
(* car that stands or is pushed at three or six times its speed.           *)
(***************************************************************************)
EXTENDS SpeedControl

MCWindows == {10, 20}
MCStopWindows == {3600}
MCPulseCounts == {0, 30}

(* The speeds of such frames are whole numbers. *)
ASSUME InstanceAssumption == \A w \in Windows : 60 % w = 0
====
