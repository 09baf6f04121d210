---- MODULE MCRemoteControl ----
(***************************************************************************)
(* TLC instance of RemoteControl: two phones, the commands that do         *)
(* different things, and steering commands at both ends, beside the middle *)
(* and where the scale ends to the left, 126 the last that is bounded.     *)
(***************************************************************************)
EXTENDS RemoteControl

MCCommands == {2, 3, 4, 6, 8, 9, 75, 76, 126, 127, 165, 167, 255}

MCPeers == 1 .. 2
====
