---- MODULE MCUplink ----
(***************************************************************************)
(* TLC instance of Uplink: one shelf, so that every second message is a    *)
(* report, texts of two bytes and a buffer of four, which the second       *)
(* message does not fit in when the first still waits.                     *)
(***************************************************************************)
EXTENDS Uplink
====
