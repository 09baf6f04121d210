---- MODULE MCExposure ----
(***************************************************************************)
(* TLC instance of Exposure: three exposure times; a camera of four pixels *)
(* that delivers a line of strong, of very strong and of weak contrast, a  *)
(* line next to a pixel of noise, a covered camera's even gray and black,  *)
(* and a lone dark pixel.                                                  *)
(***************************************************************************)
EXTENDS Exposure

MCShots ==
  {<<1, 1, 9, 9>>, <<60, 0, 0, 60>>, <<2, 3, 2, 2>>, <<9, 1, 1, 2>>,
   <<3, 3, 3, 3>>, <<0, 0, 0, 0>>, <<9, 9, 1, 9>>}
====
