---- MODULE MCAutoTrack ----
(***************************************************************************)
(* TLC instance of AutoTrack: two platforms, the second two cells long, on *)
(* a line of eight cells; a camera of five pixels that sees a line of two, *)
(* on its left edge or to its right with a dark pixel of noise before it.  *)
(*                                                                         *)
(* Of two neighbouring levels of light, the threshold taken at one still   *)
(* parts dark from white at the other; two levels apart it does not.       *)
(***************************************************************************)
EXTENDS AutoTrack

MCTrack == [cell \in 0 .. 7 |-> CASE cell = 2        -> 1
                                  [] cell \in {5, 6} -> 2
                                  [] OTHER           -> 0]

MCLights == 1 .. 3   \* where the light may change
Dark  == <<1, 1, 3>>
White == <<5, 8, 11>>

FrameOf(level, darkPixels) ==
  [i \in Pixels |-> IF i \in darkPixels THEN Dark[level] ELSE White[level]]

MCImage ==
  [surface \in Surfaces |->
    [level \in Lights |->
      CASE surface = "line"     -> {FrameOf(level, {1, 2}), FrameOf(level, {1, 3, 4})}
        [] surface = "platform" -> {FrameOf(level, 1 .. 5), FrameOf(level, 1 .. 4)}
        [] surface = "bare"     -> {FrameOf(level, {}), FrameOf(level, {1})}]]

(* Such a line and such a light are what the proofs about the stops ask    *)
(* for; where the light may drift two levels, it is not.                   *)
ASSUME InstanceAssumption ==
  /\ WellLaid
  /\ WellLit <=> MaxDrift <= 1
====
