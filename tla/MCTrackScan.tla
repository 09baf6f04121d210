---- MODULE MCTrackScan ----
(***************************************************************************)
(* TLC instance of TrackScan: lines of width two in a window of six        *)
(* pixels; every frame over three intensities, cut at every threshold that *)
(* matters, so every binary image occurs and both middle pixels of an even *)
(* run can be the darker one.                                              *)
(***************************************************************************)
EXTENDS TrackScan

MCFrames     == [Pixels -> 0..2]
MCThresholds == 0..3
====
