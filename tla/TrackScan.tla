------------------------------ MODULE TrackScan ------------------------------
(***************************************************************************)
(* The loop of getTrackMidPixel (src/dep/ccd.h), one step per pixel: it    *)
(* walks the binary image from left to right, counts the dark pixels of    *)
(* the run it is in, forgets a run that ends too narrow and stops at the   *)
(* first one that is wide enough.                                          *)
(*                                                                         *)
(* What a reader wants to know of it -- that it finds the leftmost wide    *)
(* run, also when several noise runs come first or the run touches an      *)
(* edge of the window -- is Correct below.                                 *)
(***************************************************************************)
EXTENDS Ccd

CONSTANTS
  Frames,      \* the frames the loop is started on, and the thresholds they
  Thresholds   \* are made binary with

ASSUME InputAssumption == Frames \subseteq Frame /\ Thresholds \subseteq Nat

VARIABLES
  linearData, binaryData,                 \* the input, never written
  i,                                      \* the loop variable
  accumulatedDarkPixel, trackLeftPixel, trackRightPixel, trackMidPixel,
  pc                                      \* "loop", "finish" or "done"

vars == <<linearData, binaryData, i, accumulatedDarkPixel, trackLeftPixel,
          trackRightPixel, trackMidPixel, pc>>

input == <<linearData, binaryData>>

Init ==
  /\ linearData \in Frames
  /\ \E partingAvg \in Thresholds :
       binaryData = LinearToBinary(linearData, partingAvg)
  /\ i = cCountStart
  /\ accumulatedDarkPixel = 0
  /\ trackLeftPixel = -1
  /\ trackRightPixel = -1
  /\ trackMidPixel = -1
  /\ pc = "loop"

MutantTooWide == accumulatedDarkPixel > cEffectiveLineWidthMin
WideEnough == accumulatedDarkPixel >= cEffectiveLineWidthMin

DarkPixel ==
  /\ pc = "loop" /\ i <= cCountEnd
  /\ binaryData[i]
  /\ trackLeftPixel' = IF trackLeftPixel = -1 THEN i ELSE trackLeftPixel
  /\ accumulatedDarkPixel' = accumulatedDarkPixel + 1
  /\ i' = i + 1
  /\ UNCHANGED <<input, trackRightPixel, trackMidPixel, pc>>

(* A white pixel ends a run that is wide enough, and the loop with it ...  *)
EndOfTrack ==
  /\ pc = "loop" /\ i <= cCountEnd
  /\ ~binaryData[i] /\ WideEnough
  /\ trackRightPixel' = i - 1
  /\ pc' = "finish"
  /\ UNCHANGED <<input, i, accumulatedDarkPixel, trackLeftPixel, trackMidPixel>>

(* ... and throws any other run away; the mutant forgets where it began.   *)
MutantKeepsLeft ==
  /\ pc = "loop" /\ i <= cCountEnd
  /\ ~binaryData[i] /\ ~WideEnough
  /\ accumulatedDarkPixel' = 0
  /\ i' = i + 1
  /\ UNCHANGED <<input, trackLeftPixel, trackRightPixel, trackMidPixel, pc>>

WhitePixel ==
  /\ pc = "loop" /\ i <= cCountEnd
  /\ ~binaryData[i] /\ ~WideEnough
  /\ accumulatedDarkPixel' = 0
  /\ trackLeftPixel' = -1
  /\ i' = i + 1
  /\ UNCHANGED <<input, trackRightPixel, trackMidPixel, pc>>

(* The window is exhausted: a run that reaches its edge may still count.   *)
MutantPastTheEdge ==
  /\ pc = "loop" /\ i > cCountEnd
  /\ trackRightPixel' = IF WideEnough THEN i ELSE trackRightPixel
  /\ pc' = "finish"
  /\ UNCHANGED <<input, i, accumulatedDarkPixel, trackLeftPixel, trackMidPixel>>

EndOfWindow ==
  /\ pc = "loop" /\ i > cCountEnd
  /\ trackRightPixel' = IF WideEnough THEN cCountEnd ELSE trackRightPixel
  /\ pc' = "finish"
  /\ UNCHANGED <<input, i, accumulatedDarkPixel, trackLeftPixel, trackMidPixel>>

Finish ==
  /\ pc = "finish"
  /\ trackMidPixel' = IF trackLeftPixel = -1 \/ trackRightPixel = -1
                      THEN -1
                      ELSE MidPixel(linearData, trackLeftPixel, trackRightPixel)
  /\ pc' = "done"
  /\ UNCHANGED <<input, i, accumulatedDarkPixel, trackLeftPixel, trackRightPixel>>

Next == DarkPixel \/ EndOfTrack \/ WhitePixel \/ EndOfWindow \/ Finish

Spec == Init /\ [][Next]_vars

-----------------------------------------------------------------------------
TypeOK ==
  /\ linearData \in Frame
  /\ binaryData \in Binary
  /\ i \in cCountStart .. cCountEnd + 1
  /\ accumulatedDarkPixel \in Nat
  /\ trackLeftPixel \in Pixels \cup {-1}
  /\ trackRightPixel \in Pixels \cup {-1}
  /\ trackMidPixel \in Nat \cup {-1}
  /\ pc \in {"loop", "finish", "done"}

(* The run the loop is in: trackLeftPixel is where it starts (-1 outside a *)
(* run), accumulatedDarkPixel is its length so far, and it is maximal to   *)
(* the left.                                                               *)
CurrentRun ==
  IF accumulatedDarkPixel = 0
  THEN trackLeftPixel = -1 /\ (i # cCountStart => ~binaryData[i - 1])
  ELSE /\ trackLeftPixel \in Pixels
       /\ trackLeftPixel + accumulatedDarkPixel = i
       /\ \A k \in trackLeftPixel .. i - 1 : binaryData[k]
       /\ trackLeftPixel # cCountStart => ~binaryData[trackLeftPixel - 1]

(* No track ended before the current run.                                  *)
NothingMissed ==
  \A run \in Tracks(binaryData) : run[2] >= i - accumulatedDarkPixel

(* The bounds found are a track, and the leftmost one; without bounds      *)
(* there is no track at all.                                               *)
Found ==
  IF trackLeftPixel = -1 \/ trackRightPixel = -1
  THEN Tracks(binaryData) = {}
  ELSE /\ <<trackLeftPixel, trackRightPixel>> \in Tracks(binaryData)
       /\ \A run \in Tracks(binaryData) : trackLeftPixel <= run[1]

(* The inductive invariant of the loop.                                    *)
ScanInv ==
  /\ TypeOK
  /\ pc = "loop" => CurrentRun /\ NothingMissed /\ trackRightPixel = -1
  /\ pc # "loop" => Found
  /\ pc = "done" => trackMidPixel = GetTrackMidPixel(linearData, binaryData)

(* The loop of getTrackMidPixel returns the middle of the leftmost dark    *)
(* run of at least cEffectiveLineWidthMin pixels, and -1 exactly when the  *)
(* image has none: noise before the line does not shift it, and a line     *)
(* that touches the edge of the window is not lost.                        *)
Correct ==
  pc = "done" => trackMidPixel = GetTrackMidPixel(linearData, binaryData)

=============================================================================
