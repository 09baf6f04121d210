---------------------------- MODULE TrackScanProof ----------------------------
(***************************************************************************)
(* The loop of getTrackMidPixel is correct for every window, line width,   *)
(* frame and threshold.                                                    *)
(***************************************************************************)
EXTENDS TrackScan, CcdProof

(* A track that starts where a leftmost track starts is that track, so the *)
(* CHOOSE in GetTrackMidPixel picks the pair the loop has found.           *)
LEMMA LeftmostIsUnique ==
  ASSUME NEW frame, NEW binary \in Binary,
         NEW left \in Pixels, NEW right \in Pixels,
         <<left, right>> \in Tracks(binary),
         \A run \in Tracks(binary) : left <= run[1]
  PROVE  GetTrackMidPixel(frame, binary) = MidPixel(frame, left, right)
<1> USE WindowAssumption DEF Pixels
<1> DEFINE Leftmost(run) == \A other \in Tracks(binary) : run[1] <= other[1]
           first == CHOOSE run \in Tracks(binary) : Leftmost(run)
<1>1. Leftmost(<<left, right>>)
  OBVIOUS
<1>2. first \in Tracks(binary) /\ Leftmost(first)
  BY <1>1
<1>3. first[1] = left
  BY <1>2, TracksDef
<1>4. first[2] = right
  <2>1. IsTrack(binary, left, first[2]) /\ IsTrack(binary, left, right)
    BY <1>2, <1>3, TracksDef
  <2>2. first[2] \in Pixels
    BY <1>2, TracksDef
  <2>3. ~(first[2] < right)
    BY <2>1, <2>2 DEF IsTrack
  <2>4. ~(right < first[2])
    BY <2>1, <2>2 DEF IsTrack
  <2> QED BY <2>2, <2>3, <2>4
<1>5. GetTrackMidPixel(frame, binary) = MidPixel(frame, first[1], first[2])
  BY DEF GetTrackMidPixel
<1> QED BY <1>3, <1>4, <1>5

(* No track ends inside a current run that is still too narrow: it would   *)
(* have to be the run itself, or reach back across the white pixel before  *)
(* it.                                                                     *)
LEMMA NarrowRunHidesNothing ==
  ASSUME TypeOK, CurrentRun, NothingMissed, ~WideEnough,
         i # cCountEnd + 1 => ~binaryData[i],
         NEW run \in Tracks(binaryData)
  PROVE  run[2] >= i + 1
<1> USE WindowAssumption DEF Pixels
<1>1. /\ run[1] \in Pixels /\ run[2] \in Pixels
      /\ IsTrack(binaryData, run[1], run[2])
  BY TracksDef
<1>2. run[2] >= i - accumulatedDarkPixel
  BY DEF NothingMissed
<1>3. run[2] # i
  BY <1>1 DEF IsTrack
<1>4. CASE accumulatedDarkPixel = 0
  BY <1>1, <1>2, <1>3, <1>4 DEF TypeOK
<1>5. CASE accumulatedDarkPixel # 0
  <2>1. /\ trackLeftPixel \in Pixels
        /\ trackLeftPixel + accumulatedDarkPixel = i
        /\ \A k \in trackLeftPixel .. i - 1 : binaryData[k]
        /\ trackLeftPixel # cCountStart => ~binaryData[trackLeftPixel - 1]
    BY <1>5 DEF CurrentRun
  <2>2. ASSUME run[2] < i - 1 PROVE FALSE
    <3>1. run[2] + 1 \in trackLeftPixel .. i - 1
      BY <1>1, <1>2, <2>1, <2>2 DEF TypeOK
    <3>2. run[2] # cCountEnd
      BY <2>2, <1>1 DEF TypeOK
    <3> QED BY <3>1, <3>2, <2>1, <1>1 DEF IsTrack
  <2>3. ASSUME run[2] = i - 1 PROVE FALSE
    <3>1. accumulatedDarkPixel < cEffectiveLineWidthMin
      BY DEF WideEnough, TypeOK
    <3>2. run[1] < trackLeftPixel
      BY <1>1, <2>1, <2>3, <3>1 DEF IsTrack, TypeOK
    <3>3. trackLeftPixel - 1 \in run[1] .. run[2]
      BY <3>2, <2>1, <2>3, <1>1 DEF TypeOK
    <3> QED BY <3>2, <3>3, <2>1, <1>1 DEF IsTrack
  <2> QED BY <1>1, <1>3, <2>2, <2>3 DEF TypeOK
<1> QED BY <1>4, <1>5

(* A current run that is wide enough, and ends at right, is the leftmost   *)
(* track.                                                                  *)
LEMMA WideRunIsLeftmost ==
  ASSUME TypeOK, CurrentRun, NothingMissed, WideEnough,
         NEW right, right = i - 1,
         i # cCountEnd + 1 => ~binaryData[i]
  PROVE  /\ trackLeftPixel \in Pixels /\ right \in Pixels
         /\ <<trackLeftPixel, right>> \in Tracks(binaryData)
         /\ \A run \in Tracks(binaryData) : trackLeftPixel <= run[1]
<1> USE WindowAssumption DEF Pixels
<1>1. /\ trackLeftPixel \in Pixels
      /\ trackLeftPixel + accumulatedDarkPixel = i
      /\ \A k \in trackLeftPixel .. i - 1 : binaryData[k]
      /\ trackLeftPixel # cCountStart => ~binaryData[trackLeftPixel - 1]
      /\ accumulatedDarkPixel >= cEffectiveLineWidthMin
  BY DEF CurrentRun, WideEnough, TypeOK
<1>2. right \in Pixels
  BY <1>1 DEF TypeOK
<1>3. IsTrack(binaryData, trackLeftPixel, right)
  BY <1>1, <1>2 DEF IsTrack, TypeOK
<1>4. <<trackLeftPixel, right>> \in Tracks(binaryData)
  BY <1>1, <1>2, <1>3 DEF Tracks
<1>5. ASSUME NEW run \in Tracks(binaryData), run[1] < trackLeftPixel PROVE FALSE
  <2>1. /\ run[1] \in Pixels /\ run[2] \in Pixels
        /\ IsTrack(binaryData, run[1], run[2])
    BY TracksDef
  <2>2. run[2] >= trackLeftPixel
    BY <1>1 DEF NothingMissed, TypeOK
  <2>3. trackLeftPixel - 1 \in run[1] .. run[2]
    BY <1>1, <1>5, <2>1, <2>2
  <2> QED BY <1>1, <1>5, <2>1, <2>3 DEF IsTrack
<1>6. \A run \in Tracks(binaryData) : trackLeftPixel <= run[1]
  BY <1>1, <1>5, TracksDef
<1> QED BY <1>1, <1>2, <1>4, <1>6

-----------------------------------------------------------------------------
LEMMA InitScanInv == Init => ScanInv
<1> SUFFICES ASSUME Init PROVE ScanInv
  OBVIOUS
<1> USE WindowAssumption, InputAssumption DEF Pixels
<1>1. TypeOK
  <2>1. binaryData \in Binary
    BY DEF Init, LinearToBinary, Binary
  <2>2. linearData \in Frame
    BY DEF Init
  <2> QED BY <2>1, <2>2 DEF Init, TypeOK
<1>2. CurrentRun
  BY DEF Init, CurrentRun
<1>3. NothingMissed
  BY TracksDef DEF Init, NothingMissed
<1> QED BY <1>1, <1>2, <1>3 DEF Init, ScanInv

LEMMA DarkPixelScanInv == ScanInv /\ DarkPixel => ScanInv'
<1> SUFFICES ASSUME ScanInv, DarkPixel PROVE ScanInv'
  OBVIOUS
<1> USE WindowAssumption DEF Pixels
<1>1. TypeOK /\ CurrentRun /\ NothingMissed /\ trackRightPixel = -1
  BY DEF ScanInv, DarkPixel
<1>2. TypeOK'
  BY <1>1 DEF TypeOK, DarkPixel, input
<1>3. CurrentRun'
  BY <1>1 DEF TypeOK, CurrentRun, DarkPixel, input
<1>4. NothingMissed'
  BY <1>1 DEF TypeOK, NothingMissed, DarkPixel, input
<1> QED BY <1>1, <1>2, <1>3, <1>4 DEF ScanInv, DarkPixel

LEMMA EndOfTrackScanInv == ScanInv /\ EndOfTrack => ScanInv'
<1> SUFFICES ASSUME ScanInv, EndOfTrack PROVE ScanInv'
  OBVIOUS
<1> USE WindowAssumption DEF Pixels
<1>1. TypeOK /\ CurrentRun /\ NothingMissed
  BY DEF ScanInv, EndOfTrack
<1>2. /\ trackLeftPixel \in Pixels /\ trackRightPixel' \in Pixels
      /\ <<trackLeftPixel, trackRightPixel'>> \in Tracks(binaryData)
      /\ \A run \in Tracks(binaryData) : trackLeftPixel <= run[1]
  BY <1>1, WideRunIsLeftmost DEF EndOfTrack
<1>3. TypeOK'
  BY <1>1, <1>2 DEF TypeOK, EndOfTrack, input
<1>4. Found'
  BY <1>2 DEF Found, EndOfTrack, input
<1> QED BY <1>3, <1>4 DEF ScanInv, EndOfTrack

LEMMA WhitePixelScanInv == ScanInv /\ WhitePixel => ScanInv'
<1> SUFFICES ASSUME ScanInv, WhitePixel PROVE ScanInv'
  OBVIOUS
<1> USE WindowAssumption DEF Pixels
<1>1. TypeOK /\ CurrentRun /\ NothingMissed /\ trackRightPixel = -1
  BY DEF ScanInv, WhitePixel
<1>2. TypeOK'
  BY <1>1 DEF TypeOK, WhitePixel, input
<1>3. CurrentRun'
  BY <1>1 DEF TypeOK, CurrentRun, WhitePixel, input
<1>4. \A run \in Tracks(binaryData) : run[2] >= i + 1
  BY <1>1, NarrowRunHidesNothing DEF WhitePixel
<1>5. NothingMissed'
  BY <1>1, <1>4 DEF TypeOK, NothingMissed, WhitePixel, input
<1> QED BY <1>1, <1>2, <1>3, <1>5 DEF ScanInv, WhitePixel

LEMMA EndOfWindowScanInv == ScanInv /\ EndOfWindow => ScanInv'
<1> SUFFICES ASSUME ScanInv, EndOfWindow PROVE ScanInv'
  OBVIOUS
<1> USE WindowAssumption DEF Pixels
<1>1. TypeOK /\ CurrentRun /\ NothingMissed /\ trackRightPixel = -1
  BY DEF ScanInv, EndOfWindow
<1>2. i = cCountEnd + 1
  BY <1>1 DEF TypeOK, EndOfWindow
<1>3. TypeOK'
  BY <1>1 DEF TypeOK, EndOfWindow, input
<1>4. CASE WideEnough
  <2>1. cCountEnd = i - 1
    BY <1>2
  <2>2. /\ trackLeftPixel \in Pixels
        /\ <<trackLeftPixel, cCountEnd>> \in Tracks(binaryData)
        /\ \A run \in Tracks(binaryData) : trackLeftPixel <= run[1]
    BY <1>1, <1>2, <1>4, <2>1, WideRunIsLeftmost
  <2>3. Found'
    BY <1>4, <2>2 DEF Found, EndOfWindow, input
  <2> QED BY <1>3, <2>3 DEF ScanInv, EndOfWindow
<1>5. CASE ~WideEnough
  <2>1. ASSUME NEW run \in Tracks(binaryData) PROVE FALSE
    <3>1. run[2] >= i + 1
      BY <1>1, <1>2, <1>5, NarrowRunHidesNothing
    <3> QED BY <1>2, <3>1, TracksDef
  <2>2. Found'
    BY <1>1, <1>5, <2>1 DEF Found, EndOfWindow, input
  <2> QED BY <1>3, <2>2 DEF ScanInv, EndOfWindow
<1> QED BY <1>4, <1>5

LEMMA FinishScanInv == ScanInv /\ Finish => ScanInv'
<1> SUFFICES ASSUME ScanInv, Finish PROVE ScanInv'
  OBVIOUS
<1> USE WindowAssumption DEF Pixels
<1>1. TypeOK /\ Found
  BY DEF ScanInv, Finish
<1>2. Found'
  BY <1>1 DEF Found, Finish, input
<1>3. CASE trackLeftPixel = -1 \/ trackRightPixel = -1
  <2>1. trackMidPixel' = -1 /\ Tracks(binaryData) = {}
    BY <1>1, <1>3 DEF Found, Finish
  <2>2. GetTrackMidPixel(linearData, binaryData) = -1
    BY <2>1 DEF GetTrackMidPixel
  <2> QED BY <1>1, <1>2, <2>1, <2>2 DEF ScanInv, TypeOK, Finish, input
<1>4. CASE trackLeftPixel # -1 /\ trackRightPixel # -1
  <2>1. /\ trackLeftPixel \in Pixels /\ trackRightPixel \in Pixels
        /\ <<trackLeftPixel, trackRightPixel>> \in Tracks(binaryData)
        /\ \A run \in Tracks(binaryData) : trackLeftPixel <= run[1]
    BY <1>1, <1>4 DEF Found, TypeOK
  <2>2. trackLeftPixel <= trackRightPixel
    BY <2>1 DEF Tracks, IsTrack
  <2>3. trackMidPixel' = MidPixel(linearData, trackLeftPixel, trackRightPixel)
    BY <1>4 DEF Finish
  <2>4. trackMidPixel' \in Nat
    <3>1. MidPixel(linearData, trackLeftPixel, trackRightPixel)
            \in trackLeftPixel .. trackRightPixel
      BY <2>1, <2>2, MidPixelInRun
    <3> QED BY <2>1, <2>3, <3>1
  <2>5. trackMidPixel' = GetTrackMidPixel(linearData, binaryData)
    BY <1>1, <2>1, <2>3, LeftmostIsUnique DEF TypeOK
  <2> QED BY <1>1, <1>2, <2>4, <2>5 DEF ScanInv, TypeOK, Finish, input
<1> QED BY <1>3, <1>4

-----------------------------------------------------------------------------
(* The loop invariant of getTrackMidPixel: outside a run the counters are  *)
(* reset, inside one they describe exactly the run's dark pixels, and no   *)
(* wide run has gone by unnoticed.                                         *)
THEOREM ScanInvariant == Spec => []ScanInv
<1>1. ScanInv /\ [Next]_vars => ScanInv'
  <2> SUFFICES ASSUME ScanInv, [Next]_vars PROVE ScanInv'
    OBVIOUS
  <2>1. CASE DarkPixel
    BY <2>1, DarkPixelScanInv
  <2>2. CASE EndOfTrack
    BY <2>2, EndOfTrackScanInv
  <2>3. CASE WhitePixel
    BY <2>3, WhitePixelScanInv
  <2>4. CASE EndOfWindow
    BY <2>4, EndOfWindowScanInv
  <2>5. CASE Finish
    BY <2>5, FinishScanInv
  <2>6. CASE UNCHANGED vars
    BY <2>6 DEF vars, ScanInv, TypeOK, CurrentRun, NothingMissed, Found
  <2> QED BY <2>1, <2>2, <2>3, <2>4, <2>5, <2>6 DEF Next
<1> QED BY <1>1, InitScanInv, PTL DEF Spec

(* The indices of getTrackMidPixel never leave the evaluated window.       *)
THEOREM TypeCorrect == Spec => []TypeOK
<1>1. ScanInv => TypeOK
  BY DEF ScanInv
<1> QED BY <1>1, ScanInvariant, PTL

(* For every window, minimal width, frame and threshold, the loop of       *)
(* getTrackMidPixel returns the middle of the leftmost wide dark run, and  *)
(* -1 exactly when there is none.                                          *)
THEOREM ScanCorrect == Spec => []Correct
<1>1. ScanInv => Correct
  BY DEF ScanInv, Correct
<1> QED BY <1>1, ScanInvariant, PTL

=============================================================================
