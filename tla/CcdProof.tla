------------------------------ MODULE CcdProof ------------------------------
(***************************************************************************)
(* What the image processing returns, for every window and frame: the      *)
(* values the rest of the program relies on stay in their ranges.          *)
(***************************************************************************)
EXTENDS Ccd, WellFoundedInduction, TLAPS

(* A positive multiple of n is at least n.                                 *)
LEMMA PositiveMultiple ==
  ASSUME NEW n \in Nat \ {0}, NEW k \in Int, k >= 1
  PROVE  n * k \in Int /\ n * k >= n
  OBVIOUS

(* The division theorem.                                                   *)
LEMMA DivMod ==
  ASSUME NEW n \in Nat \ {0}, NEW a \in Int
  PROVE  /\ a \div n \in Int
         /\ a % n \in 0 .. n - 1
         /\ a = n * (a \div n) + (a % n)
  OBVIOUS

(* A quotient is natural, and its multiple does not exceed the dividend.   *)
LEMMA DivBounds ==
  ASSUME NEW n \in Nat \ {0}, NEW a \in Nat
  PROVE  a \div n \in Nat /\ n * (a \div n) <= a
<1> DEFINE q == a \div n
<1>1. q \in Int /\ a % n \in 0 .. n - 1 /\ a = n * q + (a % n)
  BY DivMod
<1>2. ~(q <= -1)
  <2> SUFFICES ASSUME q <= -1 PROVE FALSE
    OBVIOUS
  <2>1. -q \in Int /\ -q >= 1
    BY <1>1
  <2>2. n * (-q) >= n
    BY <2>1, PositiveMultiple
  <2>3. n * (-q) = -(n * q)
    BY <1>1
  <2> QED BY <1>1, <2>2, <2>3
<1> QED BY <1>1, <1>2

LEMMA Distributes ==
  ASSUME NEW n \in Int, NEW a \in Int, NEW b \in Int
  PROVE  n * (a - b) = n * a - n * b /\ n * a \in Int
  OBVIOUS

(* A set of naturals has a least element ...                               *)
LEMMA NatMin ==
  ASSUME NEW T \in SUBSET Nat, T # {}
  PROVE  \E x \in T : \A y \in T : x <= y
<1> DEFINE less == OpToRel(<, Nat)
<1>1. IsWellFoundedOn(less, Nat)
  BY NatLessThanWellFounded
<1>2. ASSUME NEW y \in Nat, NEW x \in Nat, y < x PROVE <<y, x>> \in less
  BY <1>2 DEF OpToRel
<1> HIDE DEF less
<1>3. PICK x \in T : \A y \in T : ~ (<<y, x>> \in less)
  BY <1>1, WFMin
<1>4. ASSUME NEW y \in T PROVE x <= y
  <2>1. ~ (y < x)
    BY <1>2, <1>3
  <2> QED BY <2>1
<1> QED BY <1>4

(* ... and a bounded one the extremes parseLinearVals looks for.           *)
LEMMA ExtremesExist ==
  ASSUME NEW M \in Nat, NEW S \in SUBSET (0 .. M), S # {}
  PROVE  /\ Min(S) \in S /\ Max(S) \in S
         /\ \A y \in S : Min(S) <= y /\ Max(S) >= y
<1>1. \E x \in S : \A y \in S : x <= y
  BY NatMin
<1>2. \E x \in S : \A y \in S : x >= y
  <2> DEFINE T == {M - x : x \in S}
  <2>1. T \in SUBSET Nat /\ T # {}
    <3>1. \A x \in S : M - x \in Nat
      OBVIOUS
    <3> QED BY <3>1
  <2> HIDE DEF T
  <2>2. PICK t \in T : \A u \in T : t <= u
    BY <2>1, NatMin
  <2>3. PICK x \in S : t = M - x
    BY <2>2 DEF T
  <2>4. ASSUME NEW y \in S PROVE x >= y
    <3>1. M - x <= M - y
      BY <2>2, <2>3 DEF T
    <3> QED BY <3>1
  <2> QED BY <2>4
<1> QED BY <1>1, <1>2 DEF Min, Max

(* The average of a frame is an intensity.                                 *)
LEMMA AvgType ==
  ASSUME NEW frame \in Frame
  PROVE AvgVal(frame) \in 0 .. cMaxReading
<1> DEFINE S == {frame[i] : i \in Pixels}
<1>1. S \in SUBSET (0 .. cMaxReading) /\ S # {} /\ cMaxReading \in Nat
  BY WindowAssumption DEF Frame, Pixels
<1>2. MinVal(frame) \in 0 .. cMaxReading /\ MaxVal(frame) \in 0 .. cMaxReading
  BY <1>1, ExtremesExist DEF MinVal, MaxVal
<1> QED BY <1>2, WindowAssumption DEF AvgVal

(* A frame that shows a track when cut with its own average has a contrast:*)
(* its least reading is below its greatest.                                *)
LEMMA TrackHasContrast ==
  ASSUME NEW frame \in Frame,
         GetTrackMidPixel(frame, LinearToBinary(frame, 0)) # -1
  PROVE  MinVal(frame) < MaxVal(frame)
<1> DEFINE S == {frame[i] : i \in Pixels}
           binary == LinearToBinary(frame, 0)
<1>1. PICK run \in Tracks(binary) : TRUE
  BY DEF GetTrackMidPixel
<1>2. run[1] \in Pixels /\ run[2] \in Pixels /\ binary[run[1]]
  BY <1>1 DEF Tracks, IsTrack, Pixels
<1>3. frame[run[1]] < AvgVal(frame)
  BY <1>2 DEF LinearToBinary
<1>4. S \in SUBSET (0 .. cMaxReading) /\ frame[run[1]] \in S /\ cMaxReading \in Nat
  BY <1>2, WindowAssumption DEF Frame
<1>5. /\ MinVal(frame) \in 0 .. cMaxReading /\ MaxVal(frame) \in 0 .. cMaxReading
      /\ MinVal(frame) <= frame[run[1]]
  BY <1>4, ExtremesExist DEF MinVal, MaxVal
<1>6. frame[run[1]] \in Int
  BY <1>4
<1>7. MinVal(frame) < AvgVal(frame) /\ MinVal(frame) \in Nat /\ MaxVal(frame) \in Nat
  <2>1. MinVal(frame) \in Nat /\ MaxVal(frame) \in Nat
    BY <1>4, <1>5
  <2>2. AvgVal(frame) \in Int
    BY <2>1 DEF AvgVal
  <2> QED BY <1>3, <1>5, <1>6, <2>1, <2>2
<1> QED BY <1>7 DEF AvgVal

(* What membership in Tracks means, with the pair taken apart.             *)
LEMMA TracksDef ==
  ASSUME NEW binary, NEW run \in Tracks(binary)
  PROVE  /\ run[1] \in Pixels /\ run[2] \in Pixels
         /\ IsTrack(binary, run[1], run[2])
         /\ run = <<run[1], run[2]>>
  BY DEF Tracks

(* The middle of a run lies in the run.                                    *)
LEMMA MidPixelInRun ==
  ASSUME NEW frame, NEW left \in Nat, NEW right \in Nat, left <= right
  PROVE  MidPixel(frame, left, right) \in left .. right
  BY DEF MidPixel

(* An image with a track has a leftmost one, so the scan's result is a     *)
(* pixel of the window.                                                    *)
LEMMA MidPixelType ==
  ASSUME NEW frame, NEW binary \in Binary
  PROVE  GetTrackMidPixel(frame, binary) \in Pixels \cup {-1}
<1> USE WindowAssumption DEF Pixels
<1>1. CASE Tracks(binary) = {}
  BY <1>1 DEF GetTrackMidPixel
<1>2. CASE Tracks(binary) # {}
  <2> DEFINE Leftmost(run) == \A other \in Tracks(binary) : run[1] <= other[1]
             first == CHOOSE run \in Tracks(binary) : Leftmost(run)
             starts == {run[1] : run \in Tracks(binary)}
  <2>1. starts \in SUBSET Nat /\ starts # {}
    BY <1>2, TracksDef
  <2> HIDE DEF starts
  <2>2. PICK start \in starts : \A other \in starts : start <= other
    BY <2>1, NatMin
  <2>3. PICK run \in Tracks(binary) : start = run[1]
    BY <2>2 DEF starts
  <2>4. Leftmost(run)
    BY <2>2, <2>3 DEF starts
  <2>5. first \in Tracks(binary)
    BY <2>4
  <2>6. first[1] \in Pixels /\ first[2] \in Pixels /\ first[1] <= first[2]
    BY <2>5, TracksDef DEF IsTrack
  <2>7. MidPixel(frame, first[1], first[2]) \in first[1] .. first[2]
    BY <2>6, MidPixelInRun
  <2>8. GetTrackMidPixel(frame, binary) = MidPixel(frame, first[1], first[2])
    BY <1>2 DEF GetTrackMidPixel
  <2> QED BY <2>6, <2>7, <2>8
<1> QED BY <1>1, <1>2

(* The steering scale: 0 is the left edge of the window, 128 the right.    *)
LEMMA SteeringScaleType ==
  ASSUME NEW pixel \in Pixels
  PROVE  ToSteeringScale(pixel) \in -1 .. 128
<1> USE WindowAssumption DEF Pixels
<1>1. CASE cCountStart = cCountEnd
  BY <1>1 DEF ToSteeringScale
<1>2. CASE cCountStart # cCountEnd
  <2> DEFINE n == cCountEnd - cCountStart
             a == (pixel - cCountStart) * 128
             q == a \div n
  <2>1. n \in Nat \ {0} /\ a \in Nat /\ a <= n * 128
    BY <1>2
  <2> HIDE DEF n, a
  <2>2. q \in Nat /\ n * q <= a
    BY <2>1, DivBounds
  <2> HIDE DEF q
  <2>3. ~(q - 128 >= 1)
    <3> SUFFICES ASSUME q - 128 >= 1 PROVE FALSE
      OBVIOUS
    <3>1. n * (q - 128) >= n
      BY <2>1, <2>2, PositiveMultiple
    <3>2. n * (q - 128) = n * q - n * 128 /\ n * q \in Int
      BY <2>1, <2>2, Distributes
    <3> QED BY <2>1, <2>2, <3>1, <3>2
  <2>4. q \in -1 .. 128
    BY <2>2, <2>3
  <2> QED BY <1>2, <2>4 DEF ToSteeringScale, q, a, n
<1> QED BY <1>1, <1>2

(* processCCD's result.                                                    *)
LEMMA ProcessCCDType ==
  ASSUME NEW frame \in Frame, NEW average \in 0 .. cMaxReading
  PROVE  LET result == ProcessCCD(frame, average)
         IN  /\ result.tracingStatus \in
                  {STATUS_NORMAL, STATUS_NO_TRACK, STATUS_PLATFORM}
             /\ result.tracingStatus = STATUS_NORMAL
                  => result.trackMidPixel \in -1 .. 128
             /\ result.lastAvailableAverage \in 0 .. cMaxReading
<1> DEFINE binary == LinearToBinary(frame, average)
           mid    == GetTrackMidPixel(frame, binary)
<1>1. binary \in Binary
  BY DEF LinearToBinary, Binary
<1>2. mid \in Pixels \cup {-1}
  BY <1>1, MidPixelType
<1>3. AvgVal(frame) \in 0 .. cMaxReading
  BY AvgType
<1>4. ProcessCCD(frame, average).tracingStatus = STATUS_NORMAL => mid # -1
  BY DEF ProcessCCD, STATUS_NORMAL, STATUS_NO_TRACK, STATUS_PLATFORM
<1> HIDE DEF binary, mid
<1>5. mid # -1 => ToSteeringScale(mid) \in -1 .. 128
  BY <1>2, SteeringScaleType
<1> QED BY <1>3, <1>4, <1>5 DEF ProcessCCD, NextAverage, binary, mid

=============================================================================
