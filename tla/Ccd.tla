-------------------------------- MODULE Ccd --------------------------------
(***************************************************************************)
(* The line camera's image processing (src/dep/ccd.h) as constant-level    *)
(* operators.  A frame is what one captrueCCD leaves in linearData: an     *)
(* intensity for every pixel of the evaluated window                       *)
(* cCountStart..cCountEnd (the pixels outside it are never looked at).     *)
(*                                                                         *)
(* GetTrackMidPixel states what the scanning loop of getTrackMidPixel      *)
(* returns; the loop itself, pixel by pixel, is module TrackScan, whose    *)
(* theorem is that the two agree for every window, width and frame.        *)
(***************************************************************************)
EXTENDS Integers, FiniteSets, FiniteSetsExt

CONSTANTS
  cCountStart,            \* first and last evaluated pixel
  cCountEnd,
  cEffectiveLineWidthMin, \* a dark run narrower than this is noise
  cMaxReading             \* the largest analogRead (4095 on the board)

(* parseLinearVals starts its search for the minimum at 1e6: a reading     *)
(* above that would be overlooked.                                         *)
ASSUME WindowAssumption ==
  /\ cCountStart \in Nat
  /\ cCountEnd \in Nat
  /\ cCountStart <= cCountEnd
  /\ cEffectiveLineWidthMin \in Nat \ {0}
  /\ cMaxReading \in 0 .. 10^6

STATUS_NORMAL   == "NORMAL"
STATUS_NO_TRACK == "NO_TRACK"
STATUS_PLATFORM == "PLATFORM"

Pixels == cCountStart .. cCountEnd
Frame  == [Pixels -> 0 .. cMaxReading]
Binary == [Pixels -> BOOLEAN]   \* TRUE is a dark pixel

-----------------------------------------------------------------------------
(* parseLinearVals: the extremes of the window; customRound of half of an  *)
(* integer rounds .5 down, so the average is the integer half.             *)
MinVal(frame) == Min({frame[i] : i \in Pixels})
MaxVal(frame) == Max({frame[i] : i \in Pixels})
AvgVal(frame) == (MinVal(frame) + MaxVal(frame)) \div 2

(* linearToBinary: 0 stands for "no threshold yet" and selects the frame's *)
(* own average.                                                            *)
LinearToBinary(frame, partingAvg) ==
  LET threshold == IF partingAvg = 0 THEN AvgVal(frame) ELSE partingAvg
  IN  [i \in Pixels |-> frame[i] < threshold]

(* parseBinaryVals and the solid-line test: blackNum > int(totalNum * 0.7) *)
BlackNum(binary) == Cardinality({i \in Pixels : binary[i]})
TotalNum == cCountEnd - cCountStart + 1
IsSolidDark(binary) == BlackNum(binary) > (TotalNum * 7) \div 10

-----------------------------------------------------------------------------
(* A dark run [left, right] cannot be extended inside the window; it is a  *)
(* track when it is wide enough.                                           *)
IsTrack(binary, left, right) ==
  /\ left <= right
  /\ \A i \in left..right : binary[i]
  /\ left # cCountStart => ~binary[left - 1]
  /\ right # cCountEnd  => ~binary[right + 1]
  /\ right - left + 1 >= cEffectiveLineWidthMin

Tracks(binary) == {run \in Pixels \X Pixels : IsTrack(binary, run[1], run[2])}

(* The middle of a run; of the two middle pixels of an even run, the       *)
(* darker one, and the right one on a tie.                                 *)
MidPixel(frame, left, right) ==
  LET candidate == (left + right) \div 2
  IN  IF (right - left) % 2 = 0 \/ frame[candidate] < frame[candidate + 1]
      THEN candidate
      ELSE candidate + 1

(* getTrackMidPixel: the middle of the leftmost track, -1 without one.     *)
GetTrackMidPixel(frame, binary) ==
  IF Tracks(binary) = {}
  THEN -1
  ELSE LET leftmost == CHOOSE run \in Tracks(binary) :
                         \A other \in Tracks(binary) : run[1] <= other[1]
       IN  MidPixel(frame, leftmost[1], leftmost[2])

(* The pixel's place on the scale 0..128 the steering works on.  The       *)
(* arguments of map are temporaries, so the call resolves to the Arduino   *)
(* core's integer map, not to the template of math.h.                      *)
ToSteeringScale(pixel) ==
  IF cCountStart = cCountEnd
  THEN -1
  ELSE ((pixel - cCountStart) * 128) \div (cCountEnd - cCountStart)

-----------------------------------------------------------------------------
(* The threshold processCCD leaves behind.  Only a NORMAL frame moves it.  *)
(* The mutant keeps the first one for good: the condition that would do so *)
(* is still there in the source, commented out.                            *)
MutantKeepsFirst(status, frame, old) ==
  IF status = STATUS_NORMAL /\ old = 0 THEN AvgVal(frame) ELSE old

NextAverage(status, frame, old) ==
  IF status = STATUS_NORMAL THEN AvgVal(frame) ELSE old

(* processCCD on one frame, given the threshold lastAvailableAverage: the  *)
(* tracing status, the middle of the track (meaningful when NORMAL) and    *)
(* the threshold for the next frame.                                       *)
ProcessCCD(frame, lastAvailableAverage) ==
  LET binary == LinearToBinary(frame, lastAvailableAverage)
      mid    == GetTrackMidPixel(frame, binary)
      status == IF IsSolidDark(binary) THEN STATUS_PLATFORM
                ELSE IF mid = -1       THEN STATUS_NO_TRACK
                                       ELSE STATUS_NORMAL
  IN  [tracingStatus        |-> status,
       trackMidPixel        |-> ToSteeringScale(mid),
       lastAvailableAverage |-> NextAverage(status, frame, lastAvailableAverage)]

=============================================================================
