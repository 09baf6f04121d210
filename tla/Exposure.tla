------------------------------ MODULE Exposure ------------------------------
(***************************************************************************)
(* The exposure of the line camera: the search for the best exposure time  *)
(* at power-on (getBestExplosureTime, src/dep/ccd.h), the choice of the    *)
(* mode it decides (prepareCCD and Task2, src/bupt_car_2.ino), and the     *)
(* time every frame of the tracking loop has been exposed for.             *)
(*                                                                         *)
(* The camera collects light from one start pulse to the next: what a call *)
(* of captrueCCD reads has been exposed since the call before, and the     *)
(* delay at its end exposes the next frame.                                *)
(*                                                                         *)
(* Abstracted: autoTrack, here any sequence of NORMAL frames, stops and a  *)
(* fault (AutoTrack is the model of it); the time to read a frame out; the *)
(* value of a contrast, kept as a fraction, where the code divides floats. *)
(***************************************************************************)
EXTENDS Ccd, Sequences

CONSTANTS
  cExplosureTimeStart,        \* the exposure times tested, in units of time
  cExplosureTimeEnd,
  cExplosureTimePropagation,
  Shots,                      \* the frames the camera may deliver
  Garbage,                    \* what an uninitialized int may hold
  LoopTimes,                  \* how long a turn of the tracking loop may take
  prepareDelay, stopDelay,    \* the delays before the loop and at a platform
  MaxLoops,                   \* bound: turns of the tracking loop
  MaxFrames                   \* bound: frames before a platform is left

recordSize ==
  (cExplosureTimeEnd - cExplosureTimeStart) \div cExplosureTimePropagation + 1

(* The loops over the records count in a uint8_t.                          *)
ASSUME ExposureAssumption ==
  /\ cExplosureTimeStart \in Nat /\ cExplosureTimeEnd \in Nat
  /\ cExplosureTimePropagation \in Nat \ {0}
  /\ recordSize \in 1 .. 255
  /\ Shots \subseteq Frame
  /\ Garbage \subseteq Int /\ Garbage # {}
  /\ LoopTimes \subseteq Nat \ {0}
  /\ prepareDelay \in Nat \ {0} /\ stopDelay \in Nat \ {0}
  /\ MaxLoops \in Nat /\ MaxFrames \in Nat \ {0}

VARIABLES
  pc,                  \* where Task2 is, see TypeOK
  records,             \* getBestExplosureTime's records so far
  compared,            \* how many of them have been compared
  bestRecord,
  maxContrast,
  prevTime,            \* getTime's last time, 0 for none
  prevTimeMs,          \* what it returned
  returnFromPlatform,  \* what autoTrack returned
  loops,               \* turns of the tracking loop
  millis,              \* the time since power-on
  startPulse,          \* when the camera was started last
  evaluated            \* how long the last frame processed was exposed, 0 for none

searchVars == <<records, compared, bestRecord, maxContrast>>
loopVars   == <<prevTime, prevTimeMs, returnFromPlatform, loops>>
cameraVars == <<millis, startPulse, evaluated>>
vars       == <<pc, searchVars, loopVars, cameraVars>>

-----------------------------------------------------------------------------
(* Contrasts are fractions <<min, max>>; the float quotients of two pairs  *)
(* of 12-bit readings are ordered as the fractions are.                    *)
MutantContrast(minVal, maxVal) == <<minVal, maxVal>>
Contrast(minVal, maxVal) == IF maxVal = 0 THEN <<1, 1>> ELSE <<minVal, maxVal>>

Less(a, b) == a[1] * b[2] < b[1] * a[2]

ExplosureTime(i) == cExplosureTimeStart + cExplosureTimePropagation * i

(* One test: a record is valid when its frame, cut with its own average,   *)
(* shows a track.                                                          *)
RecordOf(frame, explosureTime) ==
  [minVal        |-> MinVal(frame),
   maxVal        |-> MaxVal(frame),
   avgVal        |-> AvgVal(frame),
   explosureTime |-> explosureTime,
   isValid       |-> GetTrackMidPixel(frame, LinearToBinary(frame, 0)) # -1,
   contrast      |-> Contrast(MinVal(frame), MaxVal(frame))]

(* minContrast starts at 1 and is the best record's from then on.          *)
MinContrast == IF bestRecord.isValid THEN bestRecord.contrast ELSE <<1, 1>>

(* minContrast < 0.02: the float nearest to 1/50 is below the double 0.02, *)
(* so a contrast of exactly 1/50 passes.                                   *)
VeryDark(contrast) == 50 * contrast[1] <= contrast[2]

(* maxContrast - minContrast > 0.6f, but for a difference of exactly 3/5,  *)
(* where the rounding of the floats decides.                               *)
FarApart(low, high) ==
  5 * (high[1] * low[2] - low[1] * high[2]) > 3 * high[2] * low[2]

(* The mutant forgets the case that no record is valid.                    *)
MutantBlockedByLight ==
  VeryDark(MinContrast) /\ FarApart(MinContrast, maxContrast)

CameraIsBlocked ==
  \/ ~bestRecord.isValid
  \/ VeryDark(MinContrast) /\ FarApart(MinContrast, maxContrast)

(* getTime's result on the mutant's first turn is the time since power-on. *)
MutantTime == millis - prevTime
GetTime == IF prevTime = 0 THEN -1 ELSE millis - prevTime

(* Task2 and autoTrack start the frame afresh on the first turn and on the *)
(* one after a stop, ...                                                   *)
InitStarting == prevTimeMs = -1 \/ returnFromPlatform

(* ... and else expose for this long; it was to be what the last turn of   *)
(* the loop has left of the exposure time.                                 *)
SubstractedExplosureTime == IF 0 - prevTimeMs < 0 THEN 0 ELSE 0 - prevTimeMs

(* processCCD with resetAndExplosure: the frame is exposed for the time    *)
(* given and read; the camera starts again at once.                        *)
ResetAndExplose(explosureTime) ==
  /\ evaluated' = explosureTime
  /\ millis' = millis + explosureTime
  /\ startPulse' = millis'

(* Without: the frame read is the one since the last start pulse.          *)
ReadAndExplose(explosureTime) ==
  /\ evaluated' = millis - startPulse
  /\ startPulse' = millis
  /\ millis' = millis + explosureTime

-----------------------------------------------------------------------------
(* Power-on.  bestRecord and returnFromPlatform are locals of Task2 that   *)
(* nothing initializes; getBestExplosureTime then clears isValid.          *)
Init ==
  /\ pc = "expose"
  /\ records = <<>> /\ compared = 0
  /\ \E garbage \in Garbage :
       bestRecord = [minVal |-> garbage, maxVal |-> garbage, avgVal |-> garbage,
                     explosureTime |-> garbage, isValid |-> FALSE,
                     contrast |-> <<garbage, garbage>>]
  /\ maxContrast = <<0, 1>>
  /\ prevTime = 0 /\ prevTimeMs = -1
  /\ returnFromPlatform \in BOOLEAN
  /\ loops = 0
  /\ millis = 1 /\ startPulse = 0 /\ evaluated = 0

(* captrueCCD(thisExplosureTime): the frame it reads is thrown away ...    *)
Expose ==
  /\ pc = "expose"
  /\ millis' = millis + ExplosureTime(Len(records))
  /\ startPulse' = millis
  /\ pc' = "record"
  /\ UNCHANGED <<searchVars, loopVars, evaluated>>

(* ... captrueCCD(0): the one this reads is judged.                        *)
Record ==
  /\ pc = "record"
  /\ \E frame \in Shots :
       records' = Append(records, RecordOf(frame, millis - startPulse))
  /\ startPulse' = millis
  /\ pc' = IF Len(records') = recordSize THEN "compare" ELSE "expose"
  /\ UNCHANGED <<compared, bestRecord, maxContrast, loopVars, millis, evaluated>>

(* One turn of the loop over the records.  The mutant takes the last one   *)
(* that is valid.                                                          *)
MutantTakesAny(record) == record.isValid
Better(record) == record.isValid /\ Less(record.contrast, MinContrast)

Compare ==
  /\ pc = "compare" /\ compared < recordSize
  /\ LET record == records[compared + 1]
     IN  /\ bestRecord' = IF Better(record) THEN record ELSE bestRecord
         /\ maxContrast' = IF record.isValid /\ Less(maxContrast, record.contrast)
                           THEN record.contrast ELSE maxContrast
  /\ compared' = compared + 1
  /\ UNCHANGED <<pc, records, loopVars, cameraVars>>

(* prepareCCD has its result; the mode is chosen.                          *)
ChooseMode ==
  /\ pc = "compare" /\ compared = recordSize
  /\ pc' = IF CameraIsBlocked THEN "remote" ELSE "loop"
  /\ millis' = millis + prepareDelay
  /\ UNCHANGED <<searchVars, loopVars, startPulse, evaluated>>

-----------------------------------------------------------------------------
LoopTop ==
  /\ pc = "loop" /\ loops < MaxLoops
  /\ loops' = loops + 1
  /\ prevTimeMs' = GetTime
  /\ prevTime' = millis
  /\ pc' = "capture"
  /\ UNCHANGED <<searchVars, returnFromPlatform, cameraVars>>

Capture ==
  /\ pc = "capture"
  /\ IF InitStarting THEN ResetAndExplose(bestRecord.explosureTime)
                     ELSE ReadAndExplose(SubstractedExplosureTime)
  /\ pc' \in {"normal", "platform", "fault"}
  /\ UNCHANGED <<searchVars, loopVars>>

TrackNormal ==
  /\ pc = "normal"
  /\ \E work \in LoopTimes : millis' = millis + work
  /\ returnFromPlatform' = FALSE
  /\ pc' = "loop"
  /\ UNCHANGED <<searchVars, prevTime, prevTimeMs, loops, startPulse, evaluated>>

(* A stop, at its end the discarded frame, ...                             *)
StopAtPlatform ==
  /\ pc = "platform"
  /\ evaluated' = bestRecord.explosureTime
  /\ millis' = millis + stopDelay + bestRecord.explosureTime
  /\ startPulse' = millis'
  /\ pc' = "leaving"
  /\ UNCHANGED <<searchVars, loopVars>>

(* ... then one frame after the other until one is NORMAL.                 *)
LeavePlatform ==
  /\ pc = "leaving"
  /\ evaluated' = bestRecord.explosureTime
  /\ \E frames \in 1 .. MaxFrames :
       millis' = millis + frames * bestRecord.explosureTime
  /\ startPulse' = millis'
  /\ returnFromPlatform' = TRUE
  /\ pc' = "loop"
  /\ UNCHANGED <<searchVars, prevTime, prevTimeMs, loops>>

Next ==
  \/ Expose \/ Record \/ Compare \/ ChooseMode
  \/ LoopTop \/ Capture \/ TrackNormal \/ StopAtPlatform \/ LeavePlatform

Spec == Init /\ [][Next]_vars

-----------------------------------------------------------------------------
Tracking == {"loop", "capture", "normal", "platform", "leaving", "fault"}

Fractions == Nat \X (Nat \ {0})

Records ==
  [minVal : 0 .. cMaxReading, maxVal : 0 .. cMaxReading, avgVal : 0 .. cMaxReading,
   explosureTime : Nat, isValid : BOOLEAN, contrast : Fractions]

TypeOK ==
  /\ pc \in {"expose", "record", "compare", "remote"} \cup Tracking
  /\ records \in Seq(Records) /\ Len(records) \in 0 .. recordSize
  /\ compared \in 0 .. recordSize
  /\ bestRecord.isValid \in BOOLEAN
  /\ bestRecord.isValid => bestRecord \in Records
  /\ maxContrast \in Fractions
  /\ prevTime \in 0 .. millis /\ prevTimeMs \in Nat \cup {-1}
  /\ returnFromPlatform \in BOOLEAN
  /\ loops \in 0 .. MaxLoops
  /\ millis \in Nat \ {0} /\ startPulse \in 0 .. millis
  /\ evaluated \in Nat

(* The best record is a valid one of those compared, the first of least    *)
(* contrast; there is none only if none of them is valid: a record with a  *)
(* track has a contrast below the 1 that minContrast starts with.          *)
BestIsBest ==
  LET Valid == {k \in 1 .. compared : records[k].isValid}
  IN  IF bestRecord.isValid
      THEN \E best \in Valid :
             /\ bestRecord = records[best]
             /\ \A k \in Valid :
                  /\ ~Less(records[k].contrast, bestRecord.contrast)
                  /\ k < best => Less(bestRecord.contrast, records[k].contrast)
      ELSE Valid = {}

(* The tracking loop exposes its frames for a time that was tested and     *)
(* found to show a track, never for what an uninitialized bestRecord holds.*)
TrackingHasRecord ==
  pc \in Tracking =>
    \E k \in DOMAIN records :
      bestRecord = records[k] /\ records[k].isValid
        /\ records[k].explosureTime = ExplosureTime(k - 1)

(* No frame that is judged has been exposed across one of the long delays, *)
(* before the loop or at a platform.                                       *)
FreshExposure ==
  evaluated # 0 => evaluated \in LoopTimes \/ evaluated = bestRecord.explosureTime

(* bupt_car_2.ino: "we use the excecution time of other functions to       *)
(* compensate the ccd explosure time": the two together expose a frame for *)
(* the exposure time found.                                                *)
Compensated ==
  evaluated # 0 => evaluated >= bestRecord.explosureTime

=============================================================================
