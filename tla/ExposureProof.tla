---------------------------- MODULE ExposureProof ----------------------------
(***************************************************************************)
(* The search for the exposure time finds the best record, and the         *)
(* tracking loop is never entered without one: for any exposure times, any *)
(* camera and any uninitialized memory.                                    *)
(***************************************************************************)
EXTENDS Exposure, CcdProof

(* Fractions are ordered.                                                  *)
LEMMA LessIrreflexive == ASSUME NEW a \in Fractions PROVE ~Less(a, a)
  BY DEF Less, Fractions

LEMMA LessAsymmetric ==
  ASSUME NEW a \in Fractions, NEW b \in Fractions, Less(a, b)
  PROVE  ~Less(b, a)
  BY DEF Less, Fractions

(* Cancelling a positive factor.                                           *)
LEMMA Cancel ==
  ASSUME NEW x \in Int, NEW y \in Int, NEW k \in Nat \ {0}, x * k < y * k
  PROVE  x < y
<1> SUFFICES ASSUME y <= x PROVE FALSE
  OBVIOUS
<1>1. x - y \in Nat
  OBVIOUS
<1>2. (x - y) * k >= 0
  BY <1>1
<1>3. (x - y) * k = x * k - y * k
  OBVIOUS
<1> QED BY <1>2, <1>3

LEMMA Scale ==
  ASSUME NEW x \in Int, NEW y \in Int, NEW k \in Nat, x <= y
  PROVE  x * k <= y * k /\ (k # 0 /\ x < y => x * k < y * k)
<1>1. (y - x) * k = y * k - x * k
  OBVIOUS
<1>2. y - x \in Nat /\ (y - x) * k >= 0
  OBVIOUS
<1>3. ASSUME k # 0, x < y PROVE (y - x) * k > 0
  <2>1. y - x \in Nat \ {0} /\ k \in Nat \ {0}
    BY <1>3
  <2> QED BY <2>1
<1> QED BY <1>1, <1>2, <1>3

LEMMA LessTransitive ==
  ASSUME NEW a \in Fractions, NEW b \in Fractions, NEW c \in Fractions,
         Less(a, b), ~Less(c, b)
  PROVE  Less(a, c)
<1> DEFINE an == a[1]  ad == a[2]
           bn == b[1]  bd == b[2]
           cn == c[1]  cd == c[2]
<1>1. /\ an \in Nat /\ bn \in Nat /\ cn \in Nat
      /\ ad \in Nat \ {0} /\ bd \in Nat \ {0} /\ cd \in Nat \ {0}
  BY DEF Fractions
<1>2. an * bd < bn * ad /\ bn * cd <= cn * bd
  BY <1>1 DEF Less
<1> HIDE DEF an, ad, bn, bd, cn, cd
<1>3. /\ an * bd \in Int /\ bn * ad \in Int /\ bn * cd \in Int /\ cn * bd \in Int
      /\ an * cd \in Int /\ cn * ad \in Int
  BY <1>1
<1>4. (an * bd) * cd < (bn * ad) * cd
  BY <1>1, <1>2, <1>3, Scale
<1>5. (bn * cd) * ad <= (cn * bd) * ad
  BY <1>1, <1>2, <1>3, Scale
<1>6. /\ (an * bd) * cd = (an * cd) * bd
      /\ (bn * ad) * cd = (bn * cd) * ad
      /\ (cn * bd) * ad = (cn * ad) * bd
  BY <1>1
<1>7. (an * cd) * bd < (cn * ad) * bd
  <2> DEFINE left == (an * cd) * bd
             middle == (bn * ad) * cd
             right == (cn * ad) * bd
  <2>1. left < middle /\ middle <= right
    BY <1>4, <1>5, <1>6
  <2>2. left \in Int /\ middle \in Int /\ right \in Int
    BY <1>1, <1>3
  <2> HIDE DEF left, middle, right
  <2>3. left < right
    BY <2>1, <2>2
  <2> QED BY <2>3 DEF left, right
<1>8. an * cd < cn * ad
  BY <1>1, <1>3, <1>7, Cancel
<1> QED BY <1>8 DEF Less, an, ad, cn, cd

-----------------------------------------------------------------------------
(* A record holds what its type says, and one that shows a track has a     *)
(* contrast below 1.                                                       *)
LEMMA RecordType ==
  ASSUME NEW frame \in Shots, NEW time \in Nat
  PROVE  LET record == RecordOf(frame, time)
         IN  /\ record \in Records
             /\ record.isValid => Less(record.contrast, <<1, 1>>)
<1> DEFINE low == MinVal(frame)
           high == MaxVal(frame)
           valid == GetTrackMidPixel(frame, LinearToBinary(frame, 0)) # -1
<1>1. frame \in Frame
  BY ExposureAssumption
<1>2. low \in 0 .. cMaxReading /\ high \in 0 .. cMaxReading /\ cMaxReading \in Nat
  <2> DEFINE S == {frame[i] : i \in Pixels}
  <2>1. S \in SUBSET (0 .. cMaxReading) /\ S # {} /\ cMaxReading \in Nat
    BY <1>1, WindowAssumption DEF Frame, Pixels
  <2> QED BY <2>1, ExtremesExist DEF MinVal, MaxVal
<1>3. AvgVal(frame) \in 0 .. cMaxReading
  BY <1>1, AvgType
<1>4. valid => low < high
  BY <1>1, TrackHasContrast
<1>5. valid \in BOOLEAN
  OBVIOUS
<1> HIDE DEF low, high, valid
<1>6. Contrast(low, high) \in Fractions
  BY <1>2 DEF Contrast, Fractions
<1>7. valid => Less(Contrast(low, high), <<1, 1>>)
  BY <1>2, <1>4 DEF Contrast, Less
<1> QED BY <1>2, <1>3, <1>5, <1>6, <1>7 DEF RecordOf, Records, low, high, valid

-----------------------------------------------------------------------------
(* What the search has established: each record is that of its exposure    *)
(* time, ...                                                               *)
RecordsRight ==
  \A k \in 1 .. Len(records) :
    /\ records[k].explosureTime = ExplosureTime(k - 1)
    /\ records[k].isValid => Less(records[k].contrast, <<1, 1>>)

(* ... and the phases follow each other: all are made, then all compared.  *)
Phases ==
  /\ pc \in {"expose", "record"} => compared = 0 /\ Len(records) < recordSize
  /\ pc = "record" => millis - startPulse = ExplosureTime(Len(records))
  /\ pc \notin {"expose", "record"} => Len(records) = recordSize
  /\ pc \notin {"expose", "record", "compare"} => compared = recordSize
  /\ pc \in Tracking => bestRecord.isValid

SearchInv == TypeOK /\ RecordsRight /\ Phases /\ BestIsBest

LEMMA ExplosureTimeType ==
  ASSUME NEW i \in Nat
  PROVE  ExplosureTime(i) \in Nat
  BY ExposureAssumption DEF ExplosureTime

LEMMA InitSearchInv == Init => SearchInv
<1> SUFFICES ASSUME Init PROVE SearchInv
  OBVIOUS
<1>1. TypeOK
  BY ExposureAssumption DEF Init, TypeOK, Fractions
<1>2. RecordsRight
  BY DEF Init, RecordsRight
<1>3. Phases
  BY ExposureAssumption DEF Init, Phases, Tracking
<1>4. BestIsBest
  BY DEF Init, BestIsBest
<1> QED BY <1>1, <1>2, <1>3, <1>4 DEF SearchInv

(* The steps that leave the search's variables alone keep its results.     *)
LEMMA SearchUnchanged ==
  ASSUME RecordsRight, BestIsBest, UNCHANGED searchVars
  PROVE  RecordsRight' /\ BestIsBest'
  BY DEF searchVars, RecordsRight, BestIsBest

LEMMA ExposeStep ==
  ASSUME SearchInv, Expose
  PROVE  SearchInv'
<1> USE DEF SearchInv, Expose, loopVars
<1>1. RecordsRight' /\ BestIsBest'
  BY SearchUnchanged
<1>2. ExplosureTime(Len(records)) \in Nat
  BY ExplosureTimeType DEF TypeOK
<1>3. TypeOK'
  BY <1>2 DEF TypeOK, searchVars
<1>4. Phases'
  BY <1>2 DEF Phases, TypeOK, searchVars, Tracking
<1> QED BY <1>1, <1>3, <1>4

LEMMA RecordStep ==
  ASSUME SearchInv, Record
  PROVE  SearchInv'
<1> USE DEF SearchInv, loopVars
<1>1. PICK frame \in Shots :
        records' = Append(records, RecordOf(frame, millis - startPulse))
  BY DEF Record
<1> DEFINE time == millis - startPulse
           record == RecordOf(frame, time)
<1>2. /\ pc = "record" /\ Len(records) \in Nat /\ records \in Seq(Records)
      /\ Len(records) < recordSize /\ compared = 0
      /\ time = ExplosureTime(Len(records)) /\ recordSize \in Nat
  BY ExposureAssumption DEF Record, Phases, TypeOK
<1>3. time \in Nat
  BY <1>2, ExplosureTimeType
<1>4. record \in Records /\ (record.isValid => Less(record.contrast, <<1, 1>>))
  BY <1>3, RecordType
<1>5. record.explosureTime = time
  BY DEF RecordOf
<1> HIDE DEF record, time
<1>6. records' = Append(records, record)
  BY <1>1 DEF record, time
<1>7. /\ records' \in Seq(Records) /\ Len(records') = Len(records) + 1
      /\ \A k \in 1 .. Len(records) : records'[k] = records[k]
      /\ records'[Len(records) + 1] = record
  BY <1>2, <1>4, <1>6
<1>8. TypeOK'
  <2>1. Len(records') \in 0 .. recordSize
    BY <1>2, <1>7
  <2> QED BY <1>7, <2>1 DEF Record, TypeOK
<1>9. RecordsRight'
  <2> SUFFICES ASSUME NEW k \in 1 .. Len(records')
               PROVE  /\ records'[k].explosureTime = ExplosureTime(k - 1)
                      /\ records'[k].isValid => Less(records'[k].contrast, <<1, 1>>)
    BY DEF RecordsRight
  <2>1. CASE k = Len(records) + 1
    BY <2>1, <1>2, <1>4, <1>5, <1>7
  <2>2. CASE k \in 1 .. Len(records)
    BY <2>2, <1>7 DEF RecordsRight
  <2> QED BY <2>1, <2>2, <1>2, <1>7
<1>10. Phases'
  <2>1. CASE Len(records') = recordSize
    <3>1. pc' = "compare" /\ compared' = 0
      BY <2>1, <1>2 DEF Record
    <3> QED BY <2>1, <3>1 DEF Phases, Tracking
  <2>2. CASE Len(records') # recordSize
    <3>1. pc' = "expose" /\ compared' = 0
      BY <2>2, <1>2 DEF Record
    <3>2. Len(records') < recordSize
      BY <2>2, <1>2, <1>7
    <3> QED BY <3>1, <3>2 DEF Phases, Tracking
  <2> QED BY <2>1, <2>2
<1>11. BestIsBest'
  <2>1. compared' = 0 /\ compared = 0 /\ bestRecord' = bestRecord
    BY <1>2 DEF Record
  <2>2. ~bestRecord.isValid
    BY <2>1 DEF BestIsBest
  <2> QED BY <2>1, <2>2 DEF BestIsBest
<1> QED BY <1>8, <1>9, <1>10, <1>11

(* The heart of the search: the comparison of one more record.             *)
LEMMA CompareKeepsBest ==
  ASSUME SearchInv, Compare
  PROVE  BestIsBest'
<1> DEFINE n == compared
           record == records[n + 1]
           Valid(m) == {k \in 1 .. m : records[k].isValid}
           best == bestRecord
<1>1. /\ n \in Nat /\ n + 1 \in 1 .. Len(records) /\ compared' = n + 1
      /\ records' = records /\ Len(records) \in Nat
  <2>1. Len(records) = recordSize /\ n \in Nat /\ n < recordSize /\ recordSize \in Nat
    BY ExposureAssumption DEF SearchInv, TypeOK, Phases, Compare
  <2> QED BY <2>1 DEF Compare
<1>2. \A k \in 1 .. n + 1 : records[k].contrast \in Fractions /\ records[k] \in Records
  <2>1. \A k \in 1 .. Len(records) : records[k] \in Records
    BY DEF SearchInv, TypeOK
  <2> QED BY <1>1, <2>1 DEF Records
<1>3. record.isValid => Less(record.contrast, <<1, 1>>)
  BY <1>1 DEF SearchInv, RecordsRight
<1>4. bestRecord' = IF Better(record) THEN record ELSE best
  BY DEF Compare
<1>5. IF best.isValid
      THEN \E b \in Valid(n) :
             /\ best = records[b]
             /\ \A k \in Valid(n) :
                  /\ ~Less(records[k].contrast, best.contrast)
                  /\ k < b => Less(best.contrast, records[k].contrast)
      ELSE Valid(n) = {}
  BY DEF SearchInv, BestIsBest
<1>6. SUFFICES IF bestRecord'.isValid
               THEN \E b \in Valid(n + 1) :
                      /\ bestRecord' = records[b]
                      /\ \A k \in Valid(n + 1) :
                           /\ ~Less(records[k].contrast, bestRecord'.contrast)
                           /\ k < b => Less(bestRecord'.contrast, records[k].contrast)
               ELSE Valid(n + 1) = {}
  BY <1>1 DEF BestIsBest
<1>7. \A k \in Valid(n + 1) : k \in Valid(n) \/ k = n + 1
  BY <1>1
<1>8. CASE Better(record)
  <2>1. bestRecord' = record /\ record.isValid /\ n + 1 \in Valid(n + 1)
    BY <1>1, <1>4, <1>8 DEF Better
  <2>2. Less(record.contrast, MinContrast)
    BY <1>8 DEF Better
  <2>3. ASSUME NEW k \in Valid(n)
        PROVE  ~Less(records[k].contrast, record.contrast)
               /\ Less(record.contrast, records[k].contrast)
    <3>1. best.isValid /\ ~Less(records[k].contrast, best.contrast)
      BY <1>5
    <3>2. best.contrast \in Fractions /\ Less(record.contrast, best.contrast)
      BY <1>2, <1>5, <2>2, <3>1, <1>1 DEF MinContrast
    <3>3. records[k].contrast \in Fractions /\ record.contrast \in Fractions
      BY <1>1, <1>2
    <3>4. Less(record.contrast, records[k].contrast)
      BY <3>1, <3>2, <3>3, LessTransitive
    <3> QED BY <3>3, <3>4, LessAsymmetric
  <2>4. ~Less(record.contrast, record.contrast)
    BY <1>1, <1>2, LessIrreflexive
  <2> HIDE DEF record, Valid
  <2>5. \A k \in Valid(n + 1) :
          /\ ~Less(records[k].contrast, record.contrast)
          /\ k < n + 1 => Less(record.contrast, records[k].contrast)
    BY <1>1, <1>7, <2>3, <2>4 DEF record
  <2> QED BY <2>1, <2>5 DEF record
<1>9. CASE ~Better(record) /\ ~record.isValid
  <2>1. Valid(n + 1) = Valid(n) /\ bestRecord' = best
    BY <1>1, <1>4, <1>9
  <2> HIDE DEF Valid
  <2> QED BY <1>5, <2>1
<1>10. CASE ~Better(record) /\ record.isValid
  <2>1. bestRecord' = best /\ ~Less(record.contrast, MinContrast)
    BY <1>4, <1>10 DEF Better
  <2>2. best.isValid /\ ~Less(record.contrast, best.contrast)
    BY <1>3, <1>10, <2>1 DEF MinContrast
  <2>3. PICK b \in Valid(n) :
          /\ best = records[b]
          /\ \A k \in Valid(n) :
               /\ ~Less(records[k].contrast, best.contrast)
               /\ k < b => Less(best.contrast, records[k].contrast)
    BY <1>5, <2>2
  <2>4. b \in Valid(n + 1) /\ ~(n + 1 < b)
    BY <1>1, <2>3
  <2>5. \A k \in Valid(n + 1) :
          /\ ~Less(records[k].contrast, best.contrast)
          /\ k < b => Less(best.contrast, records[k].contrast)
    <3> HIDE DEF Valid
    <3> QED BY <1>7, <2>2, <2>3, <2>4
  <2> QED BY <2>1, <2>2, <2>3, <2>4, <2>5
<1> QED BY <1>8, <1>9, <1>10

LEMMA CompareStep ==
  ASSUME SearchInv, Compare
  PROVE  SearchInv'
<1> DEFINE record == records[compared + 1]
<1>1. BestIsBest'
  BY CompareKeepsBest
<1>2. record \in Records
  <2>1. compared + 1 \in 1 .. Len(records) /\ records \in Seq(Records)
    BY ExposureAssumption DEF SearchInv, TypeOK, Phases, Compare
  <2> QED BY <2>1
<1>3. /\ bestRecord' = record \/ bestRecord' = bestRecord
      /\ maxContrast' = record.contrast \/ maxContrast' = maxContrast
  BY DEF Compare
<1> HIDE DEF record
<1>4. TypeOK'
  <2>1. compared' \in 0 .. recordSize
    BY ExposureAssumption DEF Compare, SearchInv, TypeOK
  <2>2. /\ bestRecord'.isValid \in BOOLEAN
        /\ bestRecord'.isValid => bestRecord' \in Records
        /\ maxContrast' \in Fractions
    BY <1>2, <1>3 DEF SearchInv, TypeOK, Records
  <2> QED BY <2>1, <2>2 DEF Compare, SearchInv, TypeOK, loopVars, cameraVars
<1>5. RecordsRight' /\ Phases'
  BY DEF Compare, SearchInv, RecordsRight, Phases, Tracking
<1> QED BY <1>1, <1>4, <1>5 DEF SearchInv

(* The other steps only need the best record's time to be a time.          *)
LEMMA LaterSteps ==
  ASSUME SearchInv,
         ChooseMode \/ LoopTop \/ Capture \/ TrackNormal \/ StopAtPlatform
           \/ LeavePlatform
  PROVE  SearchInv'
<1> USE DEF SearchInv
<1>1. UNCHANGED searchVars
  BY DEF ChooseMode, LoopTop, Capture, TrackNormal, StopAtPlatform, LeavePlatform
<1>2. RecordsRight' /\ BestIsBest'
  BY <1>1, SearchUnchanged
<1>3. pc \in Tracking => bestRecord.explosureTime \in Nat
  BY DEF Phases, TypeOK, Records
<1>4. Phases'
  <2>1. /\ pc \notin {"expose", "record"} /\ pc' \notin {"expose", "record", "compare"}
        /\ pc' \in Tracking => bestRecord.isValid
        /\ compared = recordSize
    BY DEF ChooseMode, LoopTop, Capture, TrackNormal, StopAtPlatform,
           LeavePlatform, Phases, Tracking, CameraIsBlocked
  <2> QED BY <1>1, <2>1 DEF Phases, searchVars
<1>5. TypeOK'
  <2>1. CASE ChooseMode
    <3>1. millis' \in Nat \ {0} /\ {startPulse', prevTime} \subseteq 0 .. millis'
      BY <2>1, ExposureAssumption DEF ChooseMode, TypeOK
    <3> QED BY <1>1, <2>1, <3>1 DEF ChooseMode, TypeOK, searchVars, loopVars, Tracking
  <2>2. CASE LoopTop
    <3>1. prevTimeMs' \in Nat \cup {-1} /\ prevTime' \in 0 .. millis
      BY <2>2 DEF LoopTop, GetTime, TypeOK
    <3>2. loops' \in 0 .. MaxLoops
      BY <2>2, ExposureAssumption DEF LoopTop, TypeOK
    <3> QED BY <1>1, <2>2, <3>1, <3>2 DEF LoopTop, TypeOK, searchVars, cameraVars, Tracking
  <2>3. CASE Capture
    <3>1. SubstractedExplosureTime \in Nat
      BY DEF SubstractedExplosureTime, TypeOK
    <3>2. /\ millis' \in Nat \ {0} /\ {startPulse', prevTime} \subseteq 0 .. millis'
          /\ evaluated' \in Nat
      BY <1>3, <2>3, <3>1 DEF Capture, ResetAndExplose, ReadAndExplose, TypeOK, Tracking
    <3> QED BY <1>1, <2>3, <3>2 DEF Capture, TypeOK, searchVars, loopVars, Tracking
  <2>4. CASE TrackNormal
    <3>1. millis' \in Nat \ {0} /\ {startPulse', prevTime} \subseteq 0 .. millis'
      BY <2>4, ExposureAssumption DEF TrackNormal, TypeOK
    <3> QED BY <1>1, <2>4, <3>1 DEF TrackNormal, TypeOK, searchVars, Tracking
  <2>5. CASE StopAtPlatform
    <3>1. /\ millis' \in Nat \ {0} /\ {startPulse', prevTime} \subseteq 0 .. millis'
          /\ evaluated' \in Nat
      BY <1>3, <2>5, ExposureAssumption DEF StopAtPlatform, TypeOK, Tracking
    <3> QED BY <1>1, <2>5, <3>1 DEF StopAtPlatform, TypeOK, searchVars, loopVars, Tracking
  <2>6. CASE LeavePlatform
    <3>1. PICK frames \in 1 .. MaxFrames :
            millis' = millis + frames * bestRecord.explosureTime
      BY <2>6 DEF LeavePlatform
    <3> DEFINE wait == frames * bestRecord.explosureTime
    <3>2. wait \in Nat /\ millis' = millis + wait
      BY <1>3, <2>6, <3>1, ExposureAssumption DEF LeavePlatform, Tracking
    <3> HIDE DEF wait
    <3>3. /\ millis' \in Nat \ {0} /\ {startPulse', prevTime} \subseteq 0 .. millis'
          /\ evaluated' \in Nat
      BY <1>3, <2>6, <3>2 DEF LeavePlatform, TypeOK, Tracking
    <3> QED BY <1>1, <2>6, <3>3 DEF LeavePlatform, TypeOK, searchVars, Tracking
  <2> QED BY <2>1, <2>2, <2>3, <2>4, <2>5, <2>6
<1> QED BY <1>2, <1>4, <1>5

LEMMA SearchInvStep == SearchInv /\ [Next]_vars => SearchInv'
<1> SUFFICES ASSUME SearchInv, [Next]_vars PROVE SearchInv'
  OBVIOUS
<1>1. CASE Expose
  BY <1>1, ExposeStep
<1>2. CASE Record
  BY <1>2, RecordStep
<1>3. CASE Compare
  BY <1>3, CompareStep
<1>4. CASE UNCHANGED vars
  <2>1. RecordsRight' /\ BestIsBest'
    BY <1>4, SearchUnchanged DEF vars, SearchInv
  <2>2. TypeOK' /\ Phases'
    BY <1>4 DEF vars, searchVars, loopVars, cameraVars, SearchInv, TypeOK, Phases
  <2> QED BY <2>1, <2>2 DEF SearchInv
<1> QED BY <1>1, <1>2, <1>3, <1>4, LaterSteps DEF Next

(* Every variable keeps its type.                                          *)
THEOREM TypeCorrect == Spec => []TypeOK
<1>1. SearchInv => TypeOK
  BY DEF SearchInv
<1> QED BY <1>1, InitSearchInv, SearchInvStep, PTL DEF Spec

(* The search returns the first valid record of least contrast, and fails  *)
(* only when no record is valid.                                           *)
THEOREM SearchCorrect == Spec => []BestIsBest
<1>1. SearchInv => BestIsBest
  BY DEF SearchInv
<1> QED BY <1>1, InitSearchInv, SearchInvStep, PTL DEF Spec

(* So the tracking loop has an exposure time that was tested and showed a  *)
(* track.                                                                  *)
THEOREM TrackingRecord == Spec => []TrackingHasRecord
<1>1. SearchInv => TrackingHasRecord
  <2> SUFFICES ASSUME SearchInv, pc \in Tracking
               PROVE  \E k \in DOMAIN records :
                        bestRecord = records[k] /\ records[k].isValid
                          /\ records[k].explosureTime = ExplosureTime(k - 1)
    BY DEF TrackingHasRecord
  <2>1. compared = Len(records) /\ bestRecord.isValid
    BY DEF SearchInv, Phases, Tracking
  <2>2. PICK k \in 1 .. compared : records[k].isValid /\ bestRecord = records[k]
    BY <2>1 DEF SearchInv, BestIsBest
  <2>3. k \in 1 .. Len(records) /\ records[k].explosureTime = ExplosureTime(k - 1)
    BY <2>1, <2>2 DEF SearchInv, RecordsRight
  <2>4. k \in DOMAIN records
    BY <2>3 DEF SearchInv, TypeOK
  <2> QED BY <2>2, <2>3, <2>4
<1> QED BY <1>1, InitSearchInv, SearchInvStep, PTL DEF Spec

-----------------------------------------------------------------------------
(* Between two frames that are not started afresh lies one turn of the     *)
(* loop and nothing else.                                                  *)
FreshInv ==
  /\ FreshExposure
  /\ pc \notin Tracking => evaluated = 0
  /\ pc = "loop" /\ prevTime # 0 /\ ~returnFromPlatform
       => millis - startPulse \in LoopTimes
  /\ pc = "capture" /\ ~InitStarting => millis - startPulse \in LoopTimes
  /\ pc = "normal" => startPulse = millis
  /\ prevTime = 0 => pc \notin Tracking \ {"loop"}
  /\ pc \in {"expose", "record", "compare"} => prevTime = 0

LEMMA FreshStep ==
  ASSUME SearchInv, FreshInv, [Next]_vars
  PROVE  FreshInv'
<1> USE DEF FreshInv, FreshExposure, Tracking
<1>1. CASE Expose \/ Record \/ Compare \/ ChooseMode
  BY <1>1 DEF Expose, Record, Compare, ChooseMode, loopVars, cameraVars
<1>2. CASE LoopTop
  <2>1. pc = "loop" /\ pc' = "capture" /\ prevTime' = millis /\ millis # 0
    BY <1>2 DEF LoopTop, SearchInv, TypeOK
  <2>2. ~InitStarting' => prevTime # 0 /\ ~returnFromPlatform
    BY <1>2 DEF LoopTop, InitStarting, GetTime
  <2> QED BY <1>2, <2>1, <2>2 DEF LoopTop, searchVars, cameraVars
<1>3. CASE Capture
  <2>1. pc = "capture" /\ prevTime # 0 /\ prevTime' = prevTime
        /\ pc' \in {"normal", "platform", "fault"} /\ bestRecord' = bestRecord
    BY <1>3 DEF Capture, searchVars, loopVars
  <2>2. CASE InitStarting
    BY <1>3, <2>1, <2>2 DEF Capture, ResetAndExplose
  <2>3. CASE ~InitStarting
    <3>1. SubstractedExplosureTime = 0
      BY <2>3 DEF InitStarting, SubstractedExplosureTime, SearchInv, TypeOK
    <3>2. evaluated' \in LoopTimes /\ startPulse' = millis'
      BY <1>3, <2>1, <2>3, <3>1 DEF Capture, ReadAndExplose, SearchInv, TypeOK
    <3> QED BY <2>1, <3>2
  <2> QED BY <2>2, <2>3
<1>4. CASE TrackNormal
  <2>1. PICK work \in LoopTimes : millis' = millis + work
    BY <1>4 DEF TrackNormal
  <2>2. millis' - startPulse' = work
    BY <1>4, <2>1, ExposureAssumption DEF TrackNormal, SearchInv, TypeOK
  <2> QED BY <1>4, <2>2 DEF TrackNormal, searchVars
<1>5. CASE StopAtPlatform
  BY <1>5 DEF StopAtPlatform, searchVars, loopVars
<1>6. CASE LeavePlatform
  BY <1>6 DEF LeavePlatform, searchVars
<1>7. CASE UNCHANGED vars
  BY <1>7 DEF vars, searchVars, loopVars, cameraVars, InitStarting
<1> QED BY <1>1, <1>2, <1>3, <1>4, <1>5, <1>6, <1>7 DEF Next

(* A frame that is judged was exposed for the best time found or for one   *)
(* turn of the loop, never across a long delay.                            *)
THEOREM ExposureFresh == Spec => []FreshExposure
<1>1. Init => FreshInv
  BY DEF Init, FreshInv, FreshExposure, Tracking
<1>2. SearchInv /\ FreshInv /\ [Next]_vars => FreshInv'
  BY FreshStep
<1>3. FreshInv => FreshExposure
  BY DEF FreshInv
<1> QED BY <1>1, <1>2, <1>3, InitSearchInv, SearchInvStep, PTL DEF Spec

=============================================================================
