--------------------------- MODULE AutoTrackProof ---------------------------
(***************************************************************************)
(* Type correctness of AutoTrack, the invariant that ties the package and  *)
(* the location to the visits, the implementation of Patrol and, through   *)
(* it, the correctness of the Bluetooth stream: for any number of          *)
(* platforms, any line, camera and light, and whatever the world does.     *)
(* Last, that the stops are in order where line and light allow it.        *)
(***************************************************************************)
EXTENDS AutoTrack, CcdProof

(* The arithmetic of platforms and circles.  Quotient and remainder are    *)
(* unique.                                                                 *)
LEMMA DivModUnique ==
  ASSUME NEW n \in Nat \ {0}, NEW q \in Int, NEW r \in 0 .. n - 1
  PROVE  (n * q + r) \div n = q /\ (n * q + r) % n = r
<1> DEFINE a == n * q + r
           d == a \div n
           m == a % n
<1>1. a \in Int /\ d \in Int /\ m \in 0 .. n - 1 /\ a = n * d + m
  <2>1. a \in Int
    OBVIOUS
  <2> HIDE DEF a
  <2> QED BY <2>1, DivMod
<1>2. n * (d - q) = r - m /\ n * (q - d) = m - r
  BY <1>1
<1>3. ~(d - q >= 1)
  BY <1>1, <1>2, PositiveMultiple
<1>4. ~(q - d >= 1)
  BY <1>1, <1>2, PositiveMultiple
<1>5. d = q
  BY <1>1, <1>3, <1>4
<1> QED BY <1>1, <1>5

(* Counting one further either stays in the circle or begins the next one. *)
LEMMA DivModSuccessor ==
  ASSUME NEW n \in Nat \ {0}, NEW a \in Nat
  PROVE  /\ (a + 1) % n # 0 => /\ (a + 1) \div n = a \div n
                               /\ (a + 1) % n = (a % n) + 1
         /\ (a + 1) % n = 0 => /\ (a + 1) \div n = (a \div n) + 1
                               /\ a % n = n - 1
<1> DEFINE q == a \div n
           r == a % n
<1>1. q \in Int /\ r \in 0 .. n - 1 /\ a = n * q + r
  BY DivMod
<1>2. CASE r = n - 1
  <2>1. a + 1 = n * (q + 1) + 0 /\ q + 1 \in Int /\ 0 \in 0 .. n - 1
    BY <1>1, <1>2
  <2>2. /\ (n * (q + 1) + 0) \div n = q + 1
        /\ (n * (q + 1) + 0) % n = 0
    <3> HIDE DEF q, r
    <3> QED BY <2>1, DivModUnique
  <2>3. (a + 1) \div n = q + 1 /\ (a + 1) % n = 0
    BY <2>1, <2>2
  <2> QED BY <1>2, <2>3
<1>3. CASE r # n - 1
  <2>1. a + 1 = n * q + (r + 1) /\ r + 1 \in 0 .. n - 1
    BY <1>1, <1>3
  <2>2. (a + 1) \div n = q /\ (a + 1) % n = r + 1
    BY <1>1, <2>1, DivModUnique
  <2> QED BY <1>1, <2>2
<1> QED BY <1>2, <1>3

(* Numbers less than n apart have different remainders.                    *)
LEMMA RemaindersDiffer ==
  ASSUME NEW n \in Nat \ {0}, NEW a \in Int, NEW b \in Int, a < b, b < a + n
  PROVE  a % n # b % n
<1> SUFFICES ASSUME a % n = b % n PROVE FALSE
  OBVIOUS
<1> DEFINE p == a \div n
           q == b \div n
           r == a % n
<1>1. p \in Int /\ q \in Int /\ r \in Int /\ a = n * p + r /\ b = n * q + r
  BY DivMod
<1> HIDE DEF p, q, r
<1>2. n * (q - p) = b - a
  BY <1>1
<1>3. ~(q - p >= 1)
  BY <1>1, <1>2, PositiveMultiple
<1>4. q - p <= 0
  BY <1>1, <1>3
<1>5. CASE q = p
  BY <1>1, <1>5
<1>6. CASE p - q >= 1
  <2>1. n * (p - q) >= n
    BY <1>1, <1>6, PositiveMultiple
  <2>2. n * (p - q) = a - b
    BY <1>1
  <2> QED BY <2>1, <2>2
<1> QED BY <1>1, <1>4, <1>5, <1>6

(* n announcements and a report to a round: the first m messages hold no   *)
(* more reports than there are whole rounds.                               *)
LEMMA ReportsInStream ==
  ASSUME NEW n \in Nat \ {0}, NEW visits \in Nat, NEW m \in Nat,
         m <= visits + (visits \div n)
  PROVE  /\ m \div (n + 1) \in Nat
         /\ n * (m \div (n + 1)) <= visits
<1> DEFINE c == m \div (n + 1)
           q == visits \div n
           k == n + 1
<1>1. k \in Nat \ {0}
  OBVIOUS
<1>2. c \in Nat /\ k * c <= m
  BY <1>1, DivBounds
<1>3. q \in Nat /\ visits % n \in 0 .. n - 1 /\ visits = n * q + (visits % n)
  <2>1. visits \in Int
    OBVIOUS
  <2>2. visits % n \in 0 .. n - 1 /\ visits = n * q + (visits % n)
    BY <2>1, DivMod
  <2>3. q \in Nat
    BY DivBounds
  <2> QED BY <2>2, <2>3
<1>4. m <= visits + q
  OBVIOUS
<1> HIDE DEF c, q, k
<1>5. k * c = n * c + c /\ n * q \in Int /\ n * c \in Int
  BY <1>2, <1>3 DEF k
<1>6. ~(c >= q + 1)
  <2> SUFFICES ASSUME c >= q + 1 PROVE FALSE
    OBVIOUS
  <2>1. c - q \in Int /\ c - q >= 1
    BY <1>2, <1>3
  <2>2. n * (c - q) >= n
    BY <2>1, PositiveMultiple
  <2>3. n * (c - q) = n * c - n * q
    BY <1>2, <1>3, Distributes
  <2>4. n * c >= n * q + n
    BY <1>5, <2>2, <2>3
  <2>5. n * c + c <= n * q + (visits % n) + q
    <3>1. n * c + c <= m
      BY <1>2, <1>5
    <3> QED BY <1>2, <1>3, <1>4, <1>5, <3>1
  <2> QED BY <1>2, <1>3, <1>5, <2>4, <2>5
<1>7. n * c <= n * q
  <2>1. CASE c = q
    BY <2>1, <1>5
  <2>2. CASE q - c >= 1
    <3>1. n * (q - c) >= n
      BY <2>2, <1>2, <1>3, PositiveMultiple
    <3>2. n * (q - c) = n * q - n * c
      BY <1>2, <1>3, Distributes
    <3> QED BY <1>5, <3>1, <3>2
  <2> QED BY <1>2, <1>3, <1>6, <2>1, <2>2
<1>8. n * c <= visits
  BY <1>3, <1>5, <1>7
<1> QED BY <1>2, <1>8 DEF c, k

(* The message after the (a+1)-th visit: its announcement, which is not at *)
(* the end of a block of n + 1 messages, ...                               *)
LEMMA AnnouncementPlace ==
  ASSUME NEW n \in Nat \ {0}, NEW a \in Nat
  PROVE  (a + (a \div n) + 1) % (n + 1) # 0
<1> DEFINE q == a \div n
           r == a % n
           k == n + 1
<1>1. q \in Int /\ r \in 0 .. n - 1 /\ a = n * q + r
  BY DivMod
<1> HIDE DEF q, r
<1>2. k \in Nat \ {0} /\ r + 1 \in 0 .. k - 1
  BY <1>1
<1>3. k * q = n * q + q /\ n * q \in Int
  BY <1>1
<1>4. a + q + 1 = k * q + (r + 1)
  BY <1>1, <1>3
<1> HIDE DEF k
<1>5. (k * q + (r + 1)) % k = r + 1
  BY <1>1, <1>2, DivModUnique
<1>6. (a + q + 1) % k # 0
  BY <1>1, <1>4, <1>5
<1> QED BY <1>6 DEF q, k

(* ... or, when it completes a round, the report, which is.                *)
LEMMA ReportPlace ==
  ASSUME NEW n \in Nat \ {0}, NEW a \in Nat, (a + 1) % n = 0
  PROVE  LET m == a + 1 + (a \div n) + 1
             c == (a + 1) \div n
         IN  /\ m % (n + 1) = 0
             /\ m \div (n + 1) = c
             /\ n * c = a + 1
<1> DEFINE q == a \div n
           c == (a + 1) \div n
           k == n + 1
<1>1. c = q + 1
  BY DivModSuccessor
<1>2. q \in Nat
  BY DivBounds
<1>3. c \in Int /\ a + 1 = n * c
  <2>1. a + 1 \in Int
    OBVIOUS
  <2>2. c \in Int /\ a + 1 = n * c + ((a + 1) % n)
    BY <2>1, DivMod
  <2> QED BY <2>2
<1> HIDE DEF q, c
<1>4. k \in Nat \ {0} /\ 0 \in 0 .. k - 1
  OBVIOUS
<1>5. k * c = n * c + c
  BY <1>3
<1>6. a + 1 + q + 1 = k * c + 0
  BY <1>1, <1>2, <1>3, <1>5
<1> HIDE DEF k
<1>7. (k * c + 0) \div k = c /\ (k * c + 0) % k = 0
  BY <1>3, <1>4, DivModUnique
<1>8. (a + 1 + q + 1) \div k = c /\ (a + 1 + q + 1) % k = 0
  BY <1>6, <1>7
<1> QED BY <1>3, <1>8 DEF q, c, k

-----------------------------------------------------------------------------
LEMMA ViewType ==
  ASSUME TypeOK
  PROVE  View \subseteq Frame
<1>1. Surface \in Surfaces
  BY DEF Surface, Surfaces
<1>2. light \in Lights
  BY DEF TypeOK
<1>3. Image[Surface] \in [Lights -> SUBSET Frame]
  BY <1>1, WorldAssumption
<1> QED BY <1>2, <1>3 DEF View

(* A capture keeps the camera's variables in their types.                  *)
LEMMA CapturedType ==
  ASSUME TypeOK, NEW result \in Captures, Captured(result)
  PROVE  /\ result.tracingStatus = STATUS_NORMAL
              => result.trackMidPixel \in -1 .. 128
         /\ lastAvailableAverage' \in 0 .. cMaxReading
         /\ drift' \in 0 .. MaxDrift /\ moved' \in BOOLEAN
         /\ travelled' \in 0 .. MaxTravel /\ offTrack' \in BOOLEAN
         /\ light' \in Lights /\ pin' \in BOOLEAN
         /\ goods' \in [1 .. platform_num -> Colors]
<1>1. PICK frame \in View : result = ProcessCCD(frame, lastAvailableAverage)
  BY DEF Captures
<1>2. frame \in Frame /\ lastAvailableAverage \in 0 .. cMaxReading
  BY <1>1, ViewType DEF TypeOK
<1>3. /\ result.tracingStatus = STATUS_NORMAL => result.trackMidPixel \in -1 .. 128
      /\ result.lastAvailableAverage \in 0 .. cMaxReading
  BY <1>1, <1>2, ProcessCCDType
<1>4. lastAvailableAverage' \in 0 .. cMaxReading
  BY <1>3 DEF Captured
<1>5. drift' \in 0 .. MaxDrift
  <2>1. 0 \in 0 .. MaxDrift /\ drift \in 0 .. MaxDrift
    BY WorldAssumption DEF TypeOK
  <2>2. drift' = 0 \/ drift' = drift
    BY DEF Captured
  <2> QED BY <2>1, <2>2
<1>6. /\ moved' \in BOOLEAN
      /\ travelled' \in 0 .. MaxTravel /\ offTrack' \in BOOLEAN
      /\ light' \in Lights /\ pin' \in BOOLEAN
      /\ goods' \in [1 .. platform_num -> Colors]
  BY DEF Captured, TypeOK
<1> QED BY <1>3, <1>4, <1>5, <1>6

(* With kp = 1 and kd = 0.1 the derivative term can push the wheels' pixel *)
(* beyond 0..128, but not far.                                             *)
LEMMA SteerType ==
  ASSUME NEW error \in -65 .. 64, previous_error \in -65 .. 64
  PROVE  Steer(error) \in -13 .. 140
  BY DEF Steer

(* The goods under the sensor, and what it makes of them.                  *)
LEMMA GoodsType ==
  ASSUME TypeOK
  PROVE  /\ Here \in 0 .. platform_num
         /\ GoodsHere \in Colors /\ GetRGB \in Colors
<1>1. travelled % TrackLength \in 0 .. TrackLength - 1
  <2>1. travelled \in Int /\ TrackLength \in Nat \ {0}
    BY WorldAssumption DEF TypeOK
  <2> QED BY <2>1, DivMod
<1>2. Here \in 0 .. platform_num
  BY <1>1, WorldAssumption DEF Here
<1>3. GoodsHere \in Colors
  BY <1>2, WorldAssumption DEF GoodsHere, TypeOK
<1> QED BY <1>2, <1>3, WorldAssumption DEF GetRGB

(* Every stop has its slot in the package.                                 *)
LEMMA SlotType ==
  ASSUME NEW stop \in Int
  PROVE  Slot(stop) \in Slots
<1>1. stop - 1 \in Int /\ platform_num \in Nat \ {0}
  BY WorldAssumption
<1>2. (stop - 1) % platform_num \in 0 .. platform_num - 1
  BY <1>1, DivMod
<1> QED BY <1>2 DEF Slot, Slots

LEMMA SetCargoType ==
  ASSUME TypeOK, NEW color \in Colors
  PROVE  SetCargo(location, color) \in [count : Nat, cargo_type : [Slots -> Colors]]
  BY DEF SetCargo, TypeOK

-----------------------------------------------------------------------------
LEMMA InitTypeOK == Init => TypeOK
<1> SUFFICES ASSUME Init PROVE TypeOK
  OBVIOUS
<1>1. package \in [count : Nat, cargo_type : [Slots -> Colors]]
  <2>1. COLOR_RED \in Colors
    BY WorldAssumption
  <2>2. [slot \in Slots |-> COLOR_RED] \in [Slots -> Colors]
    BY <2>1
  <2> QED BY <2>2 DEF Init
<1>2. /\ lastAvailableAverage \in 0 .. cMaxReading
      /\ travelled \in 0 .. MaxTravel /\ drift \in 0 .. MaxDrift
  BY WorldAssumption, WindowAssumption DEF Init
<1>3. servo \in -13 .. 140 /\ previous_error \in -65 .. 64 /\ location \in Nat
  BY DEF Init
<1>4. /\ outbox \in Seq(P!Message)
      /\ visited \in Seq(0 .. platform_num) /\ seen \in Seq(Colors)
  BY DEF Init
<1> QED BY <1>1, <1>2, <1>3, <1>4 DEF Init, TypeOK

LEMMA ProgramTypeOK == TypeOK /\ Program => TypeOK'
<1> SUFFICES ASSUME TypeOK, Program PROVE TypeOK'
  OBVIOUS
<1> USE DEF Driving
<1>1. CASE LoopTop
  BY <1>1 DEF LoopTop, TypeOK, worldVars, history
<1>2. CASE TrackNormal
  <2>1. PICK result \in Captures :
          /\ result.tracingStatus = STATUS_NORMAL
          /\ Captured(result)
          /\ servo' = Steer(result.trackMidPixel - 64)
          /\ previous_error' = result.trackMidPixel - 64
    BY <1>2 DEF TrackNormal
  <2>2. result.trackMidPixel - 64 \in -65 .. 64
    <3>1. result.trackMidPixel \in -1 .. 128
      BY <2>1, CapturedType
    <3> QED BY <3>1
  <2>3. servo' \in -13 .. 140 /\ previous_error' \in -65 .. 64
    BY <2>1, <2>2, SteerType DEF TypeOK
  <2>4. motor' \in {"idle", "brake"} \cup Driving
    BY <1>2 DEF TrackNormal, MotorForward
  <2> QED BY <1>2, <2>1, <2>3, <2>4, CapturedType DEF TrackNormal, TypeOK, history
<1>3. CASE ArrivePlatform
  <2>1. PICK result \in Captures : Captured(result)
    BY <1>3 DEF ArrivePlatform
  <2> QED BY <1>3, <2>1, CapturedType DEF ArrivePlatform, TypeOK, history
<1>4. CASE Fault
  <2>1. PICK result \in Captures : Captured(result)
    BY <1>4 DEF Fault
  <2>2. servo' \in -13 .. 140 /\ previous_error' \in -65 .. 64
    BY <1>4 DEF Fault
  <2>3. pc' \in {"fault"} /\ motor' \in {"brake"} /\ led' \in BOOLEAN
    BY <1>4 DEF Fault
  <2> QED BY <1>4, <2>1, <2>2, <2>3, CapturedType DEF Fault, TypeOK, history
<1>5. CASE Blink
  BY <1>5 DEF Blink, TypeOK, worldVars, history
<1>6. CASE SwitchLamp
  BY <1>6 DEF SwitchLamp, TypeOK, worldVars, history
<1>7. CASE SampleColor
  <2>1. package' \in [count : Nat, cargo_type : [Slots -> Colors]]
    BY <1>7, GoodsType, SetCargoType DEF SampleColor
  <2>2. visited' \in Seq(0 .. platform_num) /\ seen' \in Seq(Colors)
    <3>1. 0 \in 0 .. platform_num
      BY WorldAssumption
    <3> QED BY <1>7, <3>1, GoodsType DEF SampleColor, TypeOK
  <2> QED BY <1>7, <2>1, <2>2 DEF SampleColor, TypeOK, worldVars
<1>8. CASE Announce
  <2>1. outbox' \in Seq(P!Message)
    BY <1>8 DEF Announce, TypeOK, P!Message
  <2> QED BY <1>8, <2>1 DEF Announce, TypeOK, worldVars, history
<1>9. CASE Report
  <2>1. Lap(location) \in Nat
    BY DivBounds, WorldAssumption DEF Lap, TypeOK
  <2>2. package' \in [count : Nat, cargo_type : [Slots -> Colors]]
    BY <1>9, <2>1 DEF Report, TypeOK
  <2>3. P!Report(package'.count, package'.cargo_type) \in P!Message
    BY <2>2 DEF P!Report, P!Message, P!Slots, Slots
  <2>4. outbox' \in Seq(P!Message)
    BY <1>9, <2>3 DEF Report, TypeOK
  <2> QED BY <1>9, <2>2, <2>4 DEF Report, TypeOK, worldVars, history
<1>10. CASE Leave
  <2>1. motor' \in {"idle", "brake"} \cup Driving
    BY <1>10 DEF Leave, MotorForward
  <2> QED BY <1>10, <2>1 DEF Leave, TypeOK, worldVars, history
<1>11. CASE Discard
  <2>1. PICK result \in Captures : Captured(result)
    BY <1>11 DEF Discard
  <2> QED BY <1>11, <2>1, CapturedType DEF Discard, TypeOK, history
<1>12. CASE LeaveStep
  <2>1. PICK result \in Captures :
          Captured(result) /\ pc' \in {"top", "leaving"}
    BY <1>12 DEF LeaveStep
  <2> QED BY <1>12, <2>1, CapturedType DEF LeaveStep, TypeOK, history
<1> QED BY <1>1, <1>2, <1>3, <1>4, <1>5, <1>6, <1>7, <1>8, <1>9, <1>10, <1>11,
           <1>12 DEF Program

LEMMA WorldTypeOK == TypeOK /\ World => TypeOK'
<1> SUFFICES ASSUME TypeOK, World PROVE TypeOK'
  OBVIOUS
<1>1. CASE Move
  <2>1. travelled' \in 0 .. MaxTravel
    BY <1>1, WorldAssumption DEF Move, TypeOK
  <2> QED BY <1>1, <2>1 DEF Move, TypeOK, programVars, history
<1>2. CASE Derail
  BY <1>2 DEF Derail, TypeOK, programVars, history
<1>3. CASE ChangeLight
  <2>1. drift' \in 0 .. MaxDrift /\ light' \in Lights
    BY <1>3, WorldAssumption DEF ChangeLight, TypeOK
  <2> QED BY <1>3, <2>1 DEF ChangeLight, TypeOK, programVars, history
<1>4. CASE TogglePin
  BY <1>4 DEF TogglePin, TypeOK, programVars, history
<1>5. CASE Restock
  BY <1>5 DEF Restock, TypeOK, programVars, history
<1> QED BY <1>1, <1>2, <1>3, <1>4, <1>5 DEF World

(* No run of the tracking mode takes a variable out of its type: the slot  *)
(* written is one of the package, the pixel the wheels are turned to stays *)
(* within -13..140, the threshold is an intensity the camera can deliver.  *)
THEOREM TypeCorrect == Spec => []TypeOK
<1>1. TypeOK /\ [Next]_vars => TypeOK'
  <2> SUFFICES ASSUME TypeOK, [Next]_vars PROVE TypeOK'
    OBVIOUS
  <2>1. CASE Program
    BY <2>1, ProgramTypeOK
  <2>2. CASE World
    BY <2>2, WorldTypeOK
  <2>3. CASE UNCHANGED vars
    BY <2>3 DEF vars, programVars, worldVars, history, TypeOK
  <2> QED BY <2>1, <2>2, <2>3 DEF Next
<1> QED BY <1>1, InitTypeOK, PTL DEF Spec

-----------------------------------------------------------------------------
(* The derivative term never outweighs the proportional one where the line *)
(* is more than six pixels off: six is the least such bound, for the error *)
(* of the frame before can be 64.                                          *)
LEMMA SteerSide ==
  ASSUME NEW error \in -65 .. 64, previous_error \in -65 .. 64
  PROVE  /\ error > 6  => Steer(error) > 64
         /\ error < -6 => Steer(error) < 64
  BY DEF Steer

(* Whatever the errors of the frames before, and with a camera, a line and *)
(* a light of any kind, a line more than six pixels off the middle is      *)
(* steered towards.                                                        *)
THEOREM SteeringCorrect == Spec => SteersToTheLine
<1>1. TypeOK /\ [Next]_vars =>
        [TrackNormal => /\ previous_error' > 6  => servo' > 64
                        /\ previous_error' < -6 => servo' < 64]_vars
  <2> SUFFICES ASSUME TypeOK, TrackNormal
               PROVE  /\ previous_error' > 6  => servo' > 64
                      /\ previous_error' < -6 => servo' < 64
    OBVIOUS
  <2>1. PICK result \in Captures :
          /\ result.tracingStatus = STATUS_NORMAL
          /\ Captured(result)
          /\ servo' = Steer(result.trackMidPixel - 64)
          /\ previous_error' = result.trackMidPixel - 64
    BY DEF TrackNormal
  <2>2. result.trackMidPixel - 64 \in -65 .. 64
    <3>1. result.trackMidPixel \in -1 .. 128
      BY <2>1, CapturedType
    <3> QED BY <3>1
  <2>3. previous_error \in -65 .. 64
    BY DEF TypeOK
  <2> QED BY <2>1, <2>2, <2>3, SteerSide
<1> QED BY <1>1, TypeCorrect, PTL DEF Spec, SteersToTheLine

-----------------------------------------------------------------------------
(* The steps outside a visit leave what PatrolInv is about alone.          *)
InVisit == {"arrived", "sample", "announce", "report"}

Quiet ==
  /\ (pc \notin InVisit /\ pc' \notin InVisit) \/ pc' = pc
  /\ lamp' = lamp
  /\ UNCHANGED <<location, package, seen, outbox>>

LEMMA QuietSteps ==
  ASSUME [Next]_vars
  PROVE  Quiet \/ ArrivePlatform \/ SwitchLamp \/ SampleColor \/ Announce \/ Report
         \/ (Leave \/ Discard \/ LeaveStep)
<1> USE DEF Quiet, InVisit, history
<1>1. CASE LoopTop
  BY <1>1 DEF LoopTop
<1>2. CASE TrackNormal
  BY <1>2 DEF TrackNormal
<1>3. CASE Fault
  BY <1>3 DEF Fault
<1>4. CASE Blink
  BY <1>4 DEF Blink
<1>5. CASE World
  BY <1>5 DEF World, Move, Derail, ChangeLight, TogglePin, Restock, programVars
<1>6. CASE UNCHANGED vars
  BY <1>6 DEF vars, programVars
<1> QED BY <1>1, <1>2, <1>3, <1>4, <1>5, <1>6 DEF Next, Program

LEMMA LeavingIsQuiet ==
  ASSUME Leave \/ Discard \/ LeaveStep
  PROVE  Quiet
<1> USE DEF Quiet, InVisit, history
<1>1. CASE Leave
  BY <1>1 DEF Leave
<1>2. CASE Discard
  BY <1>2 DEF Discard
<1>3. CASE LeaveStep
  BY <1>3 DEF LeaveStep
<1> QED BY <1>1, <1>2, <1>3

LEMMA QuietPatrolInv ==
  ASSUME PatrolInv, Quiet
  PROVE  PatrolInv'
  BY DEF PatrolInv, Quiet, InVisit, CountsVisits, LampOnWhenRead,
         PackageHoldsLastRound

(* The sample is the only step that writes a slot, and it spares the slots *)
(* of the platform_num - 1 visits before.                                  *)
LEMMA SampleKeepsRound ==
  ASSUME TypeOK, PatrolInv, SampleColor
  PROVE  PackageHoldsLastRound'
<1> DEFINE visits == Len(seen)
<1>1. visits \in Nat /\ location = visits + 1 /\ GetRGB = GoodsHere
  BY DEF TypeOK, PatrolInv, CountsVisits, LampOnWhenRead, SampleColor, GetRGB
<1>2. seen' = Append(seen, GoodsHere)
  BY DEF SampleColor
<1>3. Slot(location) \in Slots
  BY <1>1, SlotType
<1>4. package'.cargo_type = [package.cargo_type EXCEPT ![Slot(location)] = GoodsHere]
  BY <1>1 DEF SampleColor, SetCargo, TypeOK
<1>5. package.cargo_type \in [Slots -> Colors]
  BY DEF TypeOK
<1>6. ASSUME NEW k \in 1 .. visits + 1, k + platform_num > visits + 1
      PROVE  package'.cargo_type[Slot(k)] = seen'[k]
  <2>1. CASE k = visits + 1
    <3>1. seen'[k] = GoodsHere
      BY <2>1, <1>2 DEF TypeOK
    <3> QED BY <2>1, <3>1, <1>1, <1>3, <1>4, <1>5
  <2>2. CASE k # visits + 1
    <3>1. k \in DOMAIN seen /\ seen'[k] = seen[k]
      BY <2>2, <1>1, <1>2 DEF TypeOK
    <3>2. package.cargo_type[Slot(k)] = seen[k]
      <4>1. k + platform_num > Len(seen)
        BY <1>1, <1>6, WorldAssumption
      <4> QED BY <3>1, <4>1 DEF PatrolInv, PackageHoldsLastRound
    <3>3. Slot(k) # Slot(location)
      <4>1. /\ k - 1 \in Int /\ location - 1 \in Int
            /\ platform_num \in Nat \ {0}
            /\ k - 1 < location - 1 /\ location - 1 < (k - 1) + platform_num
        BY <2>2, <1>1, <1>6, WorldAssumption
      <4> QED BY <4>1, RemaindersDiffer DEF Slot
    <3>4. Slot(k) \in Slots
      BY <1>1, SlotType
    <3> QED BY <3>1, <3>2, <3>3, <3>4, <1>4, <1>5
  <2> QED BY <2>1, <2>2
<1>7. DOMAIN seen' = 1 .. visits + 1 /\ Len(seen') = visits + 1
  BY <1>1, <1>2 DEF TypeOK
<1> QED BY <1>6, <1>7 DEF PackageHoldsLastRound

LEMMA PatrolInvStep ==
  ASSUME TypeOK, PatrolInv, [Next]_vars
  PROVE  PatrolInv'
<1>1. CASE Quiet
  BY <1>1, QuietPatrolInv
<1>2. CASE ArrivePlatform
  <2>1. CountsVisits'
    BY <1>2 DEF ArrivePlatform, history, PatrolInv, CountsVisits, TypeOK
  <2>2. LampOnWhenRead' /\ PackageHoldsLastRound'
    BY <1>2 DEF ArrivePlatform, history, PatrolInv, LampOnWhenRead,
                PackageHoldsLastRound
  <2> QED BY <2>1, <2>2 DEF PatrolInv
<1>3. CASE SwitchLamp
  BY <1>3 DEF SwitchLamp, history, PatrolInv, CountsVisits, LampOnWhenRead,
              PackageHoldsLastRound
<1>4. CASE SampleColor
  <2>1. CountsVisits'
    <3>1. Len(seen') = Len(seen) + 1 /\ seen' # <<>>
      BY <1>4 DEF SampleColor, TypeOK
    <3> QED BY <1>4, <3>1 DEF SampleColor, PatrolInv, CountsVisits, TypeOK
  <2>2. LampOnWhenRead'
    BY <1>4 DEF SampleColor, LampOnWhenRead
  <2>3. PackageHoldsLastRound'
    BY <1>4, SampleKeepsRound
  <2> QED BY <2>1, <2>2, <2>3 DEF PatrolInv
<1>5. CASE Announce
  BY <1>5 DEF Announce, history, PatrolInv, CountsVisits, LampOnWhenRead,
              PackageHoldsLastRound, FullCircle
<1>6. CASE Report
  <2>1. package'.cargo_type = package.cargo_type
    BY <1>6 DEF Report, TypeOK
  <2> QED BY <1>6, <2>1 DEF Report, history, PatrolInv, CountsVisits,
                            LampOnWhenRead, PackageHoldsLastRound
<1> QED BY <1>1, <1>2, <1>3, <1>4, <1>5, <1>6, QuietSteps, LeavingIsQuiet

(* The location counts the visits, the sensor is read with its lamp on,    *)
(* and the package always holds the goods of the last platform_num visits. *)
THEOREM PackageCorrect == Spec => []PatrolInv
<1>1. Init => PatrolInv
  <2> SUFFICES ASSUME Init PROVE PatrolInv
    OBVIOUS
  <2>1. CountsVisits /\ LampOnWhenRead
    BY DEF Init, CountsVisits, LampOnWhenRead
  <2>2. PackageHoldsLastRound
    BY DEF Init, PackageHoldsLastRound
  <2> QED BY <2>1, <2>2 DEF PatrolInv
<1>2. TypeOK /\ PatrolInv /\ [Next]_vars => PatrolInv'
  BY PatrolInvStep
<1> QED BY <1>1, <1>2, TypeCorrect, PTL DEF Spec

-----------------------------------------------------------------------------
(* At the end of a circle the package's slots are the circle's visits.     *)
LEMMA PackageIsRound ==
  ASSUME TypeOK, PatrolInv, pc = "report"
  PROVE  package.cargo_type = P!Round(Lap(location))
<1> DEFINE count == Len(seen) \div platform_num
<1>1. location = Len(seen) /\ Len(seen) \in Nat /\ platform_num \in Nat \ {0}
  BY WorldAssumption DEF TypeOK, PatrolInv, CountsVisits
<1>2. location % platform_num = 0 /\ location > 0
  BY <1>1 DEF PatrolInv, CountsVisits, FullCircle, TypeOK
<1>3. count \in Nat /\ Len(seen) = platform_num * count
  BY <1>1, <1>2, DivMod, DivBounds
<1>4. Lap(location) = count
  BY <1>1 DEF Lap
<1> HIDE DEF count
<1>5. count >= 1
  BY <1>1, <1>2, <1>3
<1>6. ASSUME NEW slot \in Slots
      PROVE  package.cargo_type[slot] = seen[(count - 1) * platform_num + slot + 1]
  <2> DEFINE base == (count - 1) * platform_num
             k == base + slot + 1
  <2>1. base = platform_num * (count - 1) /\ base = Len(seen) - platform_num
    BY <1>1, <1>3
  <2>2. platform_num * (count - 1) + slot = k - 1 /\ slot \in 0 .. platform_num - 1
    BY <1>1, <1>3, <1>6, <2>1 DEF Slots
  <2>3. base \in Nat
    <3>1. platform_num * count >= platform_num
      BY <1>1, <1>3, <1>5, PositiveMultiple
    <3> QED BY <1>1, <1>3, <2>1, <3>1
  <2> HIDE DEF base
  <2>4. k \in DOMAIN seen /\ k + platform_num > Len(seen)
    <3>1. slot \in 0 .. platform_num - 1 /\ base = Len(seen) - platform_num
      BY <2>1, <2>2
    <3>2. k \in 1 .. Len(seen) /\ k + platform_num > Len(seen)
      BY <1>1, <2>3, <3>1
    <3> QED BY <3>2 DEF TypeOK
  <2>5. Slot(k) = slot
    <3>1. count - 1 \in Int
      BY <1>3
    <3>2. (platform_num * (count - 1) + slot) % platform_num = slot
      BY <1>1, <2>2, <3>1, DivModUnique
    <3> QED BY <2>2, <3>2 DEF Slot
  <2>6. package.cargo_type[Slot(k)] = seen[k]
    BY <2>4 DEF PatrolInv, PackageHoldsLastRound
  <2> QED BY <2>5, <2>6 DEF base
<1>7. package.cargo_type = [slot \in Slots |-> package.cargo_type[slot]]
  BY DEF TypeOK
<1> QED BY <1>4, <1>6, <1>7 DEF P!Round, P!Slots, Slots

(* Every step of the code is a step of Patrol or leaves it where it is.    *)
LEMMA StepSimulation ==
  ASSUME TypeOK, PatrolInv, [Next]_vars
  PROVE  [P!Next]_(P!vars)
<1>1. CASE Quiet
  <2>1. Owed' = Owed
    BY <1>1 DEF Quiet, InVisit, Owed
  <2> QED BY <1>1, <2>1 DEF Quiet, P!vars
<1>2. CASE ArrivePlatform
  <2>1. Owed' = "none" /\ Owed = "none"
    BY <1>2 DEF ArrivePlatform, Owed
  <2> QED BY <1>2, <2>1 DEF ArrivePlatform, history, P!vars
<1>3. CASE SwitchLamp
  <2>1. Owed' = "none" /\ Owed = "none"
    BY <1>3 DEF SwitchLamp, Owed
  <2> QED BY <1>3, <2>1 DEF SwitchLamp, history, P!vars
<1>4. CASE SampleColor
  <2>1. Owed = "none" /\ Owed' = "reached"
    BY <1>4 DEF SampleColor, Owed
  <2>2. GoodsHere \in Colors /\ seen' = Append(seen, GoodsHere)
    BY <1>4, GoodsType DEF SampleColor
  <2> QED BY <1>4, <2>1, <2>2 DEF SampleColor, P!Visit, P!Next
<1>5. CASE Announce
  <2>1. location = Len(seen)
    BY <1>5 DEF Announce, PatrolInv, CountsVisits, TypeOK
  <2>2. Owed = "reached"
        /\ Owed' = IF P!RoundComplete THEN "report" ELSE "none"
    BY <1>5, <2>1 DEF Announce, Owed, FullCircle, P!RoundComplete
  <2> QED BY <1>5, <2>2 DEF Announce, history, P!SendReached, P!Next
<1>6. CASE Report
  <2>1. Owed = "report" /\ Owed' = "none"
    BY <1>6 DEF Report, Owed
  <2>2. Lap(location) = Len(seen) \div platform_num
    BY <1>6 DEF Report, PatrolInv, CountsVisits, Lap, TypeOK
  <2>3. package'.count = Lap(location) /\ package'.cargo_type = package.cargo_type
    BY <1>6 DEF Report, TypeOK
  <2>4. package.cargo_type = P!Round(Lap(location))
    BY <1>6, PackageIsRound DEF Report
  <2>5. outbox' = Append(outbox, P!Report(Lap(location), P!Round(Lap(location))))
    BY <1>6, <2>3, <2>4 DEF Report
  <2> QED BY <1>6, <2>1, <2>2, <2>5 DEF Report, history, P!SendReport, P!Next
<1> QED BY <1>1, <1>2, <1>3, <1>4, <1>5, <1>6, QuietSteps, LeavingIsQuiet

(* The code implements Patrol.                                             *)
THEOREM Implementation == Spec => ImplementsPatrol
<1>1. Init => P!Init
  BY DEF Init, P!Init, Owed
<1>2. TypeOK /\ PatrolInv /\ [Next]_vars => [P!Next]_(P!vars)
  BY StepSimulation
<1> QED BY <1>1, <1>2, TypeCorrect, PackageCorrect, PTL
        DEF Spec, ImplementsPatrol, P!Spec

-----------------------------------------------------------------------------
(* The stream of Patrol is right for any number of shelves and visits,     *)
(* whoever takes its steps.                                                *)
LEMMA PlatformNum == platform_num \in Nat \ {0}
BY WorldAssumption

(* A report already sent is about a round that is over: another visit      *)
(* leaves it as it is.                                                     *)
LEMMA VisitKeepsRounds ==
  ASSUME P!TypeOK, NEW item \in Colors,
         NEW count \in Nat, count >= 1, platform_num * count <= Len(seen)
  PROVE  [slot \in P!Slots |-> Append(seen, item)[(count - 1) * platform_num + slot + 1]]
           = P!Round(count)
<1> SUFFICES ASSUME NEW slot \in P!Slots
             PROVE  Append(seen, item)[(count - 1) * platform_num + slot + 1]
                      = seen[(count - 1) * platform_num + slot + 1]
  BY DEF P!Round
<1> DEFINE base == (count - 1) * platform_num
<1>1. base = platform_num * count - platform_num /\ platform_num * count \in Int
  BY PlatformNum
<1>2. base \in Nat
  <2>1. platform_num * count >= platform_num
    BY PositiveMultiple, PlatformNum
  <2> QED BY <1>1, <2>1, PlatformNum
<1> HIDE DEF base
<1>3. base + slot + 1 \in 1 .. Len(seen)
  BY <1>1, <1>2, PlatformNum DEF P!Slots, P!TypeOK
<1>4. Append(seen, item)[base + slot + 1] = seen[base + slot + 1]
  BY <1>3 DEF P!TypeOK
<1> QED BY <1>4 DEF base

(* Every round's goods are known once its report is due.                   *)
LEMMA RoundType ==
  ASSUME P!TypeOK,
         NEW count \in Nat, count >= 1, platform_num * count <= Len(seen)
  PROVE  P!Round(count) \in [P!Slots -> Colors]
<1> SUFFICES ASSUME NEW slot \in P!Slots
             PROVE  seen[(count - 1) * platform_num + slot + 1] \in Colors
  BY DEF P!Round
<1> DEFINE base == (count - 1) * platform_num
<1>1. base = platform_num * count - platform_num /\ platform_num * count \in Int
  BY PlatformNum
<1>2. base \in Nat
  <2>1. platform_num * count >= platform_num
    BY PositiveMultiple, PlatformNum
  <2> QED BY <1>1, <2>1, PlatformNum
<1> HIDE DEF base
<1>3. base + slot + 1 \in 1 .. Len(seen)
  BY <1>1, <1>2, PlatformNum DEF P!Slots, P!TypeOK
<1>4. seen[base + slot + 1] \in Colors
  BY <1>3 DEF P!TypeOK
<1> QED BY <1>4 DEF base

LEMMA InitStreamInv == P!Init => P!StreamInv
<1> SUFFICES ASSUME P!Init PROVE P!StreamInv
  OBVIOUS
<1>1. P!TypeOK
  BY DEF P!Init, P!TypeOK
<1>2. P!StreamLength
  <2>1. 0 \div platform_num = 0
    <3>1. 0 = platform_num * 0 + 0 /\ 0 \in 0 .. platform_num - 1
      BY PlatformNum
    <3> QED BY <3>1, DivModUnique, PlatformNum
  <2>2. Len(seen) = 0 /\ Len(outbox) = 0
    BY DEF P!Init
  <2> QED BY <2>1, <2>2 DEF P!Init, P!StreamLength
<1>3. P!StreamMatchesVisits
  BY DEF P!Init, P!StreamMatchesVisits
<1> QED BY <1>1, <1>2, <1>3 DEF P!StreamInv

LEMMA VisitStreamInv == P!StreamInv /\ P!Visit => P!StreamInv'
<1> SUFFICES ASSUME P!StreamInv, P!Visit PROVE P!StreamInv'
  OBVIOUS
<1>1. P!TypeOK /\ P!StreamLength /\ P!StreamMatchesVisits
  BY DEF P!StreamInv
<1>2. PICK item \in Colors : seen' = Append(seen, item)
  BY DEF P!Visit
<1>3. P!TypeOK'
  BY <1>1, <1>2 DEF P!TypeOK, P!Visit
<1>4. Len(seen') = Len(seen) + 1 /\ Len(seen) \in Nat
  BY <1>1, <1>2 DEF P!TypeOK
<1>5. Len(outbox) = Len(seen) + (Len(seen) \div platform_num)
  BY <1>1 DEF P!StreamLength, P!Visit
<1>6. P!StreamLength'
  <2>1. Len(seen') - 1 = Len(seen)
    BY <1>4
  <2> QED BY <1>4, <1>5, <2>1 DEF P!StreamLength, P!Visit
<1>7. P!StreamMatchesVisits'
  <2> SUFFICES ASSUME NEW m \in DOMAIN outbox
               PROVE  outbox[m] = IF m % (platform_num + 1) = 0
                                  THEN P!Report(m \div (platform_num + 1),
                                              P!Round(m \div (platform_num + 1))')
                                  ELSE P!Reached
    BY DEF P!StreamMatchesVisits, P!Visit, P!Report
  <2> DEFINE c == m \div (platform_num + 1)
  <2>1. m \in Nat /\ m >= 1 /\ m <= Len(seen) + (Len(seen) \div platform_num)
    BY <1>1, <1>5 DEF P!TypeOK
  <2>2. c \in Nat /\ platform_num * c <= Len(seen)
    BY <1>4, <2>1, ReportsInStream, PlatformNum
  <2>3. outbox[m] = IF m % (platform_num + 1) = 0 THEN P!Report(c, P!Round(c)) ELSE P!Reached
    BY <1>1 DEF P!StreamMatchesVisits
  <2>4. CASE m % (platform_num + 1) = 0
    <3>1. platform_num + 1 \in Nat \ {0} /\ m \in Int
      BY <2>1, PlatformNum
    <3>2. m = (platform_num + 1) * c + 0
      BY <2>4, <3>1, DivMod
    <3>3. c # 0
      BY <2>1, <3>1, <3>2
    <3>4. c >= 1
      BY <2>2, <3>3
    <3> HIDE DEF c
    <3>5. P!Round(c)' = P!Round(c)
      BY <1>1, <1>2, <2>2, <3>4, VisitKeepsRounds DEF P!Round
    <3> QED BY <2>3, <2>4, <3>5 DEF c
  <2>5. CASE m % (platform_num + 1) # 0
    BY <2>3, <2>5
  <2> QED BY <2>4, <2>5
<1> QED BY <1>3, <1>6, <1>7 DEF P!StreamInv

(* A message at the end of the stream leaves the others in their places.   *)
LEMMA AppendMatches ==
  ASSUME P!TypeOK, P!StreamMatchesVisits, NEW message,
         outbox' = Append(outbox, message), seen' = seen,
         LET m == Len(outbox) + 1
         IN  message = IF m % (platform_num + 1) = 0
                       THEN P!Report(m \div (platform_num + 1),
                                   P!Round(m \div (platform_num + 1)))
                       ELSE P!Reached
  PROVE  P!StreamMatchesVisits'
<1> SUFFICES ASSUME NEW m \in DOMAIN outbox'
             PROVE  outbox'[m] = IF m % (platform_num + 1) = 0
                                 THEN P!Report(m \div (platform_num + 1),
                                             P!Round(m \div (platform_num + 1)))
                                 ELSE P!Reached
  BY DEF P!StreamMatchesVisits, P!Report, P!Round
<1>1. m \in DOMAIN outbox \/ m = Len(outbox) + 1
  BY DEF P!TypeOK
<1>2. CASE m \in DOMAIN outbox
  <2>1. outbox'[m] = outbox[m]
    BY <1>2 DEF P!TypeOK
  <2> QED BY <1>2, <2>1 DEF P!StreamMatchesVisits
<1>3. CASE m = Len(outbox) + 1
  <2>1. outbox'[m] = message
    BY <1>3 DEF P!TypeOK
  <2> QED BY <1>3, <2>1
<1> QED BY <1>1, <1>2, <1>3

LEMMA SendReachedStreamInv == P!StreamInv /\ P!SendReached => P!StreamInv'
<1> SUFFICES ASSUME P!StreamInv, P!SendReached PROVE P!StreamInv'
  OBVIOUS
<1>1. P!TypeOK /\ P!StreamLength /\ P!StreamMatchesVisits
  BY DEF P!StreamInv
<1>2. /\ Owed = "reached" /\ outbox' = Append(outbox, P!Reached) /\ seen' = seen
      /\ Owed' = IF P!RoundComplete THEN "report" ELSE "none"
  BY DEF P!SendReached
<1> DEFINE before == (Len(seen) - 1) \div platform_num
<1>3. /\ Len(seen) - 1 \in Nat /\ Len(seen) > 0
      /\ Len(outbox) = Len(seen) - 1 + before
      /\ before \in Nat
  <2>1. Len(seen) - 1 \in Nat /\ Len(seen) > 0 /\ Len(outbox) = Len(seen) - 1 + before
    BY <1>1, <1>2 DEF P!StreamLength, P!TypeOK
  <2> QED BY <2>1, DivBounds, PlatformNum
<1>4. P!TypeOK'
  BY <1>1, <1>2 DEF P!TypeOK, P!Message
<1>5. Len(outbox') = Len(outbox) + 1
  BY <1>1, <1>2 DEF P!TypeOK
<1>6. ~P!RoundComplete => Len(seen) \div platform_num = before
  <2>1. (Len(seen) - 1) + 1 = Len(seen)
    BY <1>3
  <2> QED BY <1>3, <2>1, DivModSuccessor, PlatformNum DEF P!RoundComplete
<1>7. P!StreamLength'
  <2>1. P!RoundComplete' <=> P!RoundComplete
    BY <1>2 DEF P!RoundComplete
  <2>2. Len(outbox') = Len(seen) + before
    BY <1>3, <1>5
  <2>3. CASE P!RoundComplete
    BY <1>2, <1>3, <2>1, <2>2, <2>3 DEF P!StreamLength
  <2>4. CASE ~P!RoundComplete
    BY <1>2, <1>6, <2>2, <2>4 DEF P!StreamLength
  <2> QED BY <2>3, <2>4
<1>8. P!StreamMatchesVisits'
  <2>1. Len(outbox) + 1 = (Len(seen) - 1) + before + 1
    BY <1>3
  <2>2. (Len(outbox) + 1) % (platform_num + 1) # 0
    BY <1>3, <2>1, AnnouncementPlace, PlatformNum
  <2> QED BY <1>1, <1>2, <2>2, AppendMatches
<1> QED BY <1>4, <1>7, <1>8 DEF P!StreamInv

LEMMA SendReportStreamInv == P!StreamInv /\ P!SendReport => P!StreamInv'
<1> SUFFICES ASSUME P!StreamInv, P!SendReport PROVE P!StreamInv'
  OBVIOUS
<1>1. P!TypeOK /\ P!StreamLength /\ P!StreamMatchesVisits
  BY DEF P!StreamInv
<1> DEFINE before == (Len(seen) - 1) \div platform_num
           count  == Len(seen) \div platform_num
<1>2. /\ Owed = "report" /\ seen' = seen /\ Owed' = "none"
      /\ outbox' = Append(outbox, P!Report(count, P!Round(count)))
  BY DEF P!SendReport
<1>3. /\ Len(seen) - 1 \in Nat /\ Len(seen) > 0 /\ P!RoundComplete
      /\ Len(outbox) = Len(seen) + before
  BY <1>1, <1>2 DEF P!StreamLength, P!TypeOK
<1>4. (Len(seen) - 1) + 1 = Len(seen)
  BY <1>3
<1>5. before \in Nat /\ count = before + 1
  <2>1. before \in Nat
    BY <1>3, DivBounds, PlatformNum
  <2>2. ((Len(seen) - 1) + 1) % platform_num = 0
    BY <1>3, <1>4 DEF P!RoundComplete
  <2>3. ((Len(seen) - 1) + 1) \div platform_num = before + 1
    BY <1>3, <2>2, DivModSuccessor, PlatformNum
  <2> QED BY <1>4, <2>1, <2>3
<1>6. /\ (Len(outbox) + 1) % (platform_num + 1) = 0
      /\ (Len(outbox) + 1) \div (platform_num + 1) = count
      /\ platform_num * count = Len(seen)
  <2>1. ((Len(seen) - 1) + 1) % platform_num = 0
    BY <1>3, <1>4 DEF P!RoundComplete
  <2>2. /\ ((Len(seen) - 1) + 1 + before + 1) % (platform_num + 1) = 0
        /\ ((Len(seen) - 1) + 1 + before + 1) \div (platform_num + 1)
             = ((Len(seen) - 1) + 1) \div platform_num
        /\ platform_num * (((Len(seen) - 1) + 1) \div platform_num)
             = (Len(seen) - 1) + 1
    BY <1>3, <2>1, ReportPlace, PlatformNum
  <2> QED BY <1>3, <1>4, <2>2
<1> HIDE DEF before, count
<1>7. P!Round(count) \in [P!Slots -> Colors]
  BY <1>1, <1>3, <1>5, <1>6, RoundType
<1>8. P!TypeOK'
  BY <1>1, <1>2, <1>5, <1>7 DEF P!TypeOK, P!Message, P!Report
<1>9. P!StreamLength'
  <2>1. Len(outbox') = Len(outbox) + 1
    BY <1>1, <1>2 DEF P!TypeOK
  <2> QED BY <1>2, <1>3, <1>5, <2>1 DEF P!StreamLength, count
<1>10. P!StreamMatchesVisits'
  BY <1>1, <1>2, <1>6, AppendMatches
<1> QED BY <1>8, <1>9, <1>10 DEF P!StreamInv

LEMMA StreamStep == P!StreamInv /\ [P!Next]_(P!vars) => P!StreamInv'
<1> SUFFICES ASSUME P!StreamInv, [P!Next]_(P!vars) PROVE P!StreamInv'
  OBVIOUS
<1>1. CASE P!Visit
  BY <1>1, VisitStreamInv
<1>2. CASE P!SendReached
  BY <1>2, SendReachedStreamInv
<1>3. CASE P!SendReport
  BY <1>3, SendReportStreamInv
<1>4. CASE UNCHANGED P!vars
  BY <1>4 DEF P!vars, P!StreamInv, P!TypeOK, P!StreamLength, P!RoundComplete,
              P!StreamMatchesVisits, P!Round, P!Report
<1> QED BY <1>1, <1>2, <1>3, <1>4 DEF P!Next

(* So the Bluetooth stream is right: announcements and reports come in     *)
(* their places, and report number c carries exactly what was seen in      *)
(* circle c.                                                               *)
THEOREM StreamCorrect == Spec => []StreamMatchesVisits
<1>1. P!StreamInv => StreamMatchesVisits
  BY DEF P!StreamInv, StreamMatchesVisits
<1> QED BY <1>1, Implementation, InitStreamInv, StreamStep, PTL
        DEF ImplementsPatrol, P!Spec

-----------------------------------------------------------------------------
(* In the blinking loop the car is braked ...                              *)
FaultBrakes == pc = "fault" => motor = "brake"

LEMMA FaultBrakesStep == FaultBrakes /\ [Next]_vars => FaultBrakes'
<1> SUFFICES ASSUME FaultBrakes, [Next]_vars PROVE FaultBrakes'
  OBVIOUS
<1> USE DEF FaultBrakes
<1>1. CASE Program
  BY <1>1 DEF Program, LoopTop, TrackNormal, ArrivePlatform, Fault, Blink,
     SwitchLamp, SampleColor, Announce, Report, Leave, Discard, LeaveStep
<1>2. CASE World
  BY <1>2 DEF World, Move, Derail, ChangeLight, TogglePin, Restock, programVars
<1>3. CASE UNCHANGED vars
  BY <1>3 DEF vars, programVars
<1> QED BY <1>1, <1>2, <1>3 DEF Next

LEMMA FaultStays ==
  ASSUME FaultBrakes, [Next]_vars, pc = "fault"
  PROVE  pc' = "fault" /\ travelled' = travelled
<1> USE DEF FaultBrakes
<1>1. CASE Program
  BY <1>1 DEF Program, LoopTop, TrackNormal, ArrivePlatform, Fault, Blink,
     SwitchLamp, SampleColor, Announce, Report, Leave, Discard, LeaveStep,
     worldVars
<1>2. CASE World
  BY <1>2 DEF World, Move, Derail, ChangeLight, TogglePin, Restock, programVars
<1>3. CASE UNCHANGED vars
  BY <1>3 DEF vars, programVars, worldVars
<1> QED BY <1>1, <1>2, <1>3 DEF Next

(* ... and nothing, the pin included, gets it out or moves it again.       *)
THEOREM FaultFinal == Spec => FaultIsFinal
<1>1. Init => FaultBrakes
  BY DEF Init, FaultBrakes
<1>2. FaultBrakes /\ [Next]_vars
        => [pc = "fault" => /\ pc' = "fault" /\ motor' = "brake"
                            /\ travelled' = travelled]_vars
  BY FaultStays, FaultBrakesStep DEF FaultBrakes
<1> QED BY <1>1, <1>2, FaultBrakesStep, PTL DEF Spec, FaultIsFinal

-----------------------------------------------------------------------------
(* The stops are in order where the line is well laid and well lit and the *)
(* car stays on it.  The ground under the t-th cell from the start, where  *)
(* a platform begins, and how many have begun by then.                     *)
At(t)            == Track[t % TrackLength]
Begins(t)        == At(t) # 0 /\ At(t - 1) = 0
Count(passed, t) == platform_num * (t \div TrackLength) + passed[t % TrackLength]

Passed == [0 .. TrackLength - 1 -> 0 .. platform_num]

LEMMA StartOfLine ==
  ASSUME NEW passed \in Passed, Laid(passed)
  PROVE  /\ TrackLength >= 2
         /\ At(0) = 0 /\ At(1) = 0 /\ Count(passed, 0) = 0
<1>1. /\ platform_num \in Nat \ {0} /\ TrackLength \in Nat \ {0}
      /\ Track[0] = 0 /\ passed[0] = 0 /\ passed[TrackLength - 1] = platform_num
  BY WorldAssumption DEF Laid
<1>2. TrackLength >= 2
  <2>1. TrackLength - 1 # 0
    BY <1>1
  <2> QED BY <1>1, <2>1
<1>3. Track[1] = 0
  <2>1. 1 \in 1 .. TrackLength - 1
    BY <1>1, <1>2
  <2> QED BY <1>1, <2>1 DEF Laid
<1>4. /\ 0 % TrackLength = 0 /\ 0 \div TrackLength = 0
      /\ 1 % TrackLength = 1
  <2>1. 0 \in 0 .. TrackLength - 1 /\ 1 \in 0 .. TrackLength - 1 /\ 0 \in Int
    BY <1>1, <1>2
  <2>2. /\ (TrackLength * 0 + 0) \div TrackLength = 0
        /\ (TrackLength * 0 + 0) % TrackLength = 0
        /\ (TrackLength * 0 + 1) % TrackLength = 1
    BY <1>1, <2>1, DivModUnique
  <2>3. TrackLength * 0 + 0 = 0 /\ TrackLength * 0 + 1 = 1
    BY <1>1
  <2> QED BY <2>2, <2>3
<1> QED BY <1>1, <1>2, <1>3, <1>4 DEF At, Count

LEMMA GroundType ==
  ASSUME NEW passed \in Passed, NEW t \in Nat
  PROVE  At(t) \in 0 .. platform_num /\ Count(passed, t) \in Nat
<1>1. /\ platform_num \in Nat /\ TrackLength \in Nat \ {0} /\ t \in Int
      /\ Track \in [0 .. TrackLength - 1 -> 0 .. platform_num]
  BY WorldAssumption
<1>2. t % TrackLength \in 0 .. TrackLength - 1 /\ t \div TrackLength \in Nat
  BY <1>1, DivMod, DivBounds
<1>3. passed[t % TrackLength] \in Nat /\ Track[t % TrackLength] \in 0 .. platform_num
  BY <1>1, <1>2 DEF Passed
<1>4. ASSUME NEW q \in Nat PROVE platform_num * q \in Nat
  BY <1>1
<1> QED BY <1>2, <1>3, <1>4 DEF At, Count

(* A cell further, where no platform begins, as many have begun; where one *)
(* does, it is the next, and there are two cells of line before it.        *)
LEMMA OneCellOn ==
  ASSUME NEW passed \in Passed, Laid(passed), NEW t \in Nat
  PROVE  /\ ~Begins(t + 1) => Count(passed, t + 1) = Count(passed, t)
         /\ Begins(t + 1) =>
              /\ Count(passed, t + 1) = Count(passed, t) + 1
              /\ At(t + 1) = Slot(Count(passed, t + 1)) + 1
              /\ t >= 1 /\ At(t - 1) = 0
<1> DEFINE L == TrackLength
           cell == (t + 1) % L
           q == t \div L
<1>1. /\ platform_num \in Nat \ {0} /\ L \in Nat \ {0} /\ t + 1 \in Nat
      /\ t \in Int /\ t + 1 \in Int
  BY WorldAssumption
<1>2. /\ cell # 0 => (t + 1) \div L = q /\ cell = (t % L) + 1
      /\ cell = 0 => (t + 1) \div L = q + 1 /\ t % L = L - 1
  BY <1>1, DivModSuccessor
<1>3. cell \in 0 .. L - 1 /\ t % L \in 0 .. L - 1 /\ q \in Nat
  BY <1>1, DivMod, DivBounds
<1>4. (t + 1) - 1 = t
  OBVIOUS
<1>5. CASE cell = 0
  <2>1. At(t + 1) = 0
    BY <1>5 DEF At, Laid
  <2>2. /\ Count(passed, t + 1) = platform_num * (q + 1) + 0
        /\ Count(passed, t) = platform_num * q + platform_num
    BY <1>2, <1>5 DEF Count, Laid
  <2>3. platform_num * (q + 1) + 0 = platform_num * q + platform_num
    BY <1>1, <1>3
  <2> QED BY <2>1, <2>2, <2>3 DEF Begins
<1>6. CASE cell # 0
  <2> DEFINE r == passed[cell - 1]
  <2>1. /\ cell \in 1 .. L - 1 /\ cell - 1 = t % L
        /\ r \in 0 .. platform_num /\ passed[cell] \in 0 .. platform_num
    BY <1>2, <1>3, <1>6 DEF Passed
  <2>2. /\ Count(passed, t + 1) = platform_num * q + passed[cell]
        /\ Count(passed, t) = platform_num * q + r
        /\ At(t + 1) = Track[cell] /\ At(t) = Track[cell - 1]
    BY <1>2, <1>6, <2>1 DEF Count, At
  <2>3. \/ /\ ~Begins(t + 1)
           /\ passed[cell] = r
        \/ /\ Begins(t + 1)
           /\ Track[cell] = r + 1 /\ passed[cell] = r + 1
           /\ cell >= 2 /\ Track[cell - 2] = 0
    BY <1>4, <2>1, <2>2 DEF Laid, Begins
  <2>4. CASE ~Begins(t + 1)
    BY <2>2, <2>3, <2>4
  <2>5. CASE Begins(t + 1)
    <3>1. /\ Track[cell] = r + 1 /\ passed[cell] = r + 1
          /\ cell >= 2 /\ Track[cell - 2] = 0
      BY <2>3, <2>5
    <3>2. platform_num * q \in Int
      BY <1>1, <1>3
    <3>3. Count(passed, t + 1) = Count(passed, t) + 1
      BY <2>1, <2>2, <3>1, <3>2
    <3>4. At(t + 1) = Slot(Count(passed, t + 1)) + 1
      <4>1. r \in 0 .. platform_num - 1
        BY <1>1, <2>1, <3>1
      <4>2. (platform_num * q + r) % platform_num = r
        <5>1. q \in Int
          BY <1>3
        <5> HIDE DEF q, r
        <5> QED BY <1>1, <4>1, <5>1, DivModUnique
      <4>3. Count(passed, t + 1) - 1 = platform_num * q + r
        BY <2>1, <2>2, <3>1, <3>2
      <4>4. Slot(Count(passed, t + 1)) = r
        BY <4>2, <4>3 DEF Slot
      <4> QED BY <2>2, <3>1, <4>4
    <3>5. t >= 1 /\ At(t - 1) = 0
      <4>1. t = L * q + (t % L)
        BY <1>1, DivMod
      <4> HIDE DEF q, cell
      <4>2. L * q \in Nat /\ q \in Int
        BY <1>1, <1>3
      <4>3. cell \in Int /\ cell - 2 \in 0 .. L - 1
        BY <1>1, <1>3, <2>1, <3>1
      <4>4. t = L * q + (cell - 1)
        BY <2>1, <4>1
      <4>5. t - 1 = L * q + (cell - 2) /\ t >= 1
        BY <3>1, <4>2, <4>3, <4>4
      <4>6. (L * q + (cell - 2)) % L = cell - 2
        BY <1>1, <4>2, <4>3, DivModUnique
      <4>7. (t - 1) % TrackLength = cell - 2
        BY <4>5, <4>6
      <4>8. At(t - 1) = Track[cell - 2]
        BY <4>7 DEF At
      <4> QED BY <3>1, <4>5, <4>8
    <3> QED BY <2>5, <3>3, <3>4, <3>5
  <2> QED BY <2>4, <2>5
<1> QED BY <1>5, <1>6

(* So no platform begins within two cells of one.                          *)
LEMMA PlatformsApart ==
  ASSUME NEW passed \in Passed, Laid(passed), NEW t \in Nat, At(t) # 0
  PROVE  ~Begins(t + 1) /\ ~Begins(t + 2)
<1>1. (t + 1) - 1 = t /\ (t + 1) + 1 = t + 2 /\ t + 1 \in Nat
  OBVIOUS
<1>2. ~Begins(t + 1)
  BY <1>1 DEF Begins
<1>3. ~Begins((t + 1) + 1)
  <2>1. Begins((t + 1) + 1) => At((t + 1) - 1) = 0
    BY <1>1, OneCellOn
  <2> QED BY <1>1, <2>1
<1> QED BY <1>1, <1>2, <1>3

-----------------------------------------------------------------------------
(* Where the last frame was taken: the car may have rolled on by a cell.   *)
Looked == IF moved THEN travelled - 1 ELSE travelled

(* The threshold comes from a line no further from the present light than  *)
(* it has drifted since, or there is none yet: then the car has not left   *)
(* the two cells of line it started on.                                    *)
Known ==
  \E origin \in Lights : \E taken \in Image["line"][origin] :
    /\ lastAvailableAverage = AvgVal(taken)
    /\ light - origin \in -drift .. drift

Fresh ==
  /\ lastAvailableAverage = 0
  /\ pc \in {"top", "look"}
  /\ travelled = IF moved THEN 1 ELSE 0

(* As many platforms have begun as were visited, but for the one the car   *)
(* stands on unsampled.  While tracking, the last frame was of a line, so  *)
(* a platform is seen in its first cell; at a stop the car stands in that  *)
(* cell; and while it waits for a NORMAL frame, no platform begins at the  *)
(* next cell, for there are two cells of line before it and the last frame *)
(* was of the platform, or of the first cell of line.                      *)
Stops(passed, cell) ==
  Len(visited) + (IF pc \in {"arrived", "sample"} THEN 1 ELSE 0) = Count(passed, cell)

Place(cell) ==
  /\ pc # "fault"
  /\ pc \in {"top", "look"} => At(cell) = 0
  /\ pc \in {"arrived", "sample", "announce", "report", "leave"} =>
       Begins(cell) /\ motor = "brake" /\ ~moved
  /\ pc = "discard" => Begins(cell)
  /\ pc = "leaving" => ~Begins(cell + 1)

Positioned(passed) ==
  /\ ~offTrack /\ Looked \in Nat
  /\ Stops(passed, Looked) /\ Place(Looked)

OrderInv(passed) ==
  Positioned(passed) /\ (Known \/ Fresh) /\ VisitsInOrder

LEMMA PlaceOfCar ==
  ASSUME TypeOK
  PROVE  /\ travelled \in Nat /\ moved \in BOOLEAN
         /\ Looked \in Int
         /\ travelled = IF moved THEN Looked + 1 ELSE Looked
<1>1. travelled \in Nat /\ moved \in BOOLEAN
  BY WorldAssumption DEF TypeOK
<1> QED BY <1>1 DEF Looked

(* What processCCD makes of the next frame: the threshold is good for it.  *)
LEMMA FrameIsKnown ==
  ASSUME TypeOK, NEW passed \in Passed, Laid(passed), WellLit,
         Positioned(passed), Known \/ Fresh, NEW result \in Captures
  PROVE  /\ At(travelled) = 0 => result.tracingStatus = STATUS_NORMAL
         /\ At(travelled) # 0 => result.tracingStatus = STATUS_PLATFORM
         /\ Captured(result) => Known'
<1>1. PICK frame \in View : result = ProcessCCD(frame, lastAvailableAverage)
  BY DEF Captures
<1> DEFINE ground == IF At(travelled) = 0 THEN "line" ELSE "platform"
<1>2. frame \in Image[ground][light]
  <2>1. Surface = ground
    BY DEF Surface, Here, At, Positioned
  <2> QED BY <1>1, <2>1 DEF View
<1>3. /\ result.tracingStatus = Status(frame, lastAvailableAverage)
      /\ result.lastAvailableAverage =
           IF result.tracingStatus = STATUS_NORMAL THEN AvgVal(frame)
                                                   ELSE lastAvailableAverage
  BY <1>1 DEF Status, ProcessCCD, NextAverage
<1>4. light \in Lights /\ light \in Int /\ drift \in Nat /\ drift <= MaxDrift
      /\ MaxDrift \in Nat
  BY WorldAssumption DEF TypeOK
<1>5. CASE Fresh
  <2>1. At(travelled) = 0
    <3>1. travelled = 0 \/ travelled = 1
      BY <1>5 DEF Fresh
    <3> QED BY <3>1, StartOfLine
  <2>2. Status(frame, lastAvailableAverage) = STATUS_NORMAL
    BY <1>2, <1>4, <1>5, <2>1 DEF WellLit, Fresh
  <2>3. ASSUME Captured(result) PROVE Known'
    <3>1. /\ lastAvailableAverage' = AvgVal(frame)
          /\ light' = light /\ drift' = 0
      BY <1>3, <2>2, <2>3 DEF Captured
    <3>2. frame \in Image["line"][light] /\ light - light \in -0 .. 0
      BY <1>2, <1>4, <2>1
    <3> QED BY <1>4, <3>1, <3>2 DEF Known
  <2> QED BY <1>3, <2>1, <2>2, <2>3
<1>6. CASE Known
  <2>1. PICK origin \in Lights : \E taken \in Image["line"][origin] :
          /\ lastAvailableAverage = AvgVal(taken)
          /\ light - origin \in -drift .. drift
    BY <1>6 DEF Known
  <2>2. PICK taken \in Image["line"][origin] :
          /\ lastAvailableAverage = AvgVal(taken)
          /\ light - origin \in -drift .. drift
    BY <2>1
  <2>3. light - origin \in -MaxDrift .. MaxDrift
    <3>1. origin \in Int
      BY WorldAssumption
    <3> QED BY <1>4, <2>2, <3>1
  <2>4. /\ At(travelled) = 0 =>
              Status(frame, lastAvailableAverage) = STATUS_NORMAL
        /\ At(travelled) # 0 =>
              Status(frame, lastAvailableAverage) = STATUS_PLATFORM
    BY <1>2, <1>4, <2>2, <2>3 DEF WellLit
  <2>5. ASSUME Captured(result) PROVE Known'
    <3>1. light' = light
      BY <2>5 DEF Captured
    <3>2. CASE At(travelled) = 0
      <4>1. lastAvailableAverage' = AvgVal(frame) /\ drift' = 0
        BY <1>3, <2>4, <2>5, <3>2 DEF Captured
      <4>2. frame \in Image["line"][light] /\ light - light \in -0 .. 0
        BY <1>2, <1>4, <3>2
      <4> QED BY <1>4, <3>1, <4>1, <4>2 DEF Known
    <3>3. CASE At(travelled) # 0
      <4>1. lastAvailableAverage' = lastAvailableAverage /\ drift' = drift
        BY <1>3, <2>4, <2>5, <3>3 DEF Captured, STATUS_NORMAL, STATUS_PLATFORM
      <4> QED BY <2>2, <3>1, <4>1 DEF Known
    <3> QED BY <3>2, <3>3
  <2> QED BY <1>3, <2>4, <2>5
<1> QED BY <1>5, <1>6

(* Between two frames the car moves a cell at most.                        *)
LEMMA CapturedPlace ==
  ASSUME TypeOK, NEW passed \in Passed, Laid(passed), Positioned(passed),
         NEW result, Captured(result)
  PROVE  /\ Looked' = travelled /\ Looked' \in Nat /\ ~moved' /\ ~offTrack'
         /\ Looked' = Looked \/ Looked' = Looked + 1
         /\ Looked' = Looked + 1 /\ ~Begins(Looked + 1)
              => Count(passed, Looked') = Count(passed, Looked)
<1>1. travelled' = travelled /\ moved' = FALSE /\ offTrack' = offTrack
  BY DEF Captured
<1>2. Looked' = travelled
  BY <1>1 DEF Looked
<1>3. Looked \in Nat /\ ~offTrack
  BY DEF Positioned
<1>4. travelled \in Nat /\ (travelled = Looked \/ travelled = Looked + 1)
  BY PlaceOfCar
<1>5. travelled = Looked + 1 /\ ~Begins(Looked + 1)
        => Count(passed, travelled) = Count(passed, Looked)
  BY <1>3, OneCellOn
<1> QED BY <1>1, <1>2, <1>3, <1>4, <1>5

(* Tracking: a line in sight begins no platform, ...                       *)
LEMMA TrackNormalOrder ==
  ASSUME TypeOK, NEW passed \in Passed, Laid(passed), WellLit,
         OrderInv(passed), TrackNormal
  PROVE  OrderInv(passed)'
<1>1. PICK result \in Captures :
        result.tracingStatus = STATUS_NORMAL /\ Captured(result)
  BY DEF TrackNormal
<1>2. /\ Positioned(passed) /\ (Known \/ Fresh) /\ VisitsInOrder
      /\ pc = "look" /\ pc' = "top" /\ visited' = visited
  BY DEF OrderInv, TrackNormal, history
<1>3. At(travelled) = 0 /\ Known'
  BY <1>1, <1>2, FrameIsKnown DEF STATUS_NORMAL, STATUS_PLATFORM
<1>4. /\ Looked' = travelled /\ Looked' \in Nat /\ ~moved' /\ ~offTrack'
      /\ Looked' = Looked \/ Looked' = Looked + 1
      /\ Looked' = Looked + 1 /\ ~Begins(Looked + 1)
           => Count(passed, Looked') = Count(passed, Looked)
  BY <1>1, <1>2, CapturedPlace
<1>5. At(Looked') = 0 /\ ~Begins(Looked')
  BY <1>3, <1>4 DEF Begins
<1>6. Count(passed, Looked') = Count(passed, Looked)
  BY <1>4, <1>5
<1>7. Len(visited) + 0 = Count(passed, Looked)
  BY <1>2 DEF Positioned, Stops
<1>8. Positioned(passed)'
  BY <1>2, <1>4, <1>5, <1>6, <1>7 DEF Positioned, Stops, Place
<1> QED BY <1>2, <1>3, <1>8 DEF OrderInv, VisitsInOrder

(* ... and a platform in sight begins where the car brakes.                *)
LEMMA ArrivePlatformOrder ==
  ASSUME TypeOK, NEW passed \in Passed, Laid(passed), WellLit,
         OrderInv(passed), ArrivePlatform
  PROVE  OrderInv(passed)'
<1>1. PICK result \in Captures :
        result.tracingStatus = STATUS_PLATFORM /\ Captured(result)
  BY DEF ArrivePlatform
<1>2. /\ Positioned(passed) /\ (Known \/ Fresh) /\ VisitsInOrder
      /\ pc = "look" /\ pc' = "arrived" /\ visited' = visited /\ motor' = "brake"
  BY DEF OrderInv, ArrivePlatform, history
<1>3. At(travelled) # 0 /\ Known'
  BY <1>1, <1>2, FrameIsKnown DEF STATUS_NORMAL, STATUS_PLATFORM
<1>4. /\ Looked' = travelled /\ Looked' \in Nat /\ ~moved' /\ ~offTrack'
      /\ Looked' = Looked \/ Looked' = Looked + 1
  BY <1>1, <1>2, CapturedPlace
<1>5. At(Looked) = 0 /\ Looked \in Nat /\ Len(visited) + 0 = Count(passed, Looked)
  BY <1>2 DEF Positioned, Stops, Place
<1>6. Looked' = Looked + 1 /\ Begins(Looked + 1)
  <2>1. Looked' = Looked + 1
    BY <1>3, <1>4, <1>5
  <2>2. (Looked + 1) - 1 = Looked
    BY <1>5
  <2> QED BY <1>3, <1>4, <1>5, <2>1, <2>2 DEF Begins
<1>7. Count(passed, Looked + 1) = Count(passed, Looked) + 1
  BY <1>5, <1>6, OneCellOn
<1>8. Len(visited) + 1 = Count(passed, Looked')
  BY <1>5, <1>6, <1>7
<1>9. Begins(Looked')
  BY <1>6
<1>10. Positioned(passed)'
  BY <1>2, <1>4, <1>8, <1>9 DEF Positioned, Stops, Place
<1> QED BY <1>2, <1>3, <1>10 DEF OrderInv, VisitsInOrder

(* The platform sampled is the one the n-th slot stands for.               *)
LEMMA SampleColorOrder ==
  ASSUME TypeOK, NEW passed \in Passed, Laid(passed),
         OrderInv(passed), SampleColor
  PROVE  OrderInv(passed)'
<1>1. /\ Positioned(passed) /\ (Known \/ Fresh) /\ VisitsInOrder
      /\ pc = "sample" /\ pc' = "announce" /\ motor' = motor
      /\ UNCHANGED <<lastAvailableAverage, travelled, moved, offTrack, light, drift>>
  BY DEF OrderInv, SampleColor, worldVars
<1>2. /\ Begins(Looked) /\ motor = "brake" /\ ~moved /\ ~offTrack /\ Looked \in Nat
      /\ Len(visited) + 1 = Count(passed, Looked)
  BY <1>1 DEF Positioned, Stops, Place
<1> DEFINE n == Len(visited) + 1
<1>3. travelled = Looked /\ At(Looked) # 0 /\ At(Looked - 1) = 0
  BY <1>2 DEF Looked, Begins
<1>4. visited' = Append(visited, At(Looked)) /\ n \in Nat
  BY <1>2, <1>3 DEF SampleColor, Here, At, TypeOK
<1>5. Len(visited') = n
  BY <1>4 DEF TypeOK
<1>6. At(Looked) = Slot(n) + 1
  <2>1. Looked - 1 \in Nat /\ (Looked - 1) + 1 = Looked
    <3>1. Looked # 0
      BY <1>3, StartOfLine
    <3> QED BY <1>2, <3>1
  <2>2. At(Looked) = Slot(Count(passed, Looked)) + 1
    <3>1. Begins((Looked - 1) + 1)
      BY <1>2, <2>1
    <3>2. At((Looked - 1) + 1) = Slot(Count(passed, (Looked - 1) + 1)) + 1
      BY <2>1, <3>1, OneCellOn
    <3> QED BY <2>1, <3>2
  <2> QED BY <1>2, <2>2
<1>7. VisitsInOrder'
  <2> SUFFICES ASSUME NEW k \in 1 .. n PROVE visited'[k] = Slot(k) + 1
    BY <1>4, <1>5 DEF VisitsInOrder, TypeOK
  <2>1. CASE k = n
    BY <2>1, <1>4, <1>6 DEF TypeOK
  <2>2. CASE k # n
    <3>1. k \in DOMAIN visited /\ visited'[k] = visited[k]
      BY <2>2, <1>4 DEF TypeOK
    <3> QED BY <1>1, <3>1 DEF VisitsInOrder
  <2> QED BY <2>1, <2>2
<1>8. Positioned(passed)'
  <2>1. Looked' = Looked
    BY <1>1 DEF Looked
  <2>2. Len(visited') + 0 = Count(passed, Looked)
    BY <1>2, <1>5
  <2> QED BY <1>1, <1>2, <2>1, <2>2 DEF Positioned, Stops, Place
<1>9. Known'
  BY <1>1 DEF Known, Fresh
<1> QED BY <1>7, <1>8, <1>9 DEF OrderInv

(* The first frame after a stop is of the platform still, or of the first  *)
(* cell of line behind it: none begins within two cells.                   *)
LEMMA DiscardOrder ==
  ASSUME TypeOK, NEW passed \in Passed, Laid(passed), WellLit,
         OrderInv(passed), Discard
  PROVE  OrderInv(passed)'
<1>1. PICK result \in Captures : Captured(result)
  BY DEF Discard
<1>2. /\ Positioned(passed) /\ (Known \/ Fresh) /\ VisitsInOrder
      /\ pc = "discard" /\ pc' = "leaving" /\ visited' = visited
  BY DEF OrderInv, Discard, history
<1>3. Known'
  BY <1>1, <1>2, FrameIsKnown
<1>4. /\ Looked' = travelled /\ Looked' \in Nat /\ ~moved' /\ ~offTrack'
      /\ Looked' = Looked \/ Looked' = Looked + 1
      /\ Looked' = Looked + 1 /\ ~Begins(Looked + 1)
           => Count(passed, Looked') = Count(passed, Looked)
  BY <1>1, <1>2, CapturedPlace
<1>5. Begins(Looked) /\ Looked \in Nat /\ Len(visited) + 0 = Count(passed, Looked)
  BY <1>2 DEF Positioned, Stops, Place
<1>6. ~Begins(Looked + 1) /\ ~Begins(Looked + 2)
  BY <1>5, PlatformsApart DEF Begins
<1>7. Count(passed, Looked') = Count(passed, Looked)
  BY <1>4, <1>6
<1>8. ~Begins(Looked' + 1)
  <2>1. (Looked + 1) + 1 = Looked + 2
    BY <1>5
  <2> QED BY <1>4, <1>6, <2>1
<1>9. Positioned(passed)'
  BY <1>2, <1>4, <1>5, <1>7, <1>8 DEF Positioned, Stops, Place
<1> QED BY <1>2, <1>3, <1>9 DEF OrderInv, VisitsInOrder

(* A NORMAL frame ends the wait on a cell of line; after any other the car *)
(* is on the platform still, and none begins behind a platform.            *)
LEMMA LeaveStepOrder ==
  ASSUME TypeOK, NEW passed \in Passed, Laid(passed), WellLit,
         OrderInv(passed), LeaveStep
  PROVE  OrderInv(passed)'
<1>1. PICK result \in Captures :
        /\ Captured(result)
        /\ pc' = IF BackOnTrack(result.tracingStatus) THEN "top" ELSE "leaving"
  BY DEF LeaveStep
<1>2. /\ Positioned(passed) /\ (Known \/ Fresh) /\ VisitsInOrder
      /\ pc = "leaving" /\ visited' = visited
  BY DEF OrderInv, LeaveStep, history
<1>3. /\ Known'
      /\ At(travelled) = 0 => pc' = "top"
      /\ At(travelled) # 0 => pc' = "leaving"
  BY <1>1, <1>2, FrameIsKnown DEF BackOnTrack, STATUS_NORMAL, STATUS_PLATFORM
<1>4. /\ Looked' = travelled /\ Looked' \in Nat /\ ~moved' /\ ~offTrack'
      /\ Looked' = Looked \/ Looked' = Looked + 1
      /\ Looked' = Looked + 1 /\ ~Begins(Looked + 1)
           => Count(passed, Looked') = Count(passed, Looked)
  BY <1>1, <1>2, CapturedPlace
<1>5. ~Begins(Looked + 1) /\ Looked \in Nat /\ Len(visited) + 0 = Count(passed, Looked)
  BY <1>2 DEF Positioned, Stops, Place
<1>6. Count(passed, Looked') = Count(passed, Looked)
  BY <1>4, <1>5
<1>7. /\ pc' = "top" => At(Looked') = 0
      /\ pc' = "leaving" => ~Begins(Looked' + 1)
  BY <1>3, <1>4, PlatformsApart
<1>8. Positioned(passed)'
  BY <1>2, <1>3, <1>4, <1>5, <1>6, <1>7 DEF Positioned, Stops, Place
<1> QED BY <1>2, <1>3, <1>8 DEF OrderInv, VisitsInOrder

(* The program's other steps see nothing and stay where they are.          *)
LEMMA OtherStepsOrder ==
  ASSUME TypeOK, NEW passed, OrderInv(passed),
         LoopTop \/ SwitchLamp \/ Announce \/ Report \/ Leave
  PROVE  OrderInv(passed)'
<1>1. /\ Positioned(passed) /\ (Known \/ Fresh) /\ VisitsInOrder
  BY DEF OrderInv
<1>2. UNCHANGED <<lastAvailableAverage, travelled, moved, offTrack, light, drift,
                  visited>>
  BY DEF LoopTop, SwitchLamp, Announce, Report, Leave, worldVars, history
<1>3. Looked' = Looked
  BY <1>2 DEF Looked
<1>4. Known => Known'
  BY <1>2 DEF Known
<1>5. Fresh => Fresh'
  BY <1>2 DEF Fresh, LoopTop, SwitchLamp, Announce, Report, Leave
<1>6. Positioned(passed)'
  <2>1. Stops(passed, Looked)' /\ Place(Looked)'
    BY <1>1, <1>2, <1>3 DEF Positioned, Stops, Place, LoopTop, SwitchLamp, Announce,
                            Report, Leave
  <2> QED BY <1>1, <1>2, <1>3, <2>1 DEF Positioned
<1> QED BY <1>1, <1>2, <1>4, <1>5, <1>6 DEF OrderInv, VisitsInOrder

(* The car rolls at most a cell before the next frame, and the light no    *)
(* further than it drifts.                                                 *)
LEMMA WorldOrder ==
  ASSUME TypeOK, NEW passed, OrderInv(passed), World, "derail" \notin Disturbances
  PROVE  OrderInv(passed)'
<1>1. /\ Positioned(passed) /\ (Known \/ Fresh) /\ VisitsInOrder
      /\ travelled \in Nat /\ moved \in BOOLEAN
  BY PlaceOfCar DEF OrderInv
<1>2. UNCHANGED <<pc, motor, lastAvailableAverage, visited>> /\ offTrack' = offTrack
  BY DEF World, Move, Derail, ChangeLight, TogglePin, Restock, programVars, history
<1>3. Looked' = Looked
  BY <1>1 DEF World, Move, Derail, ChangeLight, TogglePin, Restock, Looked
<1>4. moved' = moved \/ motor # "brake"
  BY DEF World, Move, Derail, ChangeLight, TogglePin, Restock
<1>5. Fresh => Fresh'
  BY <1>1, <1>2 DEF Fresh, World, Move, Derail, ChangeLight, TogglePin, Restock
<1>6. Known => Known'
  <2>1. CASE ChangeLight
    <3> SUFFICES ASSUME Known PROVE Known'
      OBVIOUS
    <3>1. PICK origin \in Lights : \E taken \in Image["line"][origin] :
            /\ lastAvailableAverage = AvgVal(taken)
            /\ light - origin \in -drift .. drift
      BY DEF Known
    <3>2. light' - origin \in -drift' .. drift'
      <4>1. origin \in Int /\ light \in Int /\ drift \in Nat
        BY WorldAssumption DEF TypeOK
      <4>2. (light' = light - 1 \/ light' = light + 1) /\ drift' = drift + 1
        BY <2>1 DEF ChangeLight
      <4> QED BY <3>1, <4>1, <4>2
    <3> QED BY <1>2, <3>1, <3>2 DEF Known
  <2>2. CASE ~ChangeLight
    <3>1. light' = light /\ drift' = drift
      BY <2>2 DEF World, Move, Derail, TogglePin, Restock
    <3> QED BY <1>2, <3>1 DEF Known
  <2> QED BY <2>1, <2>2
<1>7. Positioned(passed)'
  <2>1. Stops(passed, Looked)' /\ Place(Looked)'
    BY <1>1, <1>2, <1>3, <1>4 DEF Positioned, Stops, Place
  <2> QED BY <1>1, <1>2, <1>3, <2>1 DEF Positioned
<1> QED BY <1>1, <1>2, <1>5, <1>6, <1>7 DEF OrderInv, VisitsInOrder

LEMMA InitOrder ==
  ASSUME Init, NEW passed \in Passed, Laid(passed)
  PROVE  OrderInv(passed)
<1>1. Looked = 0 /\ Len(visited) = 0 /\ DOMAIN visited = {}
  BY DEF Init, Looked
<1>2. At(0) = 0 /\ Count(passed, 0) = 0
  BY StartOfLine
<1>3. Positioned(passed)
  BY <1>1, <1>2 DEF Positioned, Stops, Place, Init
<1>4. Fresh /\ VisitsInOrder
  BY <1>1 DEF Init, Fresh, VisitsInOrder
<1> QED BY <1>3, <1>4 DEF OrderInv

LEMMA OrderStep ==
  ASSUME NEW passed \in Passed, Laid(passed), WellLit, "derail" \notin Disturbances,
         TypeOK, OrderInv(passed), [Next]_vars
  PROVE  OrderInv(passed)'
<1>1. CASE Program
  <2>1. ~Fault
    <3> SUFFICES ASSUME Fault PROVE FALSE
      OBVIOUS
    <3>1. PICK result \in Captures : result.tracingStatus = STATUS_NO_TRACK
      BY DEF Fault
    <3> QED BY <3>1, FrameIsKnown
            DEF OrderInv, STATUS_NORMAL, STATUS_PLATFORM, STATUS_NO_TRACK
  <2>2. ~Blink
    BY DEF Blink, OrderInv, Positioned, Place
  <2> QED BY <1>1, <2>1, <2>2, TrackNormalOrder, ArrivePlatformOrder,
             SampleColorOrder, DiscardOrder, LeaveStepOrder, OtherStepsOrder
          DEF Program
<1>2. CASE World
  BY <1>2, WorldOrder
<1>3. CASE UNCHANGED vars
  <2>1. Looked' = Looked /\ (Known' <=> Known) /\ (Fresh' <=> Fresh)
    BY <1>3 DEF vars, programVars, worldVars, Looked, Known, Fresh
  <2>2. Stops(passed, Looked)' /\ Place(Looked)'
    BY <1>3, <2>1 DEF vars, programVars, worldVars, history, OrderInv, Positioned,
                      Stops, Place
  <2> QED BY <1>3, <2>1, <2>2 DEF vars, worldVars, history, OrderInv, Positioned,
                                  VisitsInOrder
<1> QED BY <1>1, <1>2, <1>3 DEF Next

(* Where the warehouse grants such a line and such a light and nobody      *)
(* pushes the car off it:                                                  *)
LEMMA OrderCorrect ==
  ASSUME WellLaid, WellLit, "derail" \notin Disturbances
  PROVE  Spec => [](VisitsInOrder /\ NeverFaults)
<1>1. PICK passed \in Passed : Laid(passed)
  BY DEF WellLaid, Passed
<1>2. Init => OrderInv(passed)
  BY <1>1, InitOrder
<1>3. TypeOK /\ OrderInv(passed) /\ [Next]_vars => OrderInv(passed)'
  BY <1>1, OrderStep
<1>4. OrderInv(passed) => VisitsInOrder /\ NeverFaults
  BY DEF OrderInv, Positioned, Place, NeverFaults
<1> QED BY <1>2, <1>3, <1>4, TypeCorrect, PTL DEF Spec

(* there, every stop of autoTrack is at the platform its slot in the       *)
(* package stands for: none is passed over, invented or counted twice,     *)
(* however the light drifts between two NORMAL frames, ...                 *)
THEOREM StopsInOrder ==
  ASSUME WellLaid, WellLit, "derail" \notin Disturbances
  PROVE  Spec => []VisitsInOrder
BY OrderCorrect, PTL

(* ... and autoTrack never ends in its blinking loop (autotrack.h 119).    *)
THEOREM TrackingNeverFaults ==
  ASSUME WellLaid, WellLit, "derail" \notin Disturbances
  PROVE  Spec => []NeverFaults
BY OrderCorrect, PTL

=============================================================================
