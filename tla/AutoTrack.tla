------------------------------ MODULE AutoTrack ------------------------------
(***************************************************************************)
(* The tracking mode: the endless loop of Task2 (src/bupt_car_2.ino) and   *)
(* the autoTrack it calls (src/dep/autotrack.h), with the shelves, the     *)
(* line, the light and the motor pin it runs against.                      *)
(*                                                                         *)
(* The program is one task, so its steps are sequential; what makes it     *)
(* hard is the world moving between them: the car rolls on between two     *)
(* captures, the pin is read before the capture and used after it, the     *)
(* threshold comes from an earlier frame, the goods change behind it.      *)
(* Steps are cut where such a change can come between two of the code's    *)
(* reads and writes.                                                       *)
(*                                                                         *)
(* Abstracted: the power the speed control computes (motor is "drive" or   *)
(* "creep" when motorForward has given power enough to roll, "idle" when   *)
(* it has not), the exposure of a frame, the display, the serial console   *)
(* and the length of the delays.                                           *)
(***************************************************************************)
EXTENDS Ccd, Sequences

CONSTANTS
  platform_num,   \* platforms on the line, one shelf each
  Colors,         \* the colors parseColor can return
  TrackLength,    \* the closed line is cut into this many cells;
  Track,          \* Track[cell] is 0 or the number of the platform there
  Lights,         \* levels of light
  Image,          \* Image[surface][light]: the frames the camera can take
  Disturbances,   \* what the world may do: "pin" "restock" "light" "derail"
  MaxDrift,       \* steps the light takes between two NORMAL frames
  MaxTravel       \* bound: cells travelled

COLOR_RED   == 0
COLOR_EMPTY == 4

Surfaces == {"line", "platform", "bare"}

ASSUME WorldAssumption ==
  /\ platform_num \in Nat \ {0}
  /\ {COLOR_RED, COLOR_EMPTY} \subseteq Colors
  /\ TrackLength \in Nat \ {0}
  /\ Track \in [0 .. TrackLength - 1 -> 0 .. platform_num]
  /\ Lights \subseteq Nat /\ Lights # {}
  /\ Image \in [Surfaces -> [Lights -> SUBSET Frame]]
  /\ MaxDrift \in Nat /\ MaxTravel \in Nat

VARIABLES
  pc,                    \* where Task2 is, see TypeOK
  motorEnable,           \* autoTrack's sample of the motor pin
  motor,                 \* what the bridge was told last
  servo,                 \* the pixel the wheels were turned to last, 64 straight
  previous_error,        \* of angelPID
  led, lamp,             \* the board led; the color sensor's lamp
  lastAvailableAverage,  \* processCCD's threshold
  location,              \* platforms reached since power-on
  package,               \* bt_data's package
  outbox                 \* what btSend was given, in order

VARIABLES
  travelled, moved,      \* cells travelled; whether one since the last capture
  offTrack,              \* the car has left the line for good
  light, drift,          \* the light, and its steps since the last NORMAL frame
  pin,                   \* PINOUT_MOTOR_ON
  goods,                 \* goods[k]: the color on the shelf of platform k
  visited, seen          \* history: platform and goods at every sample

programVars == <<pc, motorEnable, motor, servo, previous_error, led, lamp,
                 lastAvailableAverage, location, package, outbox>>
worldVars   == <<travelled, moved, offTrack, light, drift, pin, goods>>
history     == <<visited, seen>>
vars        == <<programVars, worldVars, history>>

Slots   == 0 .. platform_num - 1
Driving == {"drive", "creep"}

Owed == CASE pc = "announce" -> "reached"
          [] pc = "report"   -> "report"
          [] OTHER           -> "none"

P == INSTANCE Patrol WITH owed <- Owed

-----------------------------------------------------------------------------
Here    == Track[travelled % TrackLength]
Surface == IF offTrack THEN "bare" ELSE IF Here = 0 THEN "line" ELSE "platform"
View    == Image[Surface][light]

(* What lies under the color sensor.                                       *)
GoodsHere == IF offTrack \/ Here = 0 THEN COLOR_EMPTY ELSE goods[Here]

(* The sensor was calibrated with its lamp on; in the dark nothing exceeds *)
(* the blank reading, which getRGB subtracts.                              *)
GetRGB == IF lamp THEN GoodsHere ELSE COLOR_EMPTY

(* motorForward: a zero speed idles the motor; any other may give it no    *)
(* power to roll with either, when the speed PID is wound down             *)
(* (SpeedControl).                                                         *)
MotorForward(speed) == IF motorEnable THEN {speed, "idle"} ELSE {"idle"}

(* servoWritePixel(angelPID.update(error) + 64) with kp = 1, ki = 0,       *)
(* kd = 0.1: the float argument is truncated towards zero to an int.  The  *)
(* mutants take kd for 10, and kp for 0.                                   *)
MutantSteer(error) == error + 10 * (error - previous_error) + 64
MutantSteersOnChange(error) == (error - previous_error) \div 10 + 64
Steer(error) ==
  LET tenths == 11 * error - previous_error + 640
  IN  IF tenths >= 0 THEN tenths \div 10 ELSE -((-tenths) \div 10)

(* bt_data *)
MutantSlot(stop) == stop % platform_num
Slot(stop) == (stop - 1) % platform_num

SetCargo(stop, color) == [package EXCEPT !.cargo_type[Slot(stop)] = color]

MutantSkipsALap(stop) == (stop + 1) % platform_num = 0
FullCircle(stop) == stop % platform_num = 0

MutantLap(stop) == stop \div platform_num + 1
Lap(stop) == stop \div platform_num

(* The loop after a platform ends on this status. *)
MutantLeavesOnPlatform(status) == status # STATUS_NO_TRACK
BackOnTrack(status) == status = STATUS_NORMAL

-----------------------------------------------------------------------------
(* The top of Task2's loop: setup has turned the lamp on for the blank     *)
(* color and found a frame with a line in it, so the car stands on a line. *)
Init ==
  /\ pc = "top"
  /\ motorEnable = FALSE /\ motor = "idle"
  /\ servo = 64 /\ previous_error = 0
  /\ led = FALSE /\ lamp = TRUE
  /\ lastAvailableAverage = 0
  /\ location = 0
  /\ package = [count |-> 0, cargo_type |-> [slot \in Slots |-> COLOR_RED]]
  /\ outbox = <<>>
  /\ Track[0] = 0 /\ travelled = 0 /\ moved = FALSE /\ offTrack = FALSE
  /\ light \in Lights /\ drift = 0
  /\ pin \in BOOLEAN /\ ("pin" \in Disturbances \/ pin)
  /\ goods \in [1 .. platform_num -> Colors]
  /\ visited = <<>> /\ seen = <<>>

(* autoTrack is called and samples the motor pin.                          *)
LoopTop ==
  /\ pc = "top"
  /\ motorEnable' = pin
  /\ pc' = "look"
  /\ UNCHANGED <<motor, servo, previous_error, led, lamp, lastAvailableAverage,
                 location, package, outbox, worldVars, history>>

(* A capture: what processCCD can make of what is under the camera now.    *)
(* Until the next capture the car may roll on by a cell.                   *)
Captures == {ProcessCCD(frame, lastAvailableAverage) : frame \in View}

Captured(result) ==
  /\ lastAvailableAverage' = result.lastAvailableAverage
  /\ drift' = IF result.tracingStatus = STATUS_NORMAL THEN 0 ELSE drift
  /\ moved' = FALSE
  /\ UNCHANGED <<travelled, offTrack, light, pin, goods>>

TrackNormal ==
  /\ pc = "look"
  /\ \E result \in Captures :
       /\ result.tracingStatus = STATUS_NORMAL
       /\ Captured(result)
       /\ LET error == result.trackMidPixel - 64
          IN  servo' = Steer(error) /\ previous_error' = error
  /\ led' = FALSE
  /\ motor' \in MotorForward("drive")
  /\ pc' = "top"
  /\ UNCHANGED <<motorEnable, lamp, location, package, outbox, history>>

ArrivePlatform ==
  /\ pc = "look"
  /\ \E result \in Captures :
       result.tracingStatus = STATUS_PLATFORM /\ Captured(result)
  /\ led' = TRUE
  /\ servo' = 64
  /\ motor' = "brake"
  /\ location' = location + 1
  /\ pc' = "arrived"
  /\ UNCHANGED <<motorEnable, previous_error, lamp, package, outbox, history>>

(* The default case: stop and blink for ever.  The mutants look for the    *)
(* line again, and forget to brake.                                        *)
MutantRetries ==
  /\ pc = "look"
  /\ \E result \in Captures :
       result.tracingStatus = STATUS_NO_TRACK /\ Captured(result)
  /\ led' = FALSE
  /\ pc' = "top"
  /\ UNCHANGED <<motorEnable, motor, servo, previous_error, lamp, location,
                 package, outbox, history>>

MutantFaultRolls ==
  /\ pc = "look"
  /\ \E result \in Captures :
       result.tracingStatus = STATUS_NO_TRACK /\ Captured(result)
  /\ led' = FALSE
  /\ previous_error' = 0
  /\ servo' = 64
  /\ pc' = "fault"
  /\ UNCHANGED <<motorEnable, motor, lamp, location, package, outbox, history>>

Fault ==
  /\ pc = "look"
  /\ \E result \in Captures :
       result.tracingStatus = STATUS_NO_TRACK /\ Captured(result)
  /\ led' = FALSE
  /\ previous_error' = 0
  /\ servo' = 64
  /\ motor' = "brake"
  /\ pc' = "fault"
  /\ UNCHANGED <<motorEnable, lamp, location, package, outbox, history>>

Blink ==
  /\ pc = "fault"
  /\ led' = ~led
  /\ UNCHANGED <<pc, motorEnable, motor, servo, previous_error, lamp,
                 lastAvailableAverage, location, package, outbox, worldVars,
                 history>>

-----------------------------------------------------------------------------
(* At a platform: a second's rest, then the lamp goes on, ...              *)
MutantStaysDark ==
  /\ pc = "arrived"
  /\ pc' = "sample"
  /\ UNCHANGED <<motorEnable, motor, servo, previous_error, led, lamp,
                 lastAvailableAverage, location, package, outbox, worldVars,
                 history>>

SwitchLamp ==
  /\ pc = "arrived"
  /\ lamp' = TRUE
  /\ pc' = "sample"
  /\ UNCHANGED <<motorEnable, motor, servo, previous_error, led,
                 lastAvailableAverage, location, package, outbox, worldVars,
                 history>>

(* ... after the countdown the goods are sampled and the lamp goes off ... *)
SampleColor ==
  /\ pc = "sample"
  /\ package' = SetCargo(location, GetRGB)
  /\ lamp' = FALSE
  /\ visited' = Append(visited, IF offTrack THEN 0 ELSE Here)
  /\ seen' = Append(seen, GoodsHere)
  /\ pc' = "announce"
  /\ UNCHANGED <<motorEnable, motor, servo, previous_error, led,
                 lastAvailableAverage, location, outbox, worldVars>>

(* ... the visit is announced, and a full circle reported.                 *)
Announce ==
  /\ pc = "announce"
  /\ outbox' = Append(outbox, P!Reached)
  /\ pc' = IF FullCircle(location) THEN "report" ELSE "leave"
  /\ UNCHANGED <<motorEnable, motor, servo, previous_error, led, lamp,
                 lastAvailableAverage, location, package, worldVars, history>>

Report ==
  /\ pc = "report"
  /\ package' = [package EXCEPT !.count = Lap(location)]
  /\ outbox' = Append(outbox, P!Report(package'.count, package'.cargo_type))
  /\ pc' = "leave"
  /\ UNCHANGED <<motorEnable, motor, servo, previous_error, led, lamp,
                 lastAvailableAverage, location, worldVars, history>>

(* Creep on with the pin as it was sampled before the platform was seen.   *)
MutantForgetsToStart ==
  /\ pc = "leave"
  /\ pc' = "discard"
  /\ UNCHANGED <<motorEnable, motor, servo, previous_error, led, lamp,
                 lastAvailableAverage, location, package, outbox, worldVars,
                 history>>

Leave ==
  /\ pc = "leave"
  /\ motor' \in MotorForward("creep")
  /\ pc' = "discard"
  /\ UNCHANGED <<motorEnable, servo, previous_error, led, lamp,
                 lastAvailableAverage, location, package, outbox, worldVars,
                 history>>

(* The first frame's status is overwritten unread; its threshold is kept.  *)
Discard ==
  /\ pc = "discard"
  /\ \E result \in Captures : Captured(result)
  /\ pc' = "leaving"
  /\ UNCHANGED <<motorEnable, motor, servo, previous_error, led, lamp, location,
                 package, outbox, history>>

LeaveStep ==
  /\ pc = "leaving"
  /\ \E result \in Captures :
       /\ Captured(result)
       /\ pc' = IF BackOnTrack(result.tracingStatus) THEN "top" ELSE "leaving"
  /\ UNCHANGED <<motorEnable, motor, servo, previous_error, led, lamp, location,
                 package, outbox, history>>

Program ==
  \/ LoopTop \/ TrackNormal \/ ArrivePlatform \/ Fault \/ Blink
  \/ SwitchLamp \/ SampleColor \/ Announce \/ Report
  \/ Leave \/ Discard \/ LeaveStep

-----------------------------------------------------------------------------
(* The world.  The car rolls on, driven or coasting, unless it brakes: at  *)
(* most one cell between two captures.                                     *)
Move ==
  /\ motor # "brake" /\ ~offTrack /\ ~moved
  /\ travelled < MaxTravel
  /\ travelled' = travelled + 1
  /\ moved' = TRUE
  /\ UNCHANGED <<programVars, offTrack, light, drift, pin, goods, history>>

(* A rolling car leaves the line, and nobody puts it back.                 *)
Derail ==
  /\ "derail" \in Disturbances
  /\ motor # "brake" /\ ~offTrack
  /\ offTrack' = TRUE
  /\ UNCHANGED <<programVars, travelled, moved, light, drift, pin, goods, history>>

ChangeLight ==
  /\ "light" \in Disturbances
  /\ drift < MaxDrift
  /\ light' \in Lights \cap {light - 1, light + 1}
  /\ drift' = drift + 1
  /\ UNCHANGED <<programVars, travelled, moved, offTrack, pin, goods, history>>

TogglePin ==
  /\ "pin" \in Disturbances
  /\ pin' = ~pin
  /\ UNCHANGED <<programVars, travelled, moved, offTrack, light, drift, goods,
                 history>>

Restock ==
  /\ "restock" \in Disturbances
  /\ \E shelf \in 1 .. platform_num, color \in Colors :
       goods' = [goods EXCEPT ![shelf] = color]
  /\ UNCHANGED <<programVars, travelled, moved, offTrack, light, drift, pin,
                 history>>

World == Move \/ Derail \/ ChangeLight \/ TogglePin \/ Restock

Next == Program \/ World

Spec == Init /\ [][Next]_vars

(* The task keeps running; a car that tracks with its motor enabled, told  *)
(* to drive over and over, is not left without power for ever              *)
(* (RegainsPower of SpeedControl); and one with power rolls.  A stop's one *)
(* call of motorForward may fail to give it any.                           *)
Fairness ==
  /\ WF_vars(Program)
  /\ []<>(pc = "look" /\ motorEnable) => []<>(motor # "idle")
  /\ SF_vars(Move /\ motor \in Driving)

FairSpec == Spec /\ Fairness

-----------------------------------------------------------------------------
TypeOK ==
  /\ pc \in {"top", "look", "arrived", "sample", "announce", "report",
             "leave", "discard", "leaving", "fault"}
  /\ motorEnable \in BOOLEAN
  /\ motor \in {"idle", "brake"} \cup Driving
  /\ servo \in -13 .. 140 /\ previous_error \in -65 .. 64
  /\ led \in BOOLEAN /\ lamp \in BOOLEAN
  /\ lastAvailableAverage \in 0 .. cMaxReading
  /\ location \in Nat
  /\ package \in [count : Nat, cargo_type : [Slots -> Colors]]
  /\ outbox \in Seq(P!Message)
  /\ travelled \in 0 .. MaxTravel /\ moved \in BOOLEAN
  /\ offTrack \in BOOLEAN
  /\ light \in Lights /\ drift \in 0 .. MaxDrift
  /\ pin \in BOOLEAN
  /\ goods \in [1 .. platform_num -> Colors]
  /\ visited \in Seq(0 .. platform_num) /\ seen \in Seq(Colors)

(* location counts the visits; the lamp the sensor was calibrated with is  *)
(* on when the sensor is read; the package always holds the last           *)
(* platform_num visits, each in its own slot.                              *)
CountsVisits ==
  /\ location = Len(seen) + (IF pc \in {"arrived", "sample"} THEN 1 ELSE 0)
  /\ pc \in {"announce", "report"} => seen # <<>>
  /\ pc = "report" => FullCircle(location)

LampOnWhenRead == pc = "sample" => lamp

PackageHoldsLastRound ==
  \A k \in DOMAIN seen :
    k + platform_num > Len(seen) => package.cargo_type[Slot(k)] = seen[k]

(* The inductive invariant behind the implementation of Patrol.            *)
PatrolInv == CountsVisits /\ LampOnWhenRead /\ PackageHoldsLastRound

(* autoTrack implements Patrol: whatever the light, the pin, the shelves   *)
(* and the line do, every stop is announced, the report of a circle comes  *)
(* after its last announcement and before any other, and it carries the    *)
(* goods sampled in that circle.                                           *)
ImplementsPatrol == P!Spec

(* The Bluetooth stream of Patrol, see there.                              *)
StreamMatchesVisits == P!StreamMatchesVisits

-----------------------------------------------------------------------------
(* What the warehouse has to grant for the next two properties.  The line: *)
(* passed[cell] platforms have begun between the start and the cell, one   *)
(* after the other, and before each there are two cells of line, for the   *)
(* first frame after a stop is not looked at ...                           *)
Laid(passed) ==
  /\ Track[0] = 0 /\ passed[0] = 0
  /\ passed[TrackLength - 1] = platform_num
  /\ \A cell \in 1 .. TrackLength - 1 :
       \/ Track[cell] = 0 /\ passed[cell] = passed[cell - 1]
       \/ /\ Track[cell] = Track[cell - 1]
          /\ passed[cell] = passed[cell - 1]
       \/ /\ Track[cell] = passed[cell - 1] + 1 /\ passed[cell] = passed[cell - 1] + 1
          /\ cell >= 2 /\ Track[cell - 1] = 0 /\ Track[cell - 2] = 0

WellLaid ==
  \E passed \in [0 .. TrackLength - 1 -> 0 .. platform_num] : Laid(passed)

(* ... and the light: with a threshold taken from a line no more than      *)
(* MaxDrift levels away, or none yet, the camera knows a line, and with    *)
(* such a threshold a platform.                                            *)
Status(frame, threshold) == ProcessCCD(frame, threshold).tracingStatus

WellLit ==
  \A level \in Lights :
    /\ \A frame \in Image["line"][level] : Status(frame, 0) = STATUS_NORMAL
    /\ \A origin \in Lights : level - origin \in -MaxDrift .. MaxDrift =>
         \A taken \in Image["line"][origin] :
           /\ \A frame \in Image["line"][level] :
                Status(frame, AvgVal(taken)) = STATUS_NORMAL
           /\ \A frame \in Image["platform"][level] :
                Status(frame, AvgVal(taken)) = STATUS_PLATFORM

(* The n-th stop is at the platform the n-th slot of the package stands    *)
(* for: no platform is counted twice, passed over or invented.  It is what *)
(* makes the position a report gives a color true, and it relies on the    *)
(* classification of frames, on the wait for a NORMAL frame after a stop   *)
(* and on the car's speed, not on a platform's identity, which the code    *)
(* never sees.                                                             *)
VisitsInOrder ==
  \A n \in DOMAIN visited : visited[n] = Slot(n) + 1

(* On the line, the light drifting no faster than NORMAL frames follow it, *)
(* processCCD never reports NO_TRACK to autoTrack's final case.            *)
NeverFaults == pc # "fault"

(* A line lost while tracking always ends in the blinking loop ...         *)
LostLineFaults == (offTrack /\ pc \in {"top", "look"}) ~> (pc = "fault")

(* ... which is final: the car is braked and nothing moves it again.       *)
FaultIsFinal ==
  [][pc = "fault" => /\ pc' = "fault" /\ motor' = "brake"
                     /\ travelled' = travelled]_vars

(* The one call of motorForward at a stop has given no power, the pin      *)
(* having been low before the stop or the PID wound down; the loop behind  *)
(* it waits for the car to move and does not call again.                   *)
Stranded == pc = "leaving" /\ motor = "idle"

(* That is the only way to stay at a platform: whatever the pin does, a    *)
(* car that stops either strands or finds the line again and goes back to  *)
(* tracking (autotrack.h 107-114), unless it leaves the line, ...          *)
LeavesPlatform == (pc = "arrived") ~> (pc = "top" \/ Stranded \/ offTrack)

(* ... and so, on the line and its pin attached in the end, it completes   *)
(* and reports its circles, or strands for good.                           *)
EveryRoundReported ==
  []~offTrack /\ <>[]pin =>
    \/ <>(\E m \in DOMAIN outbox : /\ outbox[m].kind = "report"
                                   /\ outbox[m].count = MaxTravel \div TrackLength)
    \/ <>[]Stranded

(* Whatever frame it had before, however long ago (a stop does not reset   *)
(* the heading PID, autotrack.h 66): a line more than six pixels off the   *)
(* middle is steered towards.                                              *)
SteersToTheLine ==
  [][TrackNormal => /\ previous_error' > 6  => servo' > 64
                    /\ previous_error' < -6 => servo' < 64]_vars

(* bupt_car_2.ino on PINOUT_MOTOR_ON: "detatch this pin will disable the   *)
(* motor".  Once the pin stays detached the motor stops being driven.      *)
PinDisablesMotor == <>[]~pin => <>[](motor \notin Driving)

(* autotrack.h on the loop after a platform: "return to normal tracking    *)
(* mode after a valid track has been appeared".                            *)
ReturnsToTracking == (pc = "leaving" /\ Surface = "line") ~> (pc = "top")

=============================================================================
