---------------------------- MODULE SpeedControl ----------------------------
(***************************************************************************)
(* How fast the car goes and how hard its motors pull: the encoder's       *)
(* interrupt and getSpeed (dep/speedControl.h), the speed PID (dep/pid.h)  *)
(* and the bridge (dep/motor.h), as autoTrack calls them.                  *)
(*                                                                         *)
(* The interrupt may come between any two statements of getSpeed.          *)
(* Abstracted: floating point.  Speeds are in sixtieths of a pulse per     *)
(* millisecond, rounded down where the time between two calls does not     *)
(* divide 60, and powers in units of 500/3.                                *)
(***************************************************************************)
EXTENDS Integers

CONSTANTS
  ClockSize,   \* values of millis, 2^32
  Windows,     \* milliseconds from one call of getSpeed to the next,
  StopWindows, \* with a stop between them
  PulseCounts, \* pulses while the car waits for something
  MaxPulses,   \* bound: pulses in one call of getSpeed
  MaxCalls     \* bound: calls of getSpeed before the car comes to stand

ASSUME SpeedAssumption ==
  /\ ClockSize \in Nat \ {0}
  /\ Windows \cup StopWindows \subseteq 1 .. ClockSize - 1
  /\ PulseCounts \subseteq Nat
  /\ MaxPulses \in Nat /\ MaxCalls \in Nat

VARIABLES
  millis,       \* the clock
  rotateCount,
  lastTime,
  deltaTime,
  counted,      \* the rotateCount that getSpeed read
  pc            \* which of getSpeed's statements comes next, see TypeOK

VARIABLES
  platform,        \* autoTrack has braked and has not seen the line since
  command,         \* the last order: a speed, 0 for idle, or BRAKE
  I,               \* motorPID
  previous_error,
  bridge           \* left front, left back, right front, right back

VARIABLES
  elapsed,  \* history: milliseconds since getSpeed read the clock,
  turned,   \* history: the pulses since then,
  inside,   \* history: those of them that came before getSpeed returned,
  before,   \* history: the three when it last read the clock,
  calls     \* calls of getSpeed so far

encoderVars == <<millis, rotateCount>>
speedVars   == <<lastTime, deltaTime, counted>>
motorVars   == <<platform, command, I, previous_error, bridge>>
history     == <<elapsed, turned, inside, before, calls>>
vars        == <<encoderVars, speedVars, pc, motorVars, history>>

aim_speed     == 30
creep_speed   == aim_speed \div 3
cDefaultPower == 144
cMaximumPower == 192
maxResolution == 393

BRAKE  == -1
Speeds == {aim_speed, creep_speed}

Driving == command \in Speeds /\ bridge[1] > 0

-----------------------------------------------------------------------------
Init ==
  /\ millis = 0 /\ rotateCount = 0
  /\ lastTime = 0 /\ deltaTime = 0 /\ counted = 0
  /\ pc = "caller"
  /\ platform = FALSE /\ command = 0 /\ I = 0 /\ previous_error = 0
  /\ bridge = <<0, 0, 0, 0>>
  /\ elapsed = 0 /\ turned = 0 /\ inside = 0
  /\ before = [elapsed |-> 0, turned |-> 0, inside |-> 0] /\ calls = 0

(* motorCountInterrupt, n times.                                           *)
MotorCountInterrupt(n) ==
  /\ rotateCount' = rotateCount + n
  /\ turned' = turned + n

(* The rest of the loop: a frame, or the delays of a stop.                 *)
Wait ==
  /\ pc = "caller"
  /\ \E window \in IF command = BRAKE THEN StopWindows ELSE Windows :
       /\ window > elapsed
       /\ elapsed' = window
       /\ millis' = (millis + window - elapsed) % ClockSize
  /\ \E n \in IF calls < MaxCalls THEN PulseCounts ELSE {0} :
       MotorCountInterrupt(n)
  /\ UNCHANGED <<speedVars, pc, motorVars, inside, before, calls>>

(* The interrupt in the middle of getSpeed.                                *)
Interrupt ==
  /\ pc # "caller" /\ inside < MaxPulses /\ calls < MaxCalls
  /\ MotorCountInterrupt(1)
  /\ inside' = inside + 1
  /\ UNCHANGED <<millis, speedVars, pc, motorVars, elapsed, before, calls>>

-----------------------------------------------------------------------------
(* autoTrack calls motorForward at every frame of the line, and once at    *)
(* the end of a stop.                                                      *)
CallsMotorForward == pc = "caller" /\ (platform => command = BRAKE)

MutantMotorIdle ==
  /\ CallsMotorForward /\ calls < MaxCalls
  /\ command' = 0
  /\ bridge' = [bridge EXCEPT ![1] = 0, ![3] = 0]
  /\ UNCHANGED <<encoderVars, speedVars, pc, platform, I, previous_error, history>>

(* motorForward(0), the motor pin being low, ...                           *)
MotorIdle ==
  /\ CallsMotorForward /\ calls < MaxCalls
  /\ command' = 0
  /\ bridge' = <<0, 0, 0, 0>>
  /\ UNCHANGED <<encoderVars, speedVars, pc, platform, I, previous_error, history>>

(* ... motorBrake, at a platform or with the line lost, ...                *)
MotorBrake ==
  /\ pc = "caller" /\ calls < MaxCalls /\ ~platform
  /\ platform' = TRUE
  /\ command' = BRAKE
  /\ bridge' = [channel \in 1 .. 4 |-> maxResolution]
  /\ UNCHANGED <<encoderVars, speedVars, pc, I, previous_error, history>>

(* ... and the NORMAL frame that ends the loop behind a stop.              *)
FindTrack ==
  /\ pc = "caller" /\ platform /\ command # BRAKE
  /\ platform' = FALSE
  /\ UNCHANGED <<encoderVars, speedVars, pc, command, I, previous_error, bridge,
                 history>>

(* motorForward of another speed, the full one on the line, its third at a *)
(* stop; a frame at least, or the stop, has passed since the last.         *)
(* getSpeed reads the clock, ...                                           *)
MotorForward(aimSpeed) ==
  /\ CallsMotorForward /\ elapsed > 0 /\ (platform => elapsed \in StopWindows)
  /\ aimSpeed = IF platform THEN creep_speed ELSE aim_speed
  /\ calls < MaxCalls \/ ~Driving
  /\ command' = aimSpeed
  /\ deltaTime' = (millis - lastTime) % ClockSize
  /\ lastTime' = millis
  /\ pc' = "count"
  /\ elapsed' = 0 /\ turned' = 0 /\ inside' = 0
  /\ before' = [elapsed |-> elapsed, turned |-> turned, inside |-> inside]
  /\ calls' = IF calls < MaxCalls THEN calls + 1 ELSE calls
  /\ UNCHANGED <<encoderVars, counted, platform, I, previous_error, bridge>>

(* ... the count, ...                                                      *)
ReadCount ==
  /\ pc = "count"
  /\ counted' = rotateCount
  /\ pc' = "reset"
  /\ UNCHANGED <<encoderVars, lastTime, deltaTime, motorVars, history>>

Speed == (60 * counted) \div deltaTime

MutantUpdate(error) ==
  /\ I' = IF error < 0 THEN I + error ELSE I
  /\ previous_error' = error

(* pid::update, and its value.                                             *)
Update(error) ==
  /\ I' = I + error
  /\ previous_error' = error

PID(error) == 8 * error + (I + error) + (error - previous_error)

MutantMotorControl(lPower, rPower) == bridge' = <<lPower, 0, rPower, 0>>

Positive(power) == IF power < 0 THEN 0 ELSE power

(* motorControl, forward: its own clamp is what keeps a power from below.  *)
MotorControl(lPower, rPower) ==
  bridge' = <<Positive(lPower), 0, Positive(rPower), 0>>

MutantResetCount == rotateCount' = rotateCount

ResetCount == rotateCount' = 0

(* ... and resets it; then motorForward goes on.                           *)
Reset ==
  /\ pc = "reset"
  /\ ResetCount
  /\ LET error == command - Speed
         p     == cDefaultPower + PID(error)
         power == IF p > cMaximumPower THEN cMaximumPower ELSE p
     IN  Update(error) /\ MotorControl(power, power)
  /\ pc' = "caller"
  /\ UNCHANGED <<millis, speedVars, platform, command, history>>

Next ==
  \/ Wait \/ Interrupt \/ MotorIdle \/ MotorBrake \/ FindTrack
  \/ \E aimSpeed \in Speeds : MotorForward(aimSpeed)
  \/ ReadCount \/ Reset

Spec == Init /\ [][Next]_vars

(* Frames follow each other, and each of the line calls motorForward.      *)
FairSpec ==
  /\ Spec
  /\ WF_vars(Wait /\ elapsed = 0)
  /\ WF_vars(MotorForward(aim_speed))
  /\ WF_vars(ReadCount) /\ WF_vars(Reset)

-----------------------------------------------------------------------------
TypeOK ==
  /\ millis \in 0 .. ClockSize - 1 /\ lastTime \in 0 .. ClockSize - 1
  /\ deltaTime \in 0 .. ClockSize - 1
  /\ rotateCount \in Nat /\ counted \in Nat
  /\ pc \in {"caller", "count", "reset"}
  /\ platform \in BOOLEAN /\ command \in {0, BRAKE} \cup Speeds
  /\ I \in Int /\ previous_error \in Int
  /\ bridge \in [1 .. 4 -> 0 .. maxResolution]
  /\ {elapsed, turned, inside} \subseteq Nat
  /\ before \in [elapsed : Nat, turned : Nat, inside : Nat]
  /\ calls \in 0 .. MaxCalls

(* What getSpeed measures (lines 29-40) is the time between its two reads  *)
(* of the clock, also when millis has wrapped, and the pulses of that      *)
(* time, but for those that fell inside its calls: the ones of the call    *)
(* before are missing, counted then or lost with the reset, and the ones   *)
(* of this call may be in.  No pulse is counted in two speeds.             *)
SpeedHonest ==
  pc = "reset" =>
    LET sure == before.turned - before.inside
    IN  /\ deltaTime = before.elapsed
        /\ counted \in sure .. sure + inside

(* Between two calls the bridge does what the last order says: a car that  *)
(* is driven never brakes and never goes backwards, whatever the PID's     *)
(* integral has grown to, and what an order leaves on a channel is gone    *)
(* with the next (motor.h 44-97; line 95 clamps the wrong variable).       *)
MotorObeys ==
  pc = "caller" =>
    CASE command = 0 -> bridge = <<0, 0, 0, 0>>
      [] command = BRAKE -> bridge = [channel \in 1 .. 4 |-> maxResolution]
      [] OTHER -> /\ bridge[1] = bridge[3] /\ bridge[1] \in 0 .. cMaximumPower
                  /\ bridge[2] = 0 /\ bridge[4] = 0

(* A car that has come to stand on the line and is told to drive at every  *)
(* frame gets power in the end, however far below zero the time it went    *)
(* too fast has wound the integral, which nothing bounds and no stop       *)
(* resets (pid.h 16, motor.h 91).                                          *)
RegainsPower == (calls = MaxCalls /\ ~platform) ~> Driving

(* autotrack.h on the call at the end of a stop: "detection ended, move    *)
(* forward, and return to normal tracking mode after a valid track has     *)
(* been appeared".                                                         *)
MovesForward == (platform /\ command = creep_speed) ~> (Driving \/ ~platform)

=============================================================================
