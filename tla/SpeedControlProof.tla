------------------------- MODULE SpeedControlProof -------------------------
(***************************************************************************)
(* For every size of the clock, every pattern of frames and pulses: the    *)
(* speed the PID gets is honest and the bridge does what it is told.       *)
(***************************************************************************)
EXTENDS SpeedControl, TLAPS

AllWindows == Windows \cup StopWindows

(* The clock shows the time elapsed, wrapped at most once.                 *)
ClockInv ==
  /\ elapsed \in AllWindows \cup {0}
  /\ \/ millis = lastTime + elapsed
     \/ millis = lastTime + elapsed - ClockSize

(* Where the pulses are: all those since getSpeed returned are in the      *)
(* count; in a call, those since the call before returned are.             *)
PulseInv ==
  LET sure == before.turned - before.inside
  IN  /\ pc = "caller" => rotateCount = turned - inside
      /\ pc # "caller" => /\ turned = inside
                          /\ deltaTime = before.elapsed
                          /\ before.elapsed \in AllWindows
                          /\ command \in Speeds
      /\ pc = "count"  => rotateCount = sure + inside
      /\ pc = "reset"  => counted \in sure .. sure + inside

IInv == TypeOK /\ ClockInv /\ PulseInv /\ MotorObeys

-----------------------------------------------------------------------------
(* A positive multiple of n is at least n.                                 *)
LEMMA PositiveMultiple ==
  ASSUME NEW n \in Nat \ {0}, NEW k \in Int, k >= 1
  PROVE  n * k \in Int /\ n * k >= n
  OBVIOUS

(* The division theorem ...                                                *)
LEMMA DivMod ==
  ASSUME NEW n \in Nat \ {0}, NEW a \in Int
  PROVE  /\ a \div n \in Int
         /\ a % n \in 0 .. n - 1
         /\ a = n * (a \div n) + (a % n)
  OBVIOUS

(* ... and its converse: quotient and remainder are unique.                *)
LEMMA DivModUnique ==
  ASSUME NEW n \in Nat \ {0}, NEW q \in Int, NEW r \in 0 .. n - 1
  PROVE  (n * q + r) \div n = q /\ (n * q + r) % n = r
<1> DEFINE a == n * q + r
           d == a \div n
           m == a % n
<1>1. a \in Int /\ d \in Int /\ m \in 0 .. n - 1 /\ a = n * d + m
  <2>1. a \in Int
    OBVIOUS
  <2> HIDE DEF a
  <2> QED BY <2>1, DivMod
<1>2. n * (d - q) = r - m /\ n * (q - d) = m - r
  BY <1>1
<1>3. ~(d - q >= 1)
  BY <1>1, <1>2, PositiveMultiple
<1>4. ~(q - d >= 1)
  BY <1>1, <1>2, PositiveMultiple
<1>5. d = q
  BY <1>1, <1>3, <1>4
<1> QED BY <1>1, <1>5

LEMMA Wrap ==
  ASSUME NEW n \in Nat \ {0}, NEW x \in Int
  PROVE  /\ x \in 0 .. n - 1     => x % n = x
         /\ x \in n .. 2 * n - 1 => x % n = x - n
         /\ x \in -n .. -1       => x % n = x + n
<1>1. ASSUME x \in 0 .. n - 1  PROVE x % n = x
  <2>1. (n * 0 + x) % n = x
    BY <1>1, DivModUnique
  <2> QED BY <2>1
<1>2. ASSUME x \in n .. 2 * n - 1  PROVE x % n = x - n
  <2>1. x - n \in 0 .. n - 1
    BY <1>2
  <2>2. (n * 1 + (x - n)) % n = x - n
    BY <2>1, DivModUnique
  <2>3. n * 1 + (x - n) = x
    OBVIOUS
  <2> QED BY <2>2, <2>3
<1>3. ASSUME x \in -n .. -1  PROVE x % n = x + n
  <2>1. x + n \in 0 .. n - 1 /\ -1 \in Int
    BY <1>3
  <2>2. (n * (-1) + (x + n)) % n = x + n
    BY <2>1, DivModUnique
  <2>3. n * (-1) + (x + n) = x
    OBVIOUS
  <2> QED BY <2>2, <2>3
<1> QED BY <1>1, <1>2, <1>3

LEMMA WindowBound ==
  ASSUME NEW w \in AllWindows
  PROVE  w \in 1 .. ClockSize - 1 /\ ClockSize \in Nat \ {0}
BY SpeedAssumption DEF AllWindows

-----------------------------------------------------------------------------
LEMMA InitInv == Init => IInv
<1> SUFFICES ASSUME Init PROVE IInv
  OBVIOUS
<1>1. ClockSize \in Nat \ {0} /\ MaxCalls \in Nat
  BY SpeedAssumption
<1>2. TypeOK
  <2>1. /\ {millis, lastTime, deltaTime} \subseteq 0 .. ClockSize - 1
        /\ calls \in 0 .. MaxCalls
    BY <1>1 DEF Init
  <2>2. bridge \in [1 .. 4 -> 0 .. maxResolution]
    BY DEF Init, maxResolution
  <2>3. platform \in BOOLEAN /\ command \in {0, BRAKE} \cup Speeds
    BY DEF Init
  <2> QED BY <2>1, <2>2, <2>3 DEF Init, TypeOK
<1>3. ClockInv /\ PulseInv
  BY <1>1 DEF Init, ClockInv, PulseInv
<1>4. MotorObeys
  BY DEF Init, MotorObeys, BRAKE
<1> QED BY <1>2, <1>3, <1>4 DEF IInv

LEMMA WaitInv == IInv /\ Wait => IInv'
<1> SUFFICES ASSUME IInv, Wait PROVE IInv'
  OBVIOUS
<1> USE DEF IInv
<1>1. PICK window \in AllWindows :
        /\ window > elapsed
        /\ elapsed' = window
        /\ millis' = (millis + window - elapsed) % ClockSize
  BY DEF Wait, AllWindows
<1>2. PICK n \in PulseCounts \cup {0} : MotorCountInterrupt(n)
  BY DEF Wait
<1>3. n \in Nat
  BY SpeedAssumption
<1>4. window \in 1 .. ClockSize - 1 /\ ClockSize \in Nat \ {0}
  BY WindowBound
<1>5. millis \in 0 .. ClockSize - 1 /\ lastTime \in 0 .. ClockSize - 1 /\ elapsed \in Nat
  BY DEF TypeOK
<1> DEFINE later == millis + window - elapsed
<1>6. later = lastTime + window \/ later = lastTime + window - ClockSize
  BY <1>4, <1>5 DEF ClockInv
<1>7. later \in Int /\ later \in 0 .. 2 * ClockSize - 1
  BY <1>1, <1>4, <1>5
<1>8. /\ later % ClockSize \in 0 .. ClockSize - 1
      /\ \/ later % ClockSize = lastTime + window
         \/ later % ClockSize = lastTime + window - ClockSize
  <2> HIDE DEF later
  <2>1. CASE later \in 0 .. ClockSize - 1
    BY <2>1, <1>4, <1>5, <1>6, <1>7, Wrap
  <2>2. CASE later \in ClockSize .. 2 * ClockSize - 1
    <3>1. later % ClockSize = later - ClockSize
      BY <2>2, <1>4, <1>7, Wrap
    <3> QED BY <3>1, <2>2, <1>4, <1>5, <1>6, <1>7
  <2> QED BY <2>1, <2>2, <1>4, <1>7
<1>9. UNCHANGED <<lastTime, deltaTime, counted, pc, platform, command, I, previous_error, bridge,
                  inside, before, calls>> /\ pc = "caller"
  BY DEF Wait, speedVars, motorVars
<1>10. rotateCount' = rotateCount + n /\ turned' = turned + n
  BY <1>2 DEF MotorCountInterrupt
<1>11. TypeOK'
  BY <1>1, <1>3, <1>4, <1>8, <1>9, <1>10 DEF TypeOK
<1>12. ClockInv'
  BY <1>1, <1>8, <1>9 DEF ClockInv
<1>13. PulseInv'
  BY <1>3, <1>9, <1>10 DEF PulseInv, TypeOK
<1>14. MotorObeys'
  BY <1>9 DEF MotorObeys
<1> QED BY <1>11, <1>12, <1>13, <1>14

LEMMA InterruptInv == IInv /\ Interrupt => IInv'
<1> SUFFICES ASSUME IInv, Interrupt PROVE IInv'
  OBVIOUS
<1> USE DEF IInv, Interrupt, MotorCountInterrupt, speedVars, motorVars
<1>1. TypeOK'
  BY DEF TypeOK
<1>2. ClockInv'
  BY DEF ClockInv
<1>3. PulseInv'
  BY DEF PulseInv, TypeOK
<1>4. MotorObeys'
  BY DEF MotorObeys
<1> QED BY <1>1, <1>2, <1>3, <1>4

LEMMA OrderInv == IInv /\ (MotorIdle \/ MotorBrake \/ FindTrack) => IInv'
<1> SUFFICES ASSUME IInv, MotorIdle \/ MotorBrake \/ FindTrack PROVE IInv'
  OBVIOUS
<1> USE DEF IInv, MotorIdle, MotorBrake, FindTrack, CallsMotorForward, encoderVars,
            speedVars, history
<1>1. TypeOK'
  <2>1. bridge' \in [1 .. 4 -> 0 .. maxResolution]
    BY DEF TypeOK, maxResolution
  <2>2. platform' \in BOOLEAN
    BY DEF TypeOK
  <2> QED BY <2>1, <2>2 DEF TypeOK
<1>2. ClockInv'
  BY DEF ClockInv
<1>3. PulseInv'
  BY DEF PulseInv
<1>4. MotorObeys'
  BY DEF MotorObeys, BRAKE, maxResolution
<1> QED BY <1>1, <1>2, <1>3, <1>4

LEMMA MotorForwardInv ==
  ASSUME IInv, NEW aimSpeed \in Speeds, MotorForward(aimSpeed)
  PROVE  IInv'
<1> USE DEF IInv
<1>1. elapsed \in AllWindows /\ elapsed \in 1 .. ClockSize - 1 /\ ClockSize \in Nat \ {0}
  BY WindowBound DEF MotorForward, ClockInv, TypeOK
<1>2. millis \in 0 .. ClockSize - 1 /\ lastTime \in 0 .. ClockSize - 1
  BY DEF TypeOK
<1>3. (millis - lastTime) % ClockSize = elapsed
  <2>1. CASE millis = lastTime + elapsed
    <3>1. millis - lastTime = elapsed /\ elapsed \in 0 .. ClockSize - 1 /\ elapsed \in Int
      BY <2>1, <1>1, <1>2
    <3> QED BY <3>1, <1>1, Wrap
  <2>2. CASE millis = lastTime + elapsed - ClockSize
    <3>1. /\ millis - lastTime \in Int
          /\ millis - lastTime \in -ClockSize .. -1
          /\ millis - lastTime + ClockSize = elapsed
      BY <2>2, <1>1, <1>2
    <3> QED BY <3>1, <1>1, Wrap
  <2> QED BY <2>1, <2>2 DEF ClockInv
<1>4. /\ pc = "caller" /\ pc' = "count"
      /\ command' = aimSpeed
      /\ deltaTime' = elapsed /\ lastTime' = millis
      /\ elapsed' = 0 /\ turned' = 0 /\ inside' = 0
      /\ before' = [elapsed |-> elapsed, turned |-> turned, inside |-> inside]
      /\ calls' = IF calls < MaxCalls THEN calls + 1 ELSE calls
      /\ UNCHANGED <<millis, rotateCount, counted, platform, I, previous_error, bridge>>
  BY <1>3 DEF MotorForward, CallsMotorForward, encoderVars
<1>5. TypeOK'
  <2>1. calls' \in 0 .. MaxCalls
    BY <1>4, SpeedAssumption DEF TypeOK
  <2>2. before' \in [elapsed : Nat, turned : Nat, inside : Nat]
    BY <1>4 DEF TypeOK
  <2> QED BY <1>1, <1>4, <2>1, <2>2 DEF TypeOK
<1>6. ClockInv'
  BY <1>2, <1>4 DEF ClockInv
<1>7. PulseInv'
  BY <1>1, <1>4 DEF PulseInv, TypeOK
<1>8. MotorObeys'
  BY <1>4 DEF MotorObeys
<1> QED BY <1>5, <1>6, <1>7, <1>8

LEMMA ReadCountInv == IInv /\ ReadCount => IInv'
<1> SUFFICES ASSUME IInv, ReadCount PROVE IInv'
  OBVIOUS
<1> USE DEF IInv, ReadCount, encoderVars, motorVars, history
<1>1. TypeOK'
  BY DEF TypeOK
<1>2. ClockInv'
  BY DEF ClockInv
<1>3. PulseInv'
  BY DEF PulseInv, TypeOK
<1>4. MotorObeys'
  BY DEF MotorObeys
<1> QED BY <1>1, <1>2, <1>3, <1>4

LEMMA ResetInv == IInv /\ Reset => IInv'
<1> SUFFICES ASSUME IInv, Reset PROVE IInv'
  OBVIOUS
<1> USE DEF IInv
<1>1. command \in Speeds /\ deltaTime \in 1 .. ClockSize - 1 /\ ClockSize \in Nat \ {0}
  BY WindowBound DEF Reset, PulseInv
<1>2. Speed \in Int
  <2>1. 60 * counted \in Int /\ deltaTime \in Nat \ {0}
    BY <1>1 DEF TypeOK
  <2> QED BY <2>1, DivMod DEF Speed
<1> DEFINE error == command - Speed
           p     == cDefaultPower + PID(error)
           power == IF p > cMaximumPower THEN cMaximumPower ELSE p
<1>3. error \in Int
  BY <1>1, <1>2 DEF Speeds, aim_speed, creep_speed
<1>4. p \in Int
  <2> HIDE DEF error
  <2> QED BY <1>3 DEF PID, TypeOK, cDefaultPower
<1>5. Positive(power) \in 0 .. cMaximumPower
  <2> HIDE DEF p
  <2> QED BY <1>4 DEF Positive, cMaximumPower
<1>6. /\ pc = "reset" /\ pc' = "caller"
      /\ rotateCount' = 0
      /\ I' = I + error /\ previous_error' = error
      /\ bridge' = <<Positive(power), 0, Positive(power), 0>>
      /\ UNCHANGED <<millis, lastTime, deltaTime, counted, platform, command, elapsed, turned,
                     inside, before, calls>>
  BY DEF Reset, ResetCount, Update, MotorControl, speedVars, history
<1> HIDE DEF error, p, power
<1>7. TypeOK'
  <2>1. bridge' \in [1 .. 4 -> 0 .. maxResolution]
    BY <1>5, <1>6 DEF cMaximumPower, maxResolution
  <2>2. I' \in Int /\ previous_error' \in Int
    BY <1>3, <1>6 DEF TypeOK
  <2> QED BY <1>6, <2>1, <2>2 DEF TypeOK
<1>8. ClockInv'
  BY <1>6 DEF ClockInv
<1>9. PulseInv'
  BY <1>6 DEF PulseInv, TypeOK
<1>10. MotorObeys'
  <2>1. command # 0 /\ command # BRAKE
    BY <1>1 DEF Speeds, BRAKE, aim_speed, creep_speed
  <2> QED BY <1>5, <1>6, <2>1 DEF MotorObeys, cMaximumPower
<1> QED BY <1>7, <1>8, <1>9, <1>10

LEMMA StepInv == IInv /\ [Next]_vars => IInv'
<1> SUFFICES ASSUME IInv, [Next]_vars PROVE IInv'
  OBVIOUS
<1>1. ASSUME NEW aimSpeed \in Speeds, MotorForward(aimSpeed) PROVE IInv'
  BY <1>1, MotorForwardInv
<1>2. CASE UNCHANGED vars
  BY <1>2 DEF vars, encoderVars, speedVars, motorVars, history, IInv, TypeOK, ClockInv,
              PulseInv, MotorObeys
<1> QED BY <1>1, <1>2, WaitInv, InterruptInv, OrderInv, ReadCountInv, ResetInv DEF Next

(* At every moment of a call the clock shows the time elapsed and the      *)
(* pulses are where they are expected.                                     *)
THEOREM SpeedInvariant == Spec => []IInv
<1>1. Init => IInv
  BY InitInv
<1>2. IInv /\ [Next]_vars => IInv'
  BY StepInv
<1> QED BY <1>1, <1>2, PTL DEF Spec

-----------------------------------------------------------------------------
(* Counts, powers and duties keep their types.                             *)
THEOREM TypeCorrect == Spec => []TypeOK
<1>1. IInv => TypeOK
  BY DEF IInv
<1> QED BY <1>1, SpeedInvariant, PTL

(* The speed measured by getSpeed (speedControl.h 29-40) errs by no more   *)
(* than the pulses inside its own calls, whenever the interrupt comes and  *)
(* whenever the clock wraps.                                               *)
THEOREM SpeedCorrect == Spec => []SpeedHonest
<1>1. IInv => SpeedHonest
  BY DEF IInv, PulseInv, SpeedHonest
<1> QED BY <1>1, SpeedInvariant, PTL

(* The bridge does what the last order says (motor.h 44-97), whatever the  *)
(* integral of the speed PID.                                              *)
THEOREM MotorCorrect == Spec => []MotorObeys
<1>1. IInv => MotorObeys
  BY DEF IInv
<1> QED BY <1>1, SpeedInvariant, PTL

=============================================================================
