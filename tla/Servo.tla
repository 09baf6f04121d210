-------------------------------- MODULE Servo --------------------------------
(***************************************************************************)
(* The steering servo, dep/servo.h: from the angle asked for to the duty   *)
(* cycle written.  The program calculates in floating point, this module   *)
(* in exact fractions of a degree; angles asked for are whole numbers.     *)
(***************************************************************************)
EXTENDS Integers

cAngleLimit   == 42
cBias         == 2
maxResolution == 65535

Clamp(val, minimum, maximum) ==
  IF val < minimum THEN minimum ELSE IF val > maximum THEN maximum ELSE val

(* The core's map for integers, of a value not below its range.            *)
IntegerMap(val, valMin, valMax, outMin, outMax) ==
  ((val - valMin) * (outMax - outMin)) \div (valMax - valMin) + outMin

MutantServoAngle(angle) ==
  LET biased == Clamp(angle + cBias, cBias - cAngleLimit, cBias + cAngleLimit)
  IN  biased * (IF biased < 0 THEN -47 ELSE 80)

(* The servo's angle, in 1/42 degree: right of the middle it turns further *)
(* than to the left, so that the wheels do not.                            *)
ServoAngle(angle) ==
  LET biased == Clamp(angle + cBias, cBias - cAngleLimit, cBias + cAngleLimit)
  IN  biased * (IF biased < 0 THEN 47 ELSE 80)

(* A pulse of 0.5 to 2.5 ms of the 20 ms, for -90 to 90 degrees.           *)
ServoDuty(angle) ==
  (maxResolution * (2 * ServoAngle(angle) + 270 * 42)) \div (20 * 180 * 42)

=============================================================================
