------------------------- MODULE RemoteControlProof -------------------------
(***************************************************************************)
(* The Bluetooth mode for any number of phones, any queue and any bytes:   *)
(* motor and servo follow the commands executed, and the flags of the      *)
(* connections are clear once every phone is gone.                         *)
(***************************************************************************)
EXTENDS RemoteControl, TLAPS

(* What is executed is what was accepted, but for the queue.               *)
QueueInv ==
  /\ Len(rxQueue) <= Len(accepted)
  /\ \A i \in 1 .. Len(rxQueue) :
       rxQueue[i] = accepted[Len(accepted) - Len(rxQueue) + i]

(* Every flag stands for phones that are still there, the flag of a        *)
(* refused one for a phone more.                                           *)
Live(p) == link[p] # "none"

FlagInv ==
  /\ second => client
  /\ client \/ sppConnected => \E p \in Peers : Live(p)
  /\ second => \E p, q \in Peers : p # q /\ Live(p) /\ Live(q)

(* What a sequence of commands leaves behind.                              *)
Boosting(commands, on) ==
  \E turn \in Nat :
    /\ IsLast(commands, Boosts, Len(commands), turn)
    /\ on = (turn > 0 /\ commands[turn] = COMMAND_BOOST)

Powering(commands, channels) ==
  \E last, turn \in Nat :
    /\ IsLast(commands, Powers, Len(commands), last)
    /\ IsLast(commands, Boosts, last, turn)
    /\ channels = Asked(commands, last, turn)

Steering(commands, duty) ==
  \E last \in Nat :
    /\ IsLast(commands, Steerings, Len(commands), last)
    /\ duty = ParseSteering(IF last = 0 THEN BIAS_TURNING_START + 90
                                        ELSE commands[last])

CarInv ==
  /\ Boosting(Executed, boost)
  /\ Powering(Executed, bridge)
  /\ Steering(Executed, servo)

IInv == TypeOK /\ QueueInv /\ FlagInv /\ CarInv

-----------------------------------------------------------------------------
LEMMA Bytes ==
  ASSUME NEW c \in Commands
  PROVE  c \in Int /\ 0 <= c /\ c <= 255
BY RemoteAssumption

LEMMA Bounds ==
  /\ RX_QUEUE_SIZE \in Nat \ {0}
  /\ MaxOpens \in Nat /\ MaxCommands \in Nat
BY RemoteAssumption

(* The steering chain, stage by stage: no stage turns the order around.    *)
LEMMA Resolution == maxResolution = 65535
BY DEF maxResolution

LEMMA SensitiveMonotone ==
  ASSUME NEW a \in Int, NEW b \in Int, a <= b
  PROVE  /\ Sensitive(a) \in Int /\ Sensitive(b) \in Int
         /\ Sensitive(a) <= Sensitive(b)
<1>1. ASSUME NEW n \in Int, n >= 0
      PROVE  Sensitive(n) = (22 * n + 4) \div 10
  BY <1>1 DEF Sensitive
<1>2. ASSUME NEW n \in Int, n < 0
      PROVE  Sensitive(n) = -((-22 * n) \div 10)
  BY <1>2 DEF Sensitive
<1>3. CASE a >= 0
  <2>1. Sensitive(a) = (22 * a + 4) \div 10 /\ Sensitive(b) = (22 * b + 4) \div 10
    BY <1>1, <1>3
  <2> QED BY <2>1
<1>4. CASE a < 0 /\ b >= 0
  <2>1. Sensitive(a) = -((-22 * a) \div 10) /\ Sensitive(b) = (22 * b + 4) \div 10
    BY <1>1, <1>2, <1>4
  <2> QED BY <1>4, <2>1
<1>5. CASE b < 0
  <2>1. Sensitive(a) = -((-22 * a) \div 10) /\ Sensitive(b) = -((-22 * b) \div 10)
    BY <1>2, <1>5
  <2> QED BY <1>5, <2>1
<1> QED BY <1>3, <1>4, <1>5

LEMMA ClampMonotone ==
  ASSUME NEW a \in Int, NEW b \in Int, a <= b, NEW low \in Int, NEW high \in Int,
         low <= high
  PROVE  /\ Clamp(a, low, high) \in low .. high
         /\ Clamp(b, low, high) \in low .. high
         /\ Clamp(a, low, high) <= Clamp(b, low, high)
BY DEF Clamp

Scaled(x) == IntegerMap(x, -90, 90, -cAngleLimit, cAngleLimit)

LEMMA ScaledMonotone ==
  ASSUME NEW a \in Int, NEW b \in Int, -90 <= a, a <= b, b <= 90
  PROVE  /\ Scaled(a) \in Int /\ Scaled(b) \in Int
         /\ -42 <= Scaled(a) /\ Scaled(a) <= Scaled(b) /\ Scaled(b) <= 42
<1>1. Scaled(a) = ((a + 90) * 84) \div 180 - 42
  BY DEF Scaled, IntegerMap, cAngleLimit
<1>2. Scaled(b) = ((b + 90) * 84) \div 180 - 42
  BY DEF Scaled, IntegerMap, cAngleLimit
<1> QED BY <1>1, <1>2

LEMMA ServoAngleMonotone ==
  ASSUME NEW a \in Int, NEW b \in Int, -42 <= a, a <= b, b <= 42
  PROVE  /\ ServoAngle(a) \in Int /\ ServoAngle(b) \in Int
         /\ -1880 <= ServoAngle(a) /\ ServoAngle(a) <= ServoAngle(b)
         /\ ServoAngle(b) <= 3520
<1> DEFINE Biased(x) == Clamp(x + cBias, cBias - cAngleLimit, cBias + cAngleLimit)
           p == Biased(a)
           q == Biased(b)
<1>1. p \in Int /\ q \in Int /\ -40 <= p /\ p <= q /\ q <= 44
  BY DEF Clamp, cBias, cAngleLimit
<1>2. /\ ServoAngle(a) = p * (IF p < 0 THEN 47 ELSE 80)
      /\ ServoAngle(b) = q * (IF q < 0 THEN 47 ELSE 80)
  BY DEF ServoAngle
<1> HIDE DEF p, q
<1>3. /\ ServoAngle(a) = IF p < 0 THEN 47 * p ELSE 80 * p
      /\ ServoAngle(b) = IF q < 0 THEN 47 * q ELSE 80 * q
  BY <1>1, <1>2
<1> QED BY <1>1, <1>3

LEMMA ServoDutyMonotone ==
  ASSUME NEW a \in Int, NEW b \in Int, -42 <= a, a <= b, b <= 42
  PROVE  /\ ServoDuty(a) \in 0 .. maxResolution /\ ServoDuty(b) \in 0 .. maxResolution
         /\ ServoDuty(a) <= ServoDuty(b)
<1> DEFINE x == ServoAngle(a)
           y == ServoAngle(b)
<1>1. x \in Int /\ y \in Int /\ -1880 <= x /\ x <= y /\ y <= 3520
  BY ServoAngleMonotone
<1>2. /\ ServoDuty(a) = (maxResolution * (2 * x + 270 * 42)) \div (20 * 180 * 42)
      /\ ServoDuty(b) = (maxResolution * (2 * y + 270 * 42)) \div (20 * 180 * 42)
  BY DEF ServoDuty
<1> HIDE DEF x, y
<1>3. /\ ServoDuty(a) = (65535 * (2 * x + 11340)) \div 151200
      /\ ServoDuty(b) = (65535 * (2 * y + 11340)) \div 151200
  BY <1>2, Resolution
<1>4. /\ ServoDuty(a) \in Int /\ ServoDuty(b) \in Int
      /\ 0 <= ServoDuty(a) /\ ServoDuty(a) <= ServoDuty(b) /\ ServoDuty(b) <= 65535
  BY <1>1, <1>3
<1>5. /\ ServoDuty(a) \in Int /\ ServoDuty(b) \in Int /\ maxResolution \in Int
      /\ 0 <= ServoDuty(a) /\ ServoDuty(a) <= ServoDuty(b)
      /\ ServoDuty(b) <= maxResolution
  BY <1>4, Resolution
<1> QED BY <1>5

LEMMA SteeringMonotone ==
  ASSUME NEW c \in Int, NEW d \in Int, c <= d
  PROVE  /\ ParseSteering(c) \in 0 .. maxResolution
         /\ ParseSteering(d) \in 0 .. maxResolution
         /\ ParseSteering(c) <= ParseSteering(d)
<1> DEFINE m == c - BIAS_TURNING_START - 90
           n == d - BIAS_TURNING_START - 90
           x == Sensitive(m)
           y == Sensitive(n)
           p == Clamp(x, -90, 90)
           q == Clamp(y, -90, 90)
<1>1. m \in Int /\ n \in Int /\ m <= n
  BY DEF BIAS_TURNING_START
<1> HIDE DEF m, n
<1>2. x \in Int /\ y \in Int /\ x <= y
  BY <1>1, SensitiveMonotone
<1> HIDE DEF x, y
<1>3. p \in Int /\ q \in Int /\ -90 <= p /\ p <= q /\ q <= 90
  BY <1>2 DEF Clamp
<1> HIDE DEF p, q
<1>4. /\ Scaled(p) \in Int /\ Scaled(q) \in Int
      /\ -42 <= Scaled(p) /\ Scaled(p) <= Scaled(q) /\ Scaled(q) <= 42
  BY <1>3, ScaledMonotone
<1>5. /\ ServoDuty(Scaled(p)) \in 0 .. maxResolution
      /\ ServoDuty(Scaled(q)) \in 0 .. maxResolution
      /\ ServoDuty(Scaled(p)) <= ServoDuty(Scaled(q))
  BY <1>4, ServoDutyMonotone
<1>6. ParseSteering(c) = ServoDuty(Scaled(p)) /\ ParseSteering(d) = ServoDuty(Scaled(q))
  BY DEF ParseSteering, Scaled, m, n, x, y, p, q
<1> QED BY <1>5, <1>6

(* The wheels stand where the steering command in the middle puts them.    *)
LEMMA Straight == ServoDuty(0) = ParseSteering(BIAS_TURNING_START + 90)
<1>1. Clamp(Sensitive(0), -90, 90) = 0
  BY DEF Clamp, Sensitive
<1>2. IntegerMap(0, -90, 90, -cAngleLimit, cAngleLimit) = 0
  BY DEF IntegerMap, cAngleLimit
<1> DEFINE number == (BIAS_TURNING_START + 90) - BIAS_TURNING_START - 90
<1>3. number = 0
  BY DEF BIAS_TURNING_START
<1>4. ParseSteering(BIAS_TURNING_START + 90)
        = ServoDuty(IntegerMap(Clamp(Sensitive(number), -90, 90), -90, 90,
                               -cAngleLimit, cAngleLimit))
  BY DEF ParseSteering
<1> HIDE DEF number
<1> QED BY <1>1, <1>2, <1>3, <1>4

-----------------------------------------------------------------------------
(* The last of a kind, and what a further command does to it.              *)
LEMMA LastUnique ==
  ASSUME NEW s, NEW kind, NEW n \in Nat, NEW i \in Nat, IsLast(s, kind, n, i)
  PROVE  LastOf(s, kind, n) = i
<1>1. i \in 0 .. n
  BY DEF IsLast
<1> DEFINE j == LastOf(s, kind, n)
<1>2. j \in 0 .. n /\ IsLast(s, kind, n, j)
  BY <1>1 DEF LastOf
<1> HIDE DEF j
<1>3. ~(j > i)
  BY <1>1, <1>2 DEF IsLast
<1>4. ~(i > j)
  BY <1>1, <1>2 DEF IsLast
<1> QED BY <1>1, <1>2, <1>3, <1>4 DEF j

LEMMA LastKept ==
  ASSUME NEW s \in Seq(Commands), NEW c \in Commands, NEW kind,
         NEW n \in 0 .. Len(s), NEW i \in Nat, IsLast(s, kind, n, i)
  PROVE  /\ IsLast(Append(s, c), kind, n, i)
         /\ i > 0 => Append(s, c)[i] = s[i]
<1>1. i \in 0 .. n /\ \A j \in 1 .. n : Append(s, c)[j] = s[j]
  BY DEF IsLast
<1> QED BY <1>1 DEF IsLast

LEMMA LastAppend ==
  ASSUME NEW s \in Seq(Commands), NEW c \in Commands, NEW kind, NEW i \in Nat,
         IsLast(s, kind, Len(s), i)
  PROVE  LET t == Append(s, c)
         IN  /\ c \in kind => IsLast(t, kind, Len(t), Len(t))
             /\ c \notin kind => IsLast(t, kind, Len(t), i)
             /\ Len(t) = Len(s) + 1 /\ t[Len(t)] = c
<1> DEFINE t == Append(s, c)
<1>1. Len(t) = Len(s) + 1 /\ Len(s) \in Nat /\ t[Len(s) + 1] = c
  OBVIOUS
<1>2. IsLast(t, kind, Len(s), i)
  BY LastKept
<1> HIDE DEF t
<1>3. ASSUME c \in kind PROVE IsLast(t, kind, Len(t), Len(t))
  BY <1>1, <1>3 DEF IsLast
<1>4. ASSUME c \notin kind PROVE IsLast(t, kind, Len(t), i)
  <2>1. \A j \in i + 1 .. Len(t) : j \in i + 1 .. Len(s) \/ j = Len(s) + 1
    BY <1>1
  <2> QED BY <1>1, <1>2, <1>4, <2>1 DEF IsLast
<1> QED BY <1>1, <1>3, <1>4 DEF t

(* The first commands to be executed have none before them.                *)
LEMMA NoneYet ==
  ASSUME NEW kind
  PROVE  IsLast(<<>>, kind, Len(<<>>), 0) /\ IsLast(<<>>, kind, 0, 0)
BY DEF IsLast

LEMMA BoostingStep ==
  ASSUME NEW s \in Seq(Commands), NEW c \in Commands, NEW on \in BOOLEAN,
         Boosting(s, on)
  PROVE  LET t == Append(s, c)
         IN  /\ c = COMMAND_BOOST => Boosting(t, TRUE)
             /\ c = COMMAND_BOOST_CANCEL => Boosting(t, FALSE)
             /\ c \notin Boosts => Boosting(t, on)
<1> DEFINE t == Append(s, c)
<1>1. PICK turn \in Nat : /\ IsLast(s, Boosts, Len(s), turn)
                          /\ on = (turn > 0 /\ s[turn] = COMMAND_BOOST)
  BY DEF Boosting
<1>2. /\ c \in Boosts => IsLast(t, Boosts, Len(t), Len(t))
      /\ c \notin Boosts => IsLast(t, Boosts, Len(t), turn)
      /\ Len(t) = Len(s) + 1 /\ t[Len(t)] = c /\ Len(s) \in Nat
  BY <1>1, LastAppend
<1>3. turn > 0 => t[turn] = s[turn]
  BY <1>1 DEF IsLast
<1> HIDE DEF t
<1>4. COMMAND_BOOST # COMMAND_BOOST_CANCEL
  BY DEF COMMAND_BOOST, COMMAND_BOOST_CANCEL
<1>5. Len(t) \in Nat /\ Len(t) > 0
  BY <1>2
<1>6. ASSUME c = COMMAND_BOOST PROVE Boosting(t, TRUE)
  <2>1. c \in Boosts
    BY <1>6 DEF Boosts
  <2> QED BY <1>2, <1>5, <1>6, <2>1 DEF Boosting
<1>7. ASSUME c = COMMAND_BOOST_CANCEL PROVE Boosting(t, FALSE)
  <2>1. c \in Boosts
    BY <1>7 DEF Boosts
  <2> QED BY <1>2, <1>4, <1>5, <1>7, <2>1 DEF Boosting
<1>8. ASSUME c \notin Boosts PROVE Boosting(t, on)
  BY <1>1, <1>2, <1>3, <1>8 DEF Boosting
<1> QED BY <1>6, <1>7, <1>8 DEF t

LEMMA SteeringStep ==
  ASSUME NEW s \in Seq(Commands), NEW c \in Commands, NEW duty, Steering(s, duty)
  PROVE  Steering(Append(s, c), IF c \in Steerings THEN ParseSteering(c) ELSE duty)
<1> DEFINE t == Append(s, c)
<1>1. PICK last \in Nat :
        /\ IsLast(s, Steerings, Len(s), last)
        /\ duty = ParseSteering(IF last = 0 THEN BIAS_TURNING_START + 90 ELSE s[last])
  BY DEF Steering
<1>2. /\ c \in Steerings => IsLast(t, Steerings, Len(t), Len(t))
      /\ c \notin Steerings => IsLast(t, Steerings, Len(t), last)
      /\ Len(t) = Len(s) + 1 /\ t[Len(t)] = c /\ Len(s) \in Nat
  BY <1>1, LastAppend
<1>3. last > 0 => t[last] = s[last]
  BY <1>1 DEF IsLast
<1> HIDE DEF t
<1>4. CASE c \in Steerings
  BY <1>2, <1>4 DEF Steering, t
<1>5. CASE c \notin Steerings
  <2>1. duty = ParseSteering(IF last = 0 THEN BIAS_TURNING_START + 90 ELSE t[last])
    BY <1>1, <1>3
  <2>2. Steering(t, duty)
    BY <1>2, <1>5, <2>1 DEF Steering
  <2> QED BY <1>5, <2>2 DEF t
<1> QED BY <1>4, <1>5

(* A power command is carried out as Asked says, with the boost as the     *)
(* commands before it left it.                                             *)
LEMMA PowerAsked ==
  ASSUME NEW s \in Seq(Commands), NEW c \in Powers, boost \in BOOLEAN,
         NEW turn \in 0 .. Len(s), boost = (turn > 0 /\ s[turn] = COMMAND_BOOST)
  PROVE  ParsePower(c) = Asked(Append(s, c), Len(s) + 1, turn)
<1> DEFINE t     == Append(s, c)
           power == IF boost THEN 60000 ELSE 30000
<1>1. t[Len(s) + 1] = c /\ Len(s) + 1 # 0 /\ (turn > 0 => t[turn] = s[turn])
  OBVIOUS
<1>2. IF turn > 0 /\ t[turn] = COMMAND_BOOST THEN boost ELSE ~boost
  BY <1>1
<1>3. power = IF turn > 0 /\ t[turn] = COMMAND_BOOST THEN 60000 ELSE 30000
  BY <1>2
<1>4. Throttle(boost) = power
  BY DEF Throttle, cDefaultThrottle
<1>5. power \in Int /\ 0 <= power /\ power <= maxResolution
  BY Resolution
<1> HIDE DEF t, power
<1>6. Clamp(power, 0, maxResolution) = power
  BY <1>5, Resolution DEF Clamp
<1> DEFINE ahead == <<power, 0, power, 0>>
           back  == <<0, power, 0, power>>
           brake == <<65535, 65535, 65535, 65535>>
<1>7. /\ MotorControl(FALSE, Throttle(boost)) = back
      /\ MotorControl(TRUE, Throttle(boost)) = ahead
  BY <1>4, <1>6 DEF MotorControl
<1>8. MotorBrake = brake
  BY Resolution DEF MotorBrake
<1>9. Channels(c, power) = CASE c = 4 -> back [] c = 6 -> brake [] c = 8 -> ahead
                             [] OTHER -> MotorIdle
  BY DEF Channels, MotorIdle
<1> HIDE DEF ahead, back, brake
<1>10. c \in {4, 5, 6, 7, 8, 9}
  BY DEF Powers, BIAS_POWER_LEVEL_START, BIAS_POWER_LEVEL_END
<1> DEFINE level == c - BIAS_POWER_LEVEL_START
<1>11. level = c - 4
  BY DEF BIAS_POWER_LEVEL_START
<1> HIDE DEF level
<1>12. ParsePower(c) = CASE level % 2 = 1 -> MotorIdle
                         [] level = 0     -> back
                         [] level = 2     -> brake
                         [] level = 4     -> ahead
  BY <1>7, <1>8 DEF ParsePower, level
<1>13. ParsePower(c) = Channels(c, power)
  <2>1. CASE c \in {5, 7, 9}
    <3>1. level % 2 = 1
      BY <1>11, <2>1
    <3> QED BY <1>9, <1>12, <2>1, <3>1
  <2>2. CASE c = 4
    BY <1>9, <1>11, <1>12, <2>2
  <2>3. CASE c = 6
    BY <1>9, <1>11, <1>12, <2>3
  <2>4. CASE c = 8
    BY <1>9, <1>11, <1>12, <2>4
  <2> QED BY <1>10, <2>1, <2>2, <2>3, <2>4
<1>14. Asked(t, Len(s) + 1, turn) = Channels(c, power)
  BY <1>1, <1>3 DEF Asked
<1> QED BY <1>13, <1>14 DEF t

LEMMA PoweringStep ==
  ASSUME NEW s \in Seq(Commands), NEW c \in Commands, NEW channels,
         boost \in BOOLEAN, Boosting(s, boost), Powering(s, channels)
  PROVE  Powering(Append(s, c), IF c \in Powers THEN ParsePower(c) ELSE channels)
<1> DEFINE t == Append(s, c)
<1>1. PICK last \in Nat, turn \in Nat :
        /\ IsLast(s, Powers, Len(s), last)
        /\ IsLast(s, Boosts, last, turn)
        /\ channels = Asked(s, last, turn)
  BY DEF Powering
<1>2. PICK now \in Nat : /\ IsLast(s, Boosts, Len(s), now)
                         /\ boost = (now > 0 /\ s[now] = COMMAND_BOOST)
  BY DEF Boosting
<1>3. /\ c \in Powers => IsLast(t, Powers, Len(t), Len(t))
      /\ c \notin Powers => IsLast(t, Powers, Len(t), last)
      /\ Len(t) = Len(s) + 1 /\ t[Len(t)] = c /\ Len(s) \in Nat
  BY <1>1, LastAppend
<1>4. CASE c \in Powers
  <2>1. c \notin Boosts
    BY <1>4 DEF Powers, Boosts, BIAS_POWER_LEVEL_START, BIAS_POWER_LEVEL_END,
                COMMAND_BOOST, COMMAND_BOOST_CANCEL
  <2>2. IsLast(t, Boosts, Len(t), now)
    BY <1>2, <2>1, LastAppend
  <2>3. ParsePower(c) = Asked(t, Len(t), now)
    <3>1. now \in 0 .. Len(s)
      BY <1>2 DEF IsLast
    <3> QED BY <1>2, <1>3, <1>4, <3>1, PowerAsked
  <2> HIDE DEF t
  <2>4. Len(t) \in Nat
    BY <1>3
  <2> QED BY <1>3, <1>4, <2>2, <2>3, <2>4 DEF Powering, t
<1>5. CASE c \notin Powers
  <2>1. last \in 0 .. Len(s) /\ turn \in 0 .. last
    BY <1>1 DEF IsLast
  <2>2. IsLast(t, Boosts, last, turn)
    BY <1>1, <2>1, LastKept
  <2>3. (last > 0 => t[last] = s[last]) /\ (turn > 0 => t[turn] = s[turn])
    BY <2>1
  <2> HIDE DEF t
  <2>4. Asked(t, last, turn) = Asked(s, last, turn)
    BY <2>1, <2>3 DEF Asked
  <2> QED BY <1>1, <1>3, <1>5, <2>2, <2>4 DEF Powering, t
<1> QED BY <1>4, <1>5

LEMMA PoweringType ==
  ASSUME NEW s, NEW channels, Powering(s, channels)
  PROVE  channels \in [1 .. 4 -> 0 .. maxResolution]
<1>1. PICK last \in Nat, turn \in Nat : channels = Asked(s, last, turn)
  BY DEF Powering
<1>2. PICK power \in {60000, 30000} :
        channels = <<0, 0, 0, 0>> \/ channels = Channels(s[last], power)
  BY <1>1 DEF Asked
<1> DEFINE Duties == 0 .. maxResolution
<1>3. {0, power, 65535} \subseteq Duties
  BY Resolution
<1> HIDE DEF Duties
<1>4. channels = <<0, 0, 0, 0>> \/ channels = <<0, power, 0, power>>
      \/ channels = <<65535, 65535, 65535, 65535>> \/ channels = <<power, 0, power, 0>>
  BY <1>2 DEF Channels
<1>5. channels \in [1 .. 4 -> Duties]
  BY <1>3, <1>4
<1> QED BY <1>5 DEF Duties

-----------------------------------------------------------------------------
(* The commands executed, and what the queue's two ends make of them.      *)
LEMMA ExecutedType ==
  ASSUME TypeOK, QueueInv
  PROVE  /\ Executed \in Seq(Commands)
         /\ Len(Executed) = Len(accepted) - Len(rxQueue) /\ Len(Executed) \in Nat
         /\ \A i \in 1 .. Len(Executed) : Executed[i] = accepted[i]
<1>1. /\ accepted \in Seq(Commands) /\ Len(accepted) \in Nat /\ Len(rxQueue) \in Nat
      /\ Len(rxQueue) <= Len(accepted)
  BY DEF TypeOK, QueueInv
<1>2. PICK n \in 0 .. Len(accepted) : n = Len(accepted) - Len(rxQueue)
  BY <1>1
<1>3. /\ SubSeq(accepted, 1, n) \in Seq(Commands) /\ Len(SubSeq(accepted, 1, n)) = n
      /\ \A i \in 1 .. n : SubSeq(accepted, 1, n)[i] = accepted[i]
  BY <1>1
<1> QED BY <1>2, <1>3 DEF Executed

LEMMA Joined ==
  ASSUME NEW s \in Seq(Commands), NEW t \in Seq(Commands)
  PROVE  /\ s \o t \in Seq(Commands) /\ Len(s \o t) = Len(s) + Len(t)
         /\ \A i \in 1 .. Len(s) : (s \o t)[i] = s[i]
         /\ \A i \in 1 .. Len(t) : (s \o t)[Len(s) + i] = t[i]
OBVIOUS

(* Data that arrives is queued behind what waits.                          *)
LEMMA Pushed ==
  ASSUME TypeOK, QueueInv, NEW packet \in Seq(Commands),
         rxQueue' = rxQueue \o packet, accepted' = accepted \o packet
  PROVE  QueueInv' /\ Executed' = Executed
<1>1. /\ accepted \in Seq(Commands) /\ Len(accepted) \in Nat
      /\ rxQueue \in Seq(Commands) /\ Len(rxQueue) \in Nat
      /\ packet \in Seq(Commands) /\ Len(packet) \in Nat
      /\ Len(rxQueue) <= Len(accepted)
  BY DEF TypeOK, QueueInv
<1>2. /\ accepted' \in Seq(Commands) /\ Len(accepted') = Len(accepted) + Len(packet)
      /\ \A i \in 1 .. Len(accepted) : accepted'[i] = accepted[i]
      /\ \A i \in 1 .. Len(packet) : accepted'[Len(accepted) + i] = packet[i]
  BY <1>1, Joined
<1>3. /\ rxQueue' \in Seq(Commands) /\ Len(rxQueue') = Len(rxQueue) + Len(packet)
      /\ \A i \in 1 .. Len(rxQueue) : rxQueue'[i] = rxQueue[i]
      /\ \A i \in 1 .. Len(packet) : rxQueue'[Len(rxQueue) + i] = packet[i]
  BY <1>1, Joined
<1>4. PICK a \in Nat, q \in Nat, p \in Nat :
        a = Len(accepted) /\ q = Len(rxQueue) /\ p = Len(packet) /\ q <= a
  BY <1>1
<1>5. ASSUME NEW i \in 1 .. q + p
      PROVE  rxQueue'[i] = accepted'[a + p - (q + p) + i]
  <2>1. a + p - (q + p) + i = a - q + i
    BY <1>4
  <2>2. CASE i \in 1 .. q
    <3>1. a - q + i \in 1 .. a
      BY <1>4, <2>2
    <3>2. rxQueue[i] = accepted[a - q + i]
      BY <1>4, <2>2 DEF QueueInv
    <3> QED BY <1>2, <1>3, <1>4, <2>1, <2>2, <3>1, <3>2
  <2>3. CASE i \notin 1 .. q
    <3>1. PICK k \in 1 .. p : i = q + k
      <4>1. i - q \in 1 .. p /\ i = q + (i - q)
        BY <1>4, <2>3
      <4> QED BY <4>1
    <3>2. a - q + i = a + k
      BY <1>4, <3>1
    <3> QED BY <1>2, <1>3, <1>4, <2>1, <3>1, <3>2
  <2> QED BY <2>2, <2>3
<1>6. QueueInv'
  BY <1>2, <1>3, <1>4, <1>5 DEF QueueInv
<1>7. Executed' = Executed
  <2>1. Len(accepted') - Len(rxQueue') = a - q /\ Len(accepted) - Len(rxQueue) = a - q
    BY <1>2, <1>3, <1>4
  <2>2. PICK n \in 0 .. a : n = a - q
    <3>1. a - q \in 0 .. a
      BY <1>4
    <3> QED BY <3>1
  <2>3. SubSeq(accepted', 1, n) = SubSeq(accepted, 1, n)
    BY <1>1, <1>2, <1>4
  <2> QED BY <2>1, <2>2, <2>3 DEF Executed
<1> QED BY <1>6, <1>7

(* A command taken from the queue is the next one executed.                *)
LEMMA Popped ==
  ASSUME TypeOK, QueueInv, rxQueue # <<>>,
         rxQueue' = Tail(rxQueue), accepted' = accepted
  PROVE  /\ QueueInv' /\ Head(rxQueue) \in Commands
         /\ Executed' = Append(Executed, Head(rxQueue))
<1>1. /\ accepted \in Seq(Commands) /\ Len(accepted) \in Nat
      /\ rxQueue \in Seq(Commands) /\ Len(rxQueue) \in Nat /\ Len(rxQueue) >= 1
      /\ Len(rxQueue) <= Len(accepted)
  BY DEF TypeOK, QueueInv
<1>2. /\ rxQueue' \in Seq(Commands) /\ Len(rxQueue') = Len(rxQueue) - 1
      /\ \A i \in 1 .. Len(rxQueue) - 1 : rxQueue'[i] = rxQueue[i + 1]
      /\ Head(rxQueue) = rxQueue[1] /\ Head(rxQueue) \in Commands
  BY <1>1
<1>3. PICK a \in Nat, q \in Nat :
        a = Len(accepted) /\ q = Len(rxQueue) /\ 1 <= q /\ q <= a
  BY <1>1
<1>4. \A i \in 1 .. q : rxQueue[i] = accepted[a - q + i]
  BY <1>3 DEF QueueInv
<1>5. QueueInv'
  <2>1. ASSUME NEW i \in 1 .. q - 1
        PROVE  rxQueue'[i] = accepted[a - (q - 1) + i]
    <3>1. i + 1 \in 1 .. q /\ a - (q - 1) + i = a - q + (i + 1)
      BY <1>3, <2>1
    <3> QED BY <1>2, <1>3, <1>4, <2>1, <3>1
  <2>2. Len(rxQueue') = q - 1 /\ Len(accepted') = a /\ q - 1 <= a
    BY <1>1, <1>2, <1>3
  <2>3. \A i \in 1 .. q - 1 : rxQueue'[i] = accepted'[a - (q - 1) + i]
    BY <1>1, <2>1
  <2> QED BY <2>2, <2>3 DEF QueueInv
<1>6. PICK n \in Nat : n = a - q
  BY <1>3
<1>7. Executed = SubSeq(accepted, 1, n) /\ Executed' = SubSeq(accepted, 1, n + 1)
  <2>1. Len(accepted') - Len(rxQueue') = n + 1 /\ Len(accepted) - Len(rxQueue) = n
    BY <1>2, <1>3, <1>6
  <2> QED BY <2>1 DEF Executed
<1>8. n + 1 \in 1 .. Len(accepted) /\ accepted[n + 1] = Head(rxQueue)
  BY <1>2, <1>3, <1>4, <1>6
<1>9. SubSeq(accepted, 1, n + 1) = Append(SubSeq(accepted, 1, n), accepted[n + 1])
  BY <1>1, <1>8
<1> QED BY <1>2, <1>5, <1>7, <1>8, <1>9

LEMMA TakenType ==
  ASSUME TypeOK, NEW packet \in {<<c>> : c \in Commands} \cup (Commands \X Commands)
  PROVE  /\ packet \in Seq(Commands) /\ Taken(packet) \in Seq(Commands)
         /\ Len(Taken(packet)) <= Len(packet)
         /\ Len(rxQueue) + Len(Taken(packet)) <= RX_QUEUE_SIZE
<1>1. packet \in Seq(Commands) /\ Len(packet) \in Nat
  <2>1. CASE packet \in {<<c>> : c \in Commands}
    <3>1. PICK c \in Commands : packet = <<c>>
      BY <2>1
    <3> QED BY <3>1
  <2>2. CASE packet \in Commands \X Commands
    <3>1. PICK c \in Commands, d \in Commands : packet = <<c, d>>
      BY <2>2
    <3> QED BY <3>1
  <2> QED BY <2>1, <2>2
<1>2. PICK room \in Nat : room = RX_QUEUE_SIZE - Len(rxQueue)
  <2>1. /\ RX_QUEUE_SIZE \in Nat /\ Len(rxQueue) \in Nat
        /\ Len(rxQueue) <= RX_QUEUE_SIZE
    BY Bounds DEF TypeOK
  <2>2. RX_QUEUE_SIZE - Len(rxQueue) \in Nat
    BY <2>1
  <2> QED BY <2>2
<1>3. Taken(packet) = IF Len(packet) > room THEN SubSeq(packet, 1, room) ELSE packet
  BY <1>2 DEF Taken
<1>4. CASE Len(packet) > room
  <2>1. SubSeq(packet, 1, room) \in Seq(Commands) /\ Len(SubSeq(packet, 1, room)) = room
    BY <1>1, <1>4
  <2> QED BY <1>1, <1>2, <1>3, <1>4, <2>1, Bounds DEF TypeOK
<1>5. CASE ~(Len(packet) > room)
  BY <1>1, <1>2, <1>3, <1>5, Bounds DEF TypeOK
<1> QED BY <1>4, <1>5

(* What is taken of a packet is what comes in time.                        *)
LEMMA TakenInTime ==
  ASSUME TypeOK, NEW packet \in {<<c>> : c \in Commands} \cup (Commands \X Commands),
         NEW n \in 0 .. Len(packet), InTime(packet, n)
  PROVE  Taken(packet) = SubSeq(packet, 1, n)
<1>1. packet \in Seq(Commands) /\ Len(packet) \in Nat
  BY TakenType
<1>2. PICK room \in Nat : room = RX_QUEUE_SIZE - Len(rxQueue)
  <2>1. /\ RX_QUEUE_SIZE \in Nat /\ Len(rxQueue) \in Nat
        /\ Len(rxQueue) <= RX_QUEUE_SIZE
    BY Bounds DEF TypeOK
  <2>2. RX_QUEUE_SIZE - Len(rxQueue) \in Nat
    BY <2>1
  <2> QED BY <2>2
<1>3. n <= room /\ (n < Len(packet) => n = room)
  BY <1>1, <1>2, Bounds DEF InTime, TypeOK
<1>4. Taken(packet) = IF Len(packet) > room THEN SubSeq(packet, 1, room) ELSE packet
  BY <1>2 DEF Taken
<1>5. CASE n < Len(packet)
  BY <1>1, <1>3, <1>4, <1>5
<1>6. CASE n = Len(packet)
  <2>1. SubSeq(packet, 1, Len(packet)) = packet
    BY <1>1
  <2> QED BY <1>1, <1>3, <1>4, <1>6, <2>1
<1> QED BY <1>1, <1>5, <1>6

-----------------------------------------------------------------------------
LEMMA InitInv == Init => IInv
<1> SUFFICES ASSUME Init PROVE IInv
  OBVIOUS
<1> USE DEF Init
<1>1. Executed = <<>>
  BY DEF Executed
<1>2. TypeOK
  <2>1. servo \in 0 .. maxResolution
    <3>1. ServoDuty(0) \in 0 .. maxResolution
      BY ServoDutyMonotone
    <3> QED BY <3>1
  <2>2. bridge \in [1 .. 4 -> 0 .. maxResolution]
    <3>1. 0 \in 0 .. maxResolution
      BY Resolution
    <3> HIDE DEF maxResolution
    <3> QED BY <3>1
  <2>3. /\ rxQueue \in Seq(Commands) /\ Len(rxQueue) = 0
        /\ accepted \in Seq(Commands) /\ Len(accepted) = 0
    OBVIOUS
  <2>4. /\ link \in [Peers -> {"none", "open", "refused"}] /\ opens \in 0 .. MaxOpens
        /\ {client, second, sppConnected, connected, boost} \subseteq BOOLEAN
    <3>1. link \in [Peers -> {"none", "open", "refused"}]
      OBVIOUS
    <3>2. {client, second, sppConnected, connected, boost} \subseteq BOOLEAN
      OBVIOUS
    <3>3. opens \in 0 .. MaxOpens
      BY Bounds
    <3> QED BY <3>1, <3>2, <3>3
  <2> QED BY <2>1, <2>2, <2>3, <2>4, Bounds DEF TypeOK
<1>3. QueueInv
  BY DEF QueueInv
<1>4. FlagInv
  BY DEF FlagInv
<1>5. CarInv
  <2>1. Boosting(<<>>, FALSE)
    BY NoneYet DEF Boosting
  <2>2. Powering(<<>>, <<0, 0, 0, 0>>)
    <3>1. Asked(<<>>, 0, 0) = <<0, 0, 0, 0>>
      BY DEF Asked
    <3> QED BY <3>1, NoneYet DEF Powering
  <2>3. Steering(<<>>, ServoDuty(0))
    BY NoneYet, Straight DEF Steering
  <2> QED BY <1>1, <2>1, <2>2, <2>3 DEF CarInv
<1> QED BY <1>2, <1>3, <1>4, <1>5 DEF IInv

(* A connection that opens, and one that closes: whichever it is, the      *)
(* flags still stand for phones that are there.                            *)
LEMMA OpenInv == \A p \in Peers : IInv /\ SrvOpen(p) => IInv'
<1> SUFFICES ASSUME NEW p \in Peers, IInv, SrvOpen(p) PROVE IInv'
  OBVIOUS
<1>1. TypeOK'
  <2>1. opens' \in 0 .. MaxOpens
    BY Bounds DEF SrvOpen, IInv, TypeOK
  <2>2. link' \in [Peers -> {"none", "open", "refused"}]
    BY DEF SrvOpen, IInv, TypeOK
  <2>3. /\ client' \in BOOLEAN /\ second' \in BOOLEAN /\ sppConnected' \in BOOLEAN
        /\ UNCHANGED <<rxQueue, accepted, connected, boost, bridge, servo>>
    BY DEF SrvOpen, IInv, TypeOK, carVars
  <2> QED BY <2>1, <2>2, <2>3 DEF IInv, TypeOK
<1>2. UNCHANGED <<rxQueue, accepted, carVars>> /\ Executed' = Executed
  BY DEF SrvOpen, Executed
<1>3. FlagInv'
  <2>1. Live(p)' /\ ~Live(p) /\ \A q \in Peers : Live(q) => Live(q)' /\ q # p
    BY DEF SrvOpen, Live, IInv, TypeOK
  <2>2. second' => client'
    BY DEF SrvOpen, IInv, FlagInv, TypeOK
  <2>3. CASE client
    <3>1. PICK q \in Peers : Live(q)
      BY <2>3 DEF IInv, FlagInv
    <3> HIDE DEF Live
    <3> QED BY <2>1, <2>2, <3>1 DEF FlagInv
  <2>4. CASE ~client
    <3>1. second' = second /\ ~second
      BY <2>4 DEF SrvOpen, IInv, FlagInv
    <3> HIDE DEF Live
    <3> QED BY <2>1, <2>2, <3>1 DEF FlagInv
  <2> QED BY <2>3, <2>4
<1> QED BY <1>1, <1>2, <1>3 DEF IInv, QueueInv, CarInv, carVars

LEMMA CloseInv == \A p \in Peers : IInv /\ Close(p) => IInv'
<1> SUFFICES ASSUME NEW p \in Peers, IInv, Close(p) PROVE IInv'
  OBVIOUS
<1>1. TypeOK'
  BY DEF IInv, TypeOK, Close, Closed, carVars
<1>2. UNCHANGED <<rxQueue, accepted, carVars>> /\ Executed' = Executed
  BY DEF Close, Executed
<1>3. FlagInv'
  <2>1. \A q \in Peers : q # p /\ Live(q) => Live(q)'
    BY DEF Close, Live, IInv, TypeOK
  <2>2. ~sppConnected' /\ ~second'
    BY DEF Close, Closed, IInv, TypeOK
  <2>3. ASSUME client' PROVE \E q \in Peers : Live(q)'
    <3>1. second
      BY <2>3 DEF Close, Closed
    <3>2. PICK q \in Peers, r \in Peers : q # r /\ Live(q) /\ Live(r)
      BY <3>1 DEF IInv, FlagInv
    <3> HIDE DEF Live
    <3> QED BY <2>1, <3>2
  <2> HIDE DEF Live
  <2> QED BY <2>2, <2>3 DEF FlagInv
<1> QED BY <1>1, <1>2, <1>3 DEF IInv, QueueInv, CarInv, carVars

LEMMA DataInv == IInv /\ DataInd => IInv'
<1> SUFFICES ASSUME IInv, DataInd PROVE IInv'
  OBVIOUS
<1> USE DEF IInv
<1>1. PICK packet \in {<<c>> : c \in Commands} \cup (Commands \X Commands) :
        /\ Len(accepted) + Len(packet) <= MaxCommands
        /\ rxQueue' = rxQueue \o Taken(packet)
        /\ accepted' = accepted \o Taken(packet)
  <2>1. PICK packet \in {<<c>> : c \in Commands} \cup (Commands \X Commands) :
          /\ Len(accepted) + Len(packet) <= MaxCommands
          /\ rxQueue' = rxQueue \o Taken(packet)
          /\ \E n \in 0 .. Len(packet) :
               InTime(packet, n) /\ accepted' = accepted \o SubSeq(packet, 1, n)
    BY DEF DataInd
  <2> QED BY <2>1, TakenInTime
<1>2. UNCHANGED <<linkVars, carVars>>
  BY DEF DataInd
<1>3. /\ packet \in Seq(Commands) /\ Taken(packet) \in Seq(Commands)
      /\ Len(Taken(packet)) <= Len(packet)
      /\ Len(rxQueue) + Len(Taken(packet)) <= RX_QUEUE_SIZE
  BY TakenType
<1>4. QueueInv' /\ Executed' = Executed
  BY <1>1, <1>3, Pushed
<1>5. TypeOK'
  <2>1. rxQueue \in Seq(Commands) /\ accepted \in Seq(Commands)
    BY DEF TypeOK
  <2>2. /\ rxQueue' \in Seq(Commands) /\ Len(rxQueue') = Len(rxQueue) + Len(Taken(packet))
        /\ accepted' \in Seq(Commands)
        /\ Len(accepted') = Len(accepted) + Len(Taken(packet))
    BY <1>1, <1>3, <2>1, Joined
  <2>3. Len(accepted') <= MaxCommands
    <3>1. /\ Len(accepted) \in Nat /\ Len(packet) \in Nat /\ Len(Taken(packet)) \in Nat
          /\ MaxCommands \in Nat
      BY <1>3, <2>1, Bounds
    <3> QED BY <1>1, <1>3, <2>2, <3>1
  <2>4. Len(rxQueue') <= RX_QUEUE_SIZE
    BY <1>3, <2>2
  <2> QED BY <1>2, <2>2, <2>3, <2>4 DEF TypeOK, linkVars, carVars
<1>6. FlagInv'
  BY <1>2 DEF FlagInv, Live, linkVars
<1>7. CarInv'
  BY <1>2, <1>4 DEF CarInv, carVars
<1> QED BY <1>4, <1>5, <1>6, <1>7

LEMMA ConnectedInv == IInv /\ BtConnected => IInv'
<1> SUFFICES ASSUME IInv, BtConnected PROVE IInv'
  OBVIOUS
<1>1. /\ UNCHANGED <<link, client, second, sppConnected, opens, rxQueue, accepted,
                     boost, bridge, servo>>
      /\ connected' = TRUE
  BY DEF BtConnected, linkVars
<1>2. TypeOK'
  BY <1>1 DEF IInv, TypeOK
<1>3. QueueInv' /\ FlagInv' /\ CarInv'
  BY <1>1 DEF IInv, QueueInv, FlagInv, Live, CarInv, Executed
<1> QED BY <1>2, <1>3 DEF IInv

(* A command executed changes the three parts of the car that follow the   *)
(* commands, each to what the longer sequence asks for.                    *)
LEMMA RecieveInv == IInv /\ BtRecieve => IInv'
<1> SUFFICES ASSUME IInv, BtRecieve PROVE IInv'
  OBVIOUS
<1> USE DEF IInv
<1> DEFINE c == Head(rxQueue)
<1>1. /\ rxQueue # <<>> /\ rxQueue' = Tail(rxQueue) /\ accepted' = accepted
      /\ UNCHANGED <<link, client, second, sppConnected, opens, connected>>
      /\ ParseCommands(c)
  BY DEF BtRecieve, Available, linkVars
<1>2. QueueInv' /\ c \in Commands /\ Executed' = Append(Executed, c)
  BY <1>1, Popped
<1>3. Executed \in Seq(Commands)
  BY ExecutedType
<1> HIDE DEF c
<1>4. boost \in BOOLEAN
  BY DEF TypeOK
<1>5. boost' \in BOOLEAN /\ Boosting(Executed', boost')
  <2>1. /\ c = COMMAND_BOOST => Boosting(Executed', TRUE)
        /\ c = COMMAND_BOOST_CANCEL => Boosting(Executed', FALSE)
        /\ c \notin Boosts => Boosting(Executed', boost)
    BY <1>2, <1>3, <1>4, BoostingStep DEF CarInv
  <2>2. COMMAND_BOOST # COMMAND_BOOST_CANCEL
    BY DEF COMMAND_BOOST, COMMAND_BOOST_CANCEL
  <2>3. boost' = CASE c = COMMAND_BOOST        -> TRUE
                   [] c = COMMAND_BOOST_CANCEL -> FALSE
                   [] OTHER                    -> boost
    BY <1>1 DEF ParseCommands
  <2>4. CASE c = COMMAND_BOOST
    <3>1. boost' = TRUE
      BY <2>2, <2>3, <2>4
    <3> QED BY <2>1, <2>4, <3>1
  <2>5. CASE c = COMMAND_BOOST_CANCEL
    <3>1. boost' = FALSE
      BY <2>2, <2>3, <2>5
    <3> QED BY <2>1, <2>5, <3>1
  <2>6. CASE c \notin Boosts
    <3>1. boost' = boost
      BY <2>3, <2>6 DEF Boosts
    <3> QED BY <1>4, <2>1, <2>6, <3>1
  <2> QED BY <2>4, <2>5, <2>6 DEF Boosts
<1>6. Powering(Executed', bridge')
  <2>1. bridge' = IF c \in Powers THEN ParsePower(c) ELSE bridge
    BY <1>1 DEF ParseCommands, IsPower, Powers
  <2> QED BY <1>2, <1>3, <1>4, <2>1, PoweringStep DEF CarInv
<1>7. servo' = (IF c \in Steerings THEN ParseSteering(c) ELSE servo) /\ c \in Int
  <2>1. c \in Int /\ 0 <= c /\ c <= 255
    BY <1>2, Bytes
  <2>2. IsSteering(c) <=> c \in Steerings
    BY <2>1 DEF IsSteering, Steerings, BIAS_TURNING_START
  <2> QED BY <1>1, <2>1, <2>2 DEF ParseCommands
<1>8. Steering(Executed', servo')
  BY <1>2, <1>3, <1>7, SteeringStep DEF CarInv
<1>9. TypeOK'
  <2>1. servo' \in 0 .. maxResolution
    <3>1. ParseSteering(c) \in 0 .. maxResolution
      BY <1>7, SteeringMonotone
    <3> QED BY <1>7, <3>1 DEF TypeOK
  <2>2. bridge' \in [1 .. 4 -> 0 .. maxResolution]
    BY <1>6, PoweringType
  <2>3. rxQueue' \in Seq(Commands) /\ Len(rxQueue') <= RX_QUEUE_SIZE
    <3>1. rxQueue \in Seq(Commands) /\ Len(rxQueue) \in Nat
          /\ Len(rxQueue) <= RX_QUEUE_SIZE /\ RX_QUEUE_SIZE \in Nat
      BY Bounds DEF TypeOK
    <3> QED BY <1>1, <3>1
  <2> QED BY <1>1, <1>5, <2>1, <2>2, <2>3 DEF TypeOK
<1>10. FlagInv'
  BY <1>1 DEF FlagInv, Live
<1>11. CarInv'
  BY <1>5, <1>6, <1>8 DEF CarInv
<1> QED BY <1>2, <1>9, <1>10, <1>11

LEMMA StepInv == IInv /\ [Next]_vars => IInv'
<1> SUFFICES ASSUME IInv, [Next]_vars PROVE IInv'
  OBVIOUS
<1>1. CASE UNCHANGED vars
  BY <1>1 DEF vars, linkVars, carVars, IInv, TypeOK, QueueInv, FlagInv, Live, CarInv,
              Executed
<1> QED BY <1>1, OpenInv, CloseInv, DataInv, ConnectedInv, RecieveInv DEF Next, Loop

(* Queue, flags and duties are what the commands accepted and executed and *)
(* the phones that are still there make of them.                           *)
THEOREM Invariant == Spec => []IInv
BY InitInv, StepInv, PTL DEF Spec

-----------------------------------------------------------------------------
(* Whatever the phones send, the queue and the duties stay within their    *)
(* bounds.                                                                 *)
THEOREM TypeCorrect == Spec => []TypeOK
<1>1. IInv => TypeOK
  BY DEF IInv
<1> QED BY <1>1, Invariant, PTL

(* The motors do what the last power command executed asks for, with the   *)
(* power the boost commands before it left, for any number of commands,    *)
(* whatever the queue lost and whoever hung up (commandParser.h 21-51).    *)
THEOREM CommandsFollowed == Spec => []FollowsCommands
<1>1. IInv => FollowsCommands
  <2> SUFFICES ASSUME IInv PROVE FollowsCommands
    OBVIOUS
  <2>1. PICK last \in Nat, turn \in Nat :
          /\ IsLast(Executed, Powers, Len(Executed), last)
          /\ IsLast(Executed, Boosts, last, turn)
          /\ bridge = Asked(Executed, last, turn)
    BY DEF IInv, CarInv, Powering
  <2>2. Len(Executed) \in Nat
    BY ExecutedType DEF IInv
  <2>3. LastOf(Executed, Powers, Len(Executed)) = last
    BY <2>1, <2>2, LastUnique
  <2>4. LastOf(Executed, Boosts, last) = turn
    BY <2>1, LastUnique
  <2> QED BY <2>1, <2>3, <2>4 DEF FollowsCommands
<1> QED BY <1>1, Invariant, PTL

(* With every phone gone the flags are clear, whatever the order in which  *)
(* the connections of any number of phones closed.                         *)
THEOREM LinkCorrect == Spec => []LinkSettles
<1>1. IInv => LinkSettles
  BY DEF IInv, FlagInv, Live, LinkSettles
<1> QED BY <1>1, Invariant, PTL

(* A steering command never turns the wheels against it: every stage       *)
(* between the byte and the duty keeps the order.                          *)
THEOREM SteeringCorrect == Spec => SteersTheRightWay
<1>1. IInv /\ [Next]_vars
        => [LET last == LastOf(Executed, Steerings, Len(Executed))
                from == IF last = 0 THEN BIAS_TURNING_START + 90 ELSE Executed[last]
            IN  BtRecieve /\ IsSteering(Head(rxQueue)) =>
                  /\ Head(rxQueue) >= from => servo' >= servo
                  /\ Head(rxQueue) <= from => servo' <= servo]_vars
  <2> SUFFICES ASSUME IInv, BtRecieve, IsSteering(Head(rxQueue))
      PROVE  LET last == LastOf(Executed, Steerings, Len(Executed))
                 from == IF last = 0 THEN BIAS_TURNING_START + 90 ELSE Executed[last]
             IN  /\ Head(rxQueue) >= from => servo' >= servo
                 /\ Head(rxQueue) <= from => servo' <= servo
    OBVIOUS
  <2>1. PICK last \in Nat :
          /\ IsLast(Executed, Steerings, Len(Executed), last)
          /\ servo = ParseSteering(IF last = 0 THEN BIAS_TURNING_START + 90
                                               ELSE Executed[last])
    BY DEF IInv, CarInv, Steering
  <2>2. Executed \in Seq(Commands) /\ Len(Executed) \in Nat
    BY ExecutedType DEF IInv
  <2>3. LastOf(Executed, Steerings, Len(Executed)) = last
    BY <2>1, <2>2, LastUnique
  <2> DEFINE from == IF last = 0 THEN BIAS_TURNING_START + 90 ELSE Executed[last]
             c    == Head(rxQueue)
  <2>4. from \in Int
    <3>1. last > 0 => Executed[last] \in Commands
      BY <2>1, <2>2 DEF IsLast
    <3>2. last > 0 => Executed[last] \in Int
      BY <3>1, Bytes
    <3>3. BIAS_TURNING_START + 90 \in Int
      BY DEF BIAS_TURNING_START
    <3> QED BY <3>2, <3>3
  <2>5. c \in Int /\ servo' = ParseSteering(c)
    <3>1. c \in Commands
      BY Popped DEF IInv, BtRecieve, Available
    <3>2. c \in Int
      BY <3>1, Bytes
    <3>3. servo' = ParseSteering(c)
      BY DEF BtRecieve, ParseCommands
    <3> QED BY <3>2, <3>3
  <2> HIDE DEF from, c
  <2>6. servo = ParseSteering(from)
    BY <2>1 DEF from
  <2>7. c >= from => servo' >= servo
    <3> SUFFICES ASSUME c >= from PROVE servo' >= servo
      OBVIOUS
    <3>1. from <= c
      BY <2>4, <2>5
    <3>2. /\ ParseSteering(from) \in 0 .. maxResolution
          /\ ParseSteering(c) \in 0 .. maxResolution
          /\ ParseSteering(from) <= ParseSteering(c)
      BY <2>4, <2>5, <3>1, SteeringMonotone
    <3> QED BY <2>5, <2>6, <3>2
  <2>8. c <= from => servo' <= servo
    <3> SUFFICES ASSUME c <= from PROVE servo' <= servo
      OBVIOUS
    <3>1. ParseSteering(c) <= ParseSteering(from)
      BY <2>4, <2>5, SteeringMonotone
    <3> QED BY <2>5, <2>6, <3>1
  <2> QED BY <2>3, <2>7, <2>8 DEF from, c
<1> QED BY <1>1, Invariant, PTL DEF Spec, SteersTheRightWay

=============================================================================
