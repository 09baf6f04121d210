--------------------------- MODULE RemoteControl ---------------------------
(***************************************************************************)
(* The Bluetooth mode: the loop of Task2 (bupt_car_2.ino 147-159), the     *)
(* commands it parses, and the receiving side of BluetoothSerial, whose    *)
(* callback fills the queue and keeps the flags of the connections while   *)
(* the loop runs.                                                          *)
(*                                                                         *)
(* Several phones may connect.  The callback keeps one and disconnects     *)
(* every other; it does not look whose connection a close event ends.      *)
(* A command is parsed in one step: nothing else touches what it writes.   *)
(***************************************************************************)
EXTENDS Servo, Sequences, SequencesExt

CONSTANTS
  Peers,          \* the phones
  Commands,       \* the bytes they send
  RX_QUEUE_SIZE,  \* commands in the queue
  MaxOpens,       \* bound: connections
  MaxCommands     \* bound: commands accepted

ASSUME RemoteAssumption ==
  /\ Commands \subseteq 0 .. 255
  /\ RX_QUEUE_SIZE \in Nat \ {0}
  /\ MaxOpens \in Nat /\ MaxCommands \in Nat

VARIABLES
  link,          \* the connection of each phone
  client,        \* _spp_client # 0
  second,        \* secondConnectionAttempt
  sppConnected,  \* the bit SPP_CONNECTED
  rxQueue,       \* _spp_rx_queue
  opens          \* connections so far

VARIABLES
  connected,     \* has the loop seen a connection?
  boost,
  bridge,        \* the duty of the motor's four channels
  servo,         \* the duty of the servo's channel
  accepted       \* history: every command that came while there was room

linkVars == <<link, client, second, sppConnected, opens>>
carVars  == <<connected, boost, bridge, servo>>
vars     == <<linkVars, rxQueue, accepted, carVars>>

COMMAND_BOOST          == 2
COMMAND_BOOST_CANCEL   == 3
BIAS_POWER_LEVEL_START == 4
BIAS_POWER_LEVEL_END   == 9
BIAS_TURNING_START     == 76
cDefaultThrottle       == 30000

IsPower(command)    == command \in BIAS_POWER_LEVEL_START .. BIAS_POWER_LEVEL_END
IsSteering(command) == command >= BIAS_TURNING_START

Init ==
  /\ link = [p \in Peers |-> "none"]
  /\ client = FALSE /\ second = FALSE /\ sppConnected = FALSE
  /\ rxQueue = <<>> /\ accepted = <<>> /\ opens = 0
  /\ connected = FALSE /\ boost = FALSE
  /\ bridge = <<0, 0, 0, 0>>
  /\ servo = ServoDuty(0)

-----------------------------------------------------------------------------
(* esp_spp_cb.                                                             *)
SrvOpen(p) ==
  /\ link[p] = "none" /\ opens < MaxOpens
  /\ IF ~client
     THEN link' = [link EXCEPT ![p] = "open"] /\ client' = TRUE /\ UNCHANGED second
     ELSE link' = [link EXCEPT ![p] = "refused"] /\ second' = TRUE /\ UNCHANGED client
  /\ sppConnected' = TRUE
  /\ opens' = opens + 1
  /\ UNCHANGED <<rxQueue, accepted, carVars>>

MutantClosed ==
  /\ client' = FALSE
  /\ UNCHANGED second

(* The close of the refused connection is meant to leave the client be.    *)
Closed ==
  IF second THEN second' = FALSE /\ UNCHANGED client
            ELSE client' = FALSE /\ UNCHANGED second

Close(p) ==
  /\ link[p] # "none"
  /\ link' = [link EXCEPT ![p] = "none"]
  /\ Closed
  /\ sppConnected' = FALSE
  /\ UNCHANGED <<opens, rxQueue, accepted, carVars>>

(* Of a packet, what there is no room for is lost.  The mutants take it    *)
(* all, and none of it.                                                    *)
MutantTaken(packet) == packet

MutantTakesNone(packet) ==
  IF Len(packet) > RX_QUEUE_SIZE - Len(rxQueue) THEN <<>> ELSE packet

Taken(packet) ==
  LET room == RX_QUEUE_SIZE - Len(rxQueue)
  IN  IF Len(packet) > room THEN SubSeq(packet, 1, room) ELSE packet

(* Its first n commands come while there is room.                          *)
InTime(packet, n) ==
  /\ n \in 0 .. Len(packet)
  /\ Len(rxQueue) + n <= RX_QUEUE_SIZE
  /\ n < Len(packet) => Len(rxQueue) + n = RX_QUEUE_SIZE

DataInd ==
  /\ \E p \in Peers : link[p] # "none"
  /\ \E packet \in {<<c>> : c \in Commands} \cup (Commands \X Commands) :
       /\ Len(accepted) + Len(packet) <= MaxCommands
       /\ rxQueue' = rxQueue \o Taken(packet)
       /\ \E n \in 0 .. Len(packet) :
            InTime(packet, n) /\ accepted' = accepted \o SubSeq(packet, 1, n)
  /\ UNCHANGED <<linkVars, carVars>>

-----------------------------------------------------------------------------
(* What a command makes of the bridge: left front, left back, right front, *)
(* right back.                                                             *)
MotorControl(front, power) ==
  LET p == Clamp(power, 0, maxResolution)
  IN  IF front THEN <<p, 0, p, 0>> ELSE <<0, p, 0, p>>

MotorIdle  == <<0, 0, 0, 0>>
MotorBrake == [channel \in 1 .. 4 |-> maxResolution]

Throttle(boosted) == IF boosted THEN 2 * cDefaultThrottle ELSE cDefaultThrottle

MutantParsePower(command) ==
  CASE command \div 2 = 2 -> MotorControl(FALSE, Throttle(boost))
    [] command \div 2 = 3 -> MotorBrake
    [] command \div 2 = 4 -> MotorControl(TRUE, Throttle(boost))

ParsePower(command) ==
  LET level == command - BIAS_POWER_LEVEL_START
  IN  CASE level % 2 = 1 -> MotorIdle
        [] level = 0     -> MotorControl(FALSE, Throttle(boost))
        [] level = 2     -> MotorBrake
        [] level = 4     -> MotorControl(TRUE, Throttle(boost))

(* customRound of 2.2 times a number: a negative one loses its fraction.   *)
Sensitive(number) ==
  IF number < 0 THEN -((-22 * number) \div 10)
  ELSE (22 * number) \div 10 + (IF (22 * number) % 10 > 5 THEN 1 ELSE 0)

ParseSteering(command) ==
  LET angle == Clamp(Sensitive(command - BIAS_TURNING_START - 90), -90, 90)
  IN  ServoDuty(IntegerMap(angle, -90, 90, -cAngleLimit, cAngleLimit))

ParseCommands(command) ==
  /\ boost' = CASE command = COMMAND_BOOST        -> TRUE
                [] command = COMMAND_BOOST_CANCEL -> FALSE
                [] OTHER                          -> boost
  /\ bridge' = IF IsPower(command) THEN ParsePower(command) ELSE bridge
  /\ servo' = IF IsSteering(command) THEN ParseSteering(command) ELSE servo

(* Task2's loop.  A connection once seen is never forgotten.               *)
BtConnected ==
  /\ ~connected /\ sppConnected
  /\ connected' = TRUE
  /\ UNCHANGED <<linkVars, rxQueue, accepted, boost, bridge, servo>>

MutantAvailable == Len(rxQueue) > 1

Available == rxQueue # <<>>

BtRecieve ==
  /\ connected /\ Available
  /\ ParseCommands(Head(rxQueue))
  /\ rxQueue' = Tail(rxQueue)
  /\ UNCHANGED <<linkVars, accepted, connected>>

Loop == BtConnected \/ BtRecieve

Next == Loop \/ DataInd \/ \E p \in Peers : SrvOpen(p) \/ Close(p)

Spec == Init /\ [][Next]_vars

FairSpec == Spec /\ WF_vars(Loop)

-----------------------------------------------------------------------------
TypeOK ==
  /\ link \in [Peers -> {"none", "open", "refused"}]
  /\ {client, second, sppConnected, connected, boost} \subseteq BOOLEAN
  /\ rxQueue \in Seq(Commands) /\ Len(rxQueue) <= RX_QUEUE_SIZE
  /\ accepted \in Seq(Commands) /\ Len(accepted) <= MaxCommands
  /\ opens \in 0 .. MaxOpens
  /\ bridge \in [1 .. 4 -> 0 .. maxResolution]
  /\ servo \in 0 .. maxResolution

Executed == SubSeq(accepted, 1, Len(accepted) - Len(rxQueue))

Powers    == BIAS_POWER_LEVEL_START .. BIAS_POWER_LEVEL_END
Steerings == BIAS_TURNING_START .. 255
Boosts    == {COMMAND_BOOST, COMMAND_BOOST_CANCEL}

(* The last command of a kind among the first n of them, 0 if there is     *)
(* none.                                                                   *)
IsLast(commands, kind, n, i) ==
  /\ i \in 0 .. n
  /\ i > 0 => commands[i] \in kind
  /\ \A j \in i + 1 .. n : commands[j] \notin kind

LastOf(commands, kind, n) == CHOOSE i \in 0 .. n : IsLast(commands, kind, n, i)

(* What a power command asks of the bridge, and what the one at place last *)
(* does when the last boost command before it is at place turn.            *)
Channels(command, power) ==
  CASE command = 4 -> <<0, power, 0, power>>
    [] command = 6 -> <<65535, 65535, 65535, 65535>>
    [] command = 8 -> <<power, 0, power, 0>>
    [] OTHER       -> <<0, 0, 0, 0>>

Asked(commands, last, turn) ==
  IF last = 0 THEN <<0, 0, 0, 0>>
  ELSE Channels(commands[last],
                IF turn > 0 /\ commands[turn] = COMMAND_BOOST THEN 60000 ELSE 30000)

(* What the motors do is what the phones' last executed power command asks *)
(* for, at twice the power if of the boost commands before it the last was *)
(* not a cancelling one; cancelling the boost while driving changes        *)
(* nothing (commandParser.h 21-51), and neither does anything else: not a  *)
(* byte lost from a full queue, not a lost connection.                     *)
FollowsCommands ==
  LET last == LastOf(Executed, Powers, Len(Executed))
      turn == LastOf(Executed, Boosts, last)
  IN  bridge = Asked(Executed, last, turn)

(* The wheels never turn against the phone: a steering command further to  *)
(* the right than the one before it moves the servo to the right or leaves *)
(* it, and all the same to the left, through two roundings, two bounds and *)
(* two scales (commandParser.h 59-66, servo.h 21-34).                      *)
SteersTheRightWay ==
  [][LET last == LastOf(Executed, Steerings, Len(Executed))
         from == IF last = 0 THEN BIAS_TURNING_START + 90 ELSE Executed[last]
     IN  BtRecieve /\ IsSteering(Head(rxQueue)) =>
           /\ Head(rxQueue) >= from => servo' >= servo
           /\ Head(rxQueue) <= from => servo' <= servo]_vars

(* Once every phone is gone, in whatever order their connections closed,   *)
(* the flags say so and the next one is accepted (BluetoothSerial.cpp      *)
(* 276-309); no flag of a refused connection is left over.                 *)
LinkSettles ==
  (\A p \in Peers : link[p] = "none") => ~client /\ ~sppConnected /\ ~second

(* Every command accepted is executed in the end, even after its phone has *)
(* gone, unless no connection has been seen and none is flagged: a refused *)
(* phone takes the flag along when it goes (line 305), and the loop then   *)
(* waits for another (bupt_car_2.ino 148-158).                             *)
Obeyed ==
  \A n \in 1 .. MaxCommands :
    (Len(accepted) >= n) ~> (Len(Executed) >= n \/ (~connected /\ ~sppConnected))

=============================================================================
