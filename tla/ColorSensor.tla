---------------------------- MODULE ColorSensor ----------------------------
(***************************************************************************)
(* The color of the goods, dep/color.h, as Task2 and autoTrack ask for it: *)
(* the blank color at startup, then a color at every platform.             *)
(*                                                                         *)
(* getColor reads six registers one by one, 10 ms apart, while the sensor  *)
(* goes on converting: the two bytes of a channel may come from two        *)
(* conversions, and a read that fails leaves 0.                            *)
(* The program's delays before it (400, 100, 600 ms) are a wait for a      *)
(* conversion of what the sensor sees now.                                 *)
(***************************************************************************)
EXTENDS Integers

CONSTANTS
  Goods,      \* what may stand at a platform, a set of colors
  Appearance  \* for every goods and channel, the values it may take

COLOR_RED    == 0
COLOR_GREEN  == 1
COLOR_BLUE   == 2
COLOR_YELLOW == 3
COLOR_EMPTY  == 4
NoColor      == 5

Channels == 0 .. 2
MaxByte  == 255
MaxValue == 65535
Dark     == 0   \* any channel without the lamp

ASSUME ColorAssumption ==
  /\ COLOR_EMPTY \in Goods /\ Goods \subseteq 0 .. 4
  /\ Appearance \in [Goods -> [Channels -> SUBSET (0 .. MaxValue)]]

VARIABLES
  view,       \* the goods before the sensor
  lamp,       \* is it lit?
  fresh,      \* has the sensor converted since one of them changed?
  registers   \* its three channels

VARIABLES
  task,       \* what getColor is for: "first", "blank", "goods"; or "track"
  i,          \* the byte it reads next
  rawBuff,
  blankRGB,
  color,      \* of the goods at the last platform
  torn,       \* history: the channels whose high byte changed before their
              \* low one was read,
  failed,     \* history: those with a byte that failed,
  blankSound  \* history: the blank color had neither

sensorVars == <<view, lamp, fresh, registers>>
vars == <<sensorVars, task, i, rawBuff, blankRGB, color, torn, failed, blankSound>>

Seen(c) == IF lamp THEN Appearance[view][c] ELSE {Dark}

MutantBegin(purpose) ==
  /\ task' = purpose
  /\ i' = 0
  /\ rawBuff' = rawBuff
  /\ torn' = {} /\ failed' = {}

(* getColor clears its buffer.                                             *)
Begin(purpose) ==
  /\ task' = purpose
  /\ i' = 0
  /\ rawBuff' = [b \in 0 .. 5 |-> 0]
  /\ torn' = {} /\ failed' = {}

Init ==
  /\ view = COLOR_EMPTY /\ lamp = TRUE /\ fresh = FALSE
  /\ registers = [c \in Channels |-> Dark]
  /\ task = "first" /\ i = 0 /\ rawBuff = [b \in 0 .. 5 |-> 0]
  /\ blankRGB = [c \in Channels |-> 0] /\ color = NoColor
  /\ torn = {} /\ failed = {} /\ blankSound = FALSE

-----------------------------------------------------------------------------
Convert ==
  /\ \E r \in Seen(0), g \in Seen(1), b \in Seen(2) :
       registers' = [c \in Channels |-> IF c = 0 THEN r ELSE IF c = 1 THEN g ELSE b]
  /\ fresh' = TRUE
  /\ UNCHANGED <<view, lamp, task, i, rawBuff, blankRGB, color, torn, failed,
                 blankSound>>

MutantDelayed == TRUE

Delayed == fresh

(* requestBuffer of one byte; a failure goes unnoticed.                    *)
RequestBuffer ==
  /\ task # "track" /\ i < 6
  /\ i = 0 => Delayed
  /\ LET c     == i \div 2
         high  == registers[c] \div 256
         isLow == i % 2 = 1
     IN  \/ /\ rawBuff' = [rawBuff EXCEPT ![i] = IF isLow THEN registers[c] % 256 ELSE high]
            /\ torn' = IF isLow /\ c \notin failed /\ rawBuff[i - 1] # high
                       THEN torn \cup {c} ELSE torn
            /\ UNCHANGED failed
         \/ /\ failed' = failed \cup {c}
            /\ UNCHANGED <<rawBuff, torn>>
  /\ i' = i + 1
  /\ UNCHANGED <<sensorVars, task, blankRGB, color, blankSound>>

RGB == [c \in Channels |-> 256 * rawBuff[2 * c] + rawBuff[2 * c + 1]]

(* setupBlankColor: the color read first is not used, the second is.       *)
FirstColor ==
  /\ task = "first" /\ i = 6
  /\ Begin("blank")
  /\ UNCHANGED <<sensorVars, blankRGB, color, blankSound>>

BlankColor ==
  /\ task = "blank" /\ i = 6
  /\ blankRGB' = RGB
  /\ blankSound' = (torn = {} /\ failed = {})
  /\ task' = "track"
  /\ UNCHANGED <<sensorVars, i, rawBuff, color, torn, failed>>

(* A platform: autoTrack turns the lamp on.                                *)
Arrive ==
  /\ task = "track"
  /\ view' \in Goods
  /\ lamp' = TRUE /\ fresh' = FALSE
  /\ color' = NoColor
  /\ Begin("goods")
  /\ UNCHANGED <<registers, blankRGB, blankSound>>

(* outRGB: darker than the blank color is nothing.                         *)
MutantOut(rgb, blank) ==
  [c \in Channels |-> IF rgb[c] >= blank[c] THEN rgb[c] - blank[c] ELSE blank[c] - rgb[c]]

Out(rgb, blank) ==
  [c \in Channels |-> IF rgb[c] >= blank[c] THEN rgb[c] - blank[c] ELSE 0]

(* Of equally large channels the first counts.                             *)
ParseColor(outRGB) ==
  LET largest == CHOOSE c \in Channels :
                   /\ \A d \in Channels : outRGB[d] <= outRGB[c]
                   /\ \A d \in 0 .. c - 1 : outRGB[d] < outRGB[c]
      IsNear(c) == 10 * outRGB[c] > 8 * outRGB[largest]
  IN  IF outRGB[largest] < 40 THEN COLOR_EMPTY
      ELSE CASE largest = 0 -> IF IsNear(1) THEN COLOR_YELLOW ELSE COLOR_RED
             [] largest = 1 -> IF IsNear(0) THEN COLOR_YELLOW ELSE COLOR_GREEN
             [] largest = 2 -> COLOR_BLUE

(* getRGB; then autoTrack turns the lamp off.                              *)
GetRGB ==
  /\ task = "goods" /\ i = 6
  /\ color' = ParseColor(Out(RGB, blankRGB))
  /\ lamp' = FALSE /\ fresh' = FALSE
  /\ task' = "track"
  /\ UNCHANGED <<view, registers, i, rawBuff, blankRGB, torn, failed, blankSound>>

Next ==
  \/ Convert \/ RequestBuffer
  \/ FirstColor \/ BlankColor \/ Arrive \/ GetRGB

Spec == Init /\ [][Next]_vars

-----------------------------------------------------------------------------
TypeOK ==
  /\ view \in Goods /\ {lamp, fresh, blankSound} \subseteq BOOLEAN
  /\ registers \in [Channels -> 0 .. MaxValue]
  /\ task \in {"first", "blank", "goods", "track"} /\ i \in 0 .. 6
  /\ rawBuff \in [0 .. 5 -> 0 .. MaxByte]
  /\ \A b \in i .. 5 : rawBuff[b] = 0
  /\ blankRGB \in [Channels -> 0 .. MaxValue]
  /\ color \in 0 .. NoColor
  /\ torn \subseteq Channels /\ failed \subseteq Channels

(* What the sensor reports of goods in one conversion, or channel by       *)
(* channel in several.                                                     *)
Readings(goods) ==
  {rgb \in [Channels -> UNION {Appearance[goods][c] : c \in Channels}] :
     \A c \in Channels : rgb[c] \in Appearance[goods][c]}

(* The next two properties ask of the light that parseColor tells such     *)
(* readings of the goods apart, and that without goods no channel comes as *)
(* far above another reading of it as goods would.                         *)
TellsApart ==
  \A goods \in Goods :
    \A rgb \in Readings(goods), blank \in Readings(COLOR_EMPTY) :
      ParseColor(Out(rgb, blank)) = goods

Steady ==
  \A c \in Channels :
    \A now, blank \in Appearance[COLOR_EMPTY][c] : now - blank < 40

(* The color is that of the goods, though every byte may come from another *)
(* conversion, unless a channel went from one high byte to the next just   *)
(* between its two reads or a read failed, now or at startup (color.h      *)
(* 45-58, 85-100, 118-164): colors that a steady light tells apart are     *)
(* told apart in a light that flickers.                                    *)
ColorTrue ==
  color # NoColor /\ blankSound /\ torn = {} /\ failed = {} => color = view

(* Reads that fail hide goods and never invent any (color.h 104-115): the  *)
(* zero they leave makes a channel darker, and darker than blank is        *)
(* nothing (line 123).                                                     *)
EmptyIsEmpty ==
  color # NoColor /\ view = COLOR_EMPTY /\ blankSound /\ torn = {} => color = COLOR_EMPTY

=============================================================================
