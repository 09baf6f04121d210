-------------------------- MODULE ColorSensorProof --------------------------
(***************************************************************************)
(* For any goods and any light: what six reads at six moments make of a    *)
(* channel is what the sensor reported in one of them, unless its high     *)
(* byte changed in between or a read failed.                               *)
(***************************************************************************)
EXTENDS ColorSensor, TLAPS

(* A color is read in the light of the lamp, after a conversion of what    *)
(* the sensor sees.                                                        *)
SensorInv ==
  /\ task # "track" => lamp
  /\ task \in {"first", "blank"} => view = COLOR_EMPTY
  /\ task # "track" /\ i > 0 => fresh
  /\ fresh => \A c \in Channels : registers[c] \in Seen(c)

(* A channel of which the high byte has been read, and one read whole: a   *)
(* byte that failed only makes it smaller.                                 *)
High(c) ==
  IF c \in failed
  THEN rawBuff[2 * c] = 0
  ELSE \E value \in Appearance[view][c] : rawBuff[2 * c] = value \div 256

Whole(c) ==
  /\ c \notin torn => \E value \in Appearance[view][c] : RGB[c] <= value
  /\ c \notin torn /\ c \notin failed => RGB[c] \in Appearance[view][c]

ChannelInv(c) ==
  /\ i <= 2 * c     => c \notin failed /\ c \notin torn
  /\ i = 2 * c + 1  => High(c) /\ c \notin torn
  /\ i >= 2 * c + 2 => Whole(c)

BufferInv == \A c \in Channels : ChannelInv(c)

(* The blank color is one, and the color is made of what was read.         *)
BlankInv ==
  blankSound => \A c \in Channels : blankRGB[c] \in Appearance[COLOR_EMPTY][c]

ColorInv ==
  color # NoColor =>
    task = "track" /\ i = 6 /\ color = ParseColor(Out(RGB, blankRGB))

IInv == TypeOK /\ SensorInv /\ BufferInv /\ BlankInv /\ ColorInv

-----------------------------------------------------------------------------
LEMMA Sizes ==
  /\ MaxByte \in Nat /\ MaxByte >= 255 /\ MaxByte <= 255
  /\ MaxValue \in Nat /\ MaxValue >= 65535 /\ MaxValue <= 65535
BY DEF MaxByte, MaxValue

LEMMA NoColorIsFive == NoColor = 5 /\ NoColor \in 0 .. NoColor
BY DEF NoColor

(* A register and its two bytes.                                           *)
LEMMA BytesOfValue ==
  ASSUME NEW value \in 0 .. MaxValue
  PROVE  /\ value \in Int
         /\ value \div 256 \in 0 .. MaxByte /\ value % 256 \in 0 .. MaxByte
         /\ 256 * (value \div 256) + (value % 256) = value
         /\ 256 * (value \div 256) <= value /\ value % 256 <= value
<1>1. value \in Int /\ 0 <= value /\ value <= 65535
  BY Sizes
<1> DEFINE high == value \div 256
           low  == value % 256
<1>2. /\ high \in Int /\ low \in Int
      /\ 256 * high + low = value /\ 0 <= low /\ low <= 255
  BY <1>1
<1> HIDE DEF high, low
<1>3. 0 <= high /\ high <= 255 /\ 256 * high <= value /\ low <= value
  BY <1>1, <1>2
<1>4. high \in 0 .. MaxByte /\ low \in 0 .. MaxByte
  BY <1>2, <1>3, Sizes
<1> QED BY <1>1, <1>2, <1>3, <1>4 DEF high, low

LEMMA ValueOfBytes ==
  ASSUME NEW high \in 0 .. MaxByte, NEW low \in 0 .. MaxByte
  PROVE  256 * high + low \in 0 .. MaxValue
<1>1. high \in Int /\ low \in Int /\ 0 <= high /\ high <= 255 /\ 0 <= low /\ low <= 255
  BY Sizes
<1> DEFINE both == 256 * high + low
<1>2. 0 <= both /\ both <= 65535 /\ both \in Int
  BY <1>1
<1> HIDE DEF both
<1>3. both \in 0 .. MaxValue
  BY <1>2, Sizes
<1> QED BY <1>3 DEF both

LEMMA AppearanceType ==
  ASSUME NEW goods \in Goods, NEW c \in Channels
  PROVE  Appearance[goods][c] \subseteq 0 .. MaxValue
BY ColorAssumption

LEMMA RGBType ==
  ASSUME rawBuff \in [0 .. 5 -> 0 .. MaxByte]
  PROVE  RGB \in [Channels -> 0 .. MaxValue]
<1> SUFFICES ASSUME NEW c \in Channels
             PROVE  256 * rawBuff[2 * c] + rawBuff[2 * c + 1] \in 0 .. MaxValue
  BY DEF RGB
<1>1. 2 * c \in 0 .. 5 /\ 2 * c + 1 \in 0 .. 5
  BY DEF Channels
<1>2. rawBuff[2 * c] \in 0 .. MaxByte /\ rawBuff[2 * c + 1] \in 0 .. MaxByte
  BY <1>1
<1> QED BY <1>2, ValueOfBytes

LEMMA OutType ==
  ASSUME NEW rgb \in [Channels -> 0 .. MaxValue], NEW blank \in [Channels -> 0 .. MaxValue]
  PROVE  Out(rgb, blank) \in [Channels -> Nat]
<1> SUFFICES ASSUME NEW c \in Channels
             PROVE  (IF rgb[c] >= blank[c] THEN rgb[c] - blank[c] ELSE 0) \in Nat
  BY DEF Out
<1>1. rgb[c] \in 0 .. MaxValue /\ blank[c] \in 0 .. MaxValue
  OBVIOUS
<1> QED BY <1>1

(* parseColor's result; without a channel of 40 there are no goods.        *)
LEMMA ParseColorType ==
  ASSUME NEW outRGB \in [Channels -> Nat]
  PROVE  /\ ParseColor(outRGB) \in 0 .. 4
         /\ (\A c \in Channels : outRGB[c] < 40) => ParseColor(outRGB) = COLOR_EMPTY
<1> DEFINE IsLargest(c) == /\ \A d \in Channels : outRGB[d] <= outRGB[c]
                           /\ \A d \in 0 .. c - 1 : outRGB[d] < outRGB[c]
           largest == CHOOSE c \in Channels : IsLargest(c)
<1>1. \E c \in Channels : IsLargest(c)
  <2> DEFINE r == outRGB[0]
             g == outRGB[1]
             b == outRGB[2]
  <2>1. r \in Nat /\ g \in Nat /\ b \in Nat
    BY DEF Channels
  <2>2. CASE g <= r /\ b <= r
    <3>1. IsLargest(0)
      BY <2>1, <2>2 DEF Channels
    <3> QED BY <3>1 DEF Channels
  <2>3. CASE r < g /\ b <= g
    <3>1. IsLargest(1)
      BY <2>1, <2>3 DEF Channels
    <3> QED BY <3>1 DEF Channels
  <2>4. CASE r < b /\ g < b
    <3>1. IsLargest(2)
      BY <2>1, <2>4 DEF Channels
    <3> QED BY <3>1 DEF Channels
  <2> QED BY <2>1, <2>2, <2>3, <2>4
<1>2. largest \in Channels
  BY <1>1
<1> HIDE DEF largest
<1>3. largest = 0 \/ largest = 1 \/ largest = 2
  BY <1>2 DEF Channels
<1> DEFINE near(c) == 10 * outRGB[c] > 8 * outRGB[largest]
<1>4. ParseColor(outRGB) =
        IF outRGB[largest] < 40 THEN COLOR_EMPTY
        ELSE CASE largest = 0 -> IF near(1) THEN COLOR_YELLOW ELSE COLOR_RED
               [] largest = 1 -> IF near(0) THEN COLOR_YELLOW ELSE COLOR_GREEN
               [] largest = 2 -> COLOR_BLUE
  BY DEF ParseColor, largest
<1> HIDE DEF near
<1>5. ParseColor(outRGB) \in 0 .. 4
  BY <1>3, <1>4 DEF COLOR_EMPTY, COLOR_YELLOW, COLOR_RED, COLOR_GREEN, COLOR_BLUE
<1> QED BY <1>2, <1>4, <1>5

-----------------------------------------------------------------------------
LEMMA InitInv == Init => IInv
<1> SUFFICES ASSUME Init PROVE IInv
  OBVIOUS
<1>1. Dark \in 0 .. MaxValue /\ 0 \in 0 .. MaxByte /\ 0 \in 0 .. MaxValue
  BY Sizes DEF Dark
<1>2. /\ registers \in [Channels -> 0 .. MaxValue]
      /\ rawBuff \in [0 .. 5 -> 0 .. MaxByte] /\ \A b \in i .. 5 : rawBuff[b] = 0
      /\ blankRGB \in [Channels -> 0 .. MaxValue]
  BY <1>1 DEF Init
<1>3. TypeOK
  <2>1. /\ view \in Goods /\ color \in 0 .. NoColor
        /\ task \in {"first", "blank", "goods", "track"} /\ i \in 0 .. 6
        /\ torn \subseteq Channels /\ failed \subseteq Channels
    BY ColorAssumption, NoColorIsFive DEF Init
  <2>2. {lamp, fresh, blankSound} \subseteq BOOLEAN
    BY DEF Init
  <2> QED BY <1>2, <2>1, <2>2 DEF TypeOK
<1>4. SensorInv /\ BlankInv /\ ColorInv
  BY DEF Init, SensorInv, BlankInv, ColorInv
<1>5. BufferInv
  BY DEF Init, BufferInv, ChannelInv, Channels
<1> QED BY <1>3, <1>4, <1>5 DEF IInv

(* A conversion shows what the sensor sees.                                *)
LEMMA ConvertInv == IInv /\ Convert => IInv'
<1> SUFFICES ASSUME IInv, Convert PROVE IInv'
  OBVIOUS
<1>1. TypeOK /\ SensorInv /\ BufferInv /\ BlankInv /\ ColorInv
  BY DEF IInv
<1>2. /\ fresh' = TRUE
      /\ UNCHANGED <<view, lamp, task, i, rawBuff, blankRGB, color, torn, failed,
                     blankSound>>
  BY DEF Convert
<1>3. registers' \in [Channels -> 0 .. MaxValue] /\ \A c \in Channels : registers'[c] \in Seen(c)
  <2>1. PICK r \in Seen(0), g \in Seen(1), b \in Seen(2) :
          registers' = [c \in Channels |-> IF c = 0 THEN r ELSE IF c = 1 THEN g ELSE b]
    BY DEF Convert
  <2>2. ASSUME NEW c \in Channels
        PROVE  registers'[c] \in Seen(c) /\ Seen(c) \subseteq 0 .. MaxValue
    <3>1. Dark \in 0 .. MaxValue
      BY Sizes DEF Dark
    <3>2. Seen(c) \subseteq 0 .. MaxValue
      BY <1>1, <3>1, AppearanceType DEF Seen, TypeOK
    <3>3. c = 0 \/ c = 1 \/ c = 2
      BY DEF Channels
    <3> QED BY <2>1, <3>2, <3>3
  <2> QED BY <2>1, <2>2
<1>4. TypeOK'
  BY <1>1, <1>2, <1>3 DEF TypeOK
<1>5. SensorInv'
  <2>1. \A c \in Channels : Seen(c)' = Seen(c)
    BY <1>2 DEF Seen
  <2> QED BY <1>1, <1>2, <1>3, <2>1 DEF SensorInv
<1>6. RGB' = RGB
  BY <1>2 DEF RGB
<1>7. BufferInv'
  BY <1>1, <1>2, <1>6 DEF BufferInv, ChannelInv, High, Whole
<1>8. BlankInv' /\ ColorInv'
  BY <1>1, <1>2, <1>6 DEF BlankInv, ColorInv
<1> QED BY <1>4, <1>5, <1>7, <1>8 DEF IInv

(* A read of a byte, or of nothing.                                        *)
LEMMA ReadInv ==
  ASSUME IInv, RequestBuffer
  PROVE  TypeOK' /\ SensorInv' /\ \A c \in Channels : registers[c] \in Appearance[view][c]
<1>1. /\ TypeOK /\ SensorInv
      /\ task # "track" /\ i \in 0 .. 5 /\ i' = i + 1
      /\ UNCHANGED <<sensorVars, task, blankRGB, color, blankSound>>
  BY DEF IInv, TypeOK, RequestBuffer
<1>2. lamp /\ fresh
  BY <1>1 DEF SensorInv, RequestBuffer, Delayed
<1>3. \A c \in Channels : registers[c] \in Appearance[view][c]
  BY <1>1, <1>2 DEF SensorInv, Seen
<1>4. SensorInv'
  BY <1>1, <1>2, <1>3 DEF SensorInv, Seen, sensorVars
<1>5. i \div 2 \in Channels
  BY <1>1 DEF Channels
<1>6. registers[i \div 2] \in 0 .. MaxValue
  BY <1>1, <1>5 DEF TypeOK
<1>7. registers[i \div 2] \div 256 \in 0 .. MaxByte /\ registers[i \div 2] % 256 \in 0 .. MaxByte
  BY <1>6, BytesOfValue
<1>8. /\ torn' \subseteq Channels /\ failed' \subseteq Channels
      /\ \/ rawBuff' = rawBuff
         \/ rawBuff' = [rawBuff EXCEPT ![i] = registers[i \div 2] % 256]
         \/ rawBuff' = [rawBuff EXCEPT ![i] = registers[i \div 2] \div 256]
  BY <1>1, <1>5 DEF RequestBuffer, TypeOK
<1>9. rawBuff' \in [0 .. 5 -> 0 .. MaxByte] /\ \A b \in i + 1 .. 5 : rawBuff'[b] = 0
  BY <1>1, <1>7, <1>8 DEF TypeOK
<1>10. TypeOK'
  BY <1>1, <1>8, <1>9 DEF TypeOK, sensorVars
<1> QED BY <1>3, <1>4, <1>10

LEMMA ReadChannel ==
  ASSUME IInv, RequestBuffer, NEW c \in Channels
  PROVE  ChannelInv(c)'
<1>1. /\ ChannelInv(c) /\ i \in 0 .. 5 /\ i' = i + 1 /\ view' = view
      /\ rawBuff \in [0 .. 5 -> 0 .. MaxByte] /\ \A b \in i .. 5 : rawBuff[b] = 0
      /\ c \in Int /\ 2 * c \in 0 .. 5 /\ 2 * c + 1 \in 0 .. 5
  BY DEF IInv, TypeOK, BufferInv, RequestBuffer, sensorVars, Channels
<1> DEFINE value == registers[c]
<1>2. value \in Appearance[view][c] /\ value \in 0 .. MaxValue
  BY ReadInv, AppearanceType DEF IInv, TypeOK
<1>3. /\ value \div 256 \in 0 .. MaxByte /\ value % 256 \in 0 .. MaxByte
      /\ 256 * (value \div 256) + (value % 256) = value
      /\ 256 * (value \div 256) <= value /\ value % 256 <= value
      /\ 0 <= value /\ value \in Int
  BY <1>2, BytesOfValue, Sizes
<1>4. /\ RGB[c] = 256 * rawBuff[2 * c] + rawBuff[2 * c + 1]
      /\ RGB'[c] = 256 * rawBuff'[2 * c] + rawBuff'[2 * c + 1]
  BY DEF RGB
<1>5. CASE i \div 2 # c
  <2>1. rawBuff'[2 * c] = rawBuff[2 * c] /\ rawBuff'[2 * c + 1] = rawBuff[2 * c + 1]
    <3>1. i # 2 * c /\ i # 2 * c + 1
      BY <1>1, <1>5
    <3> QED BY <1>1, <3>1 DEF RequestBuffer
  <2>2. (c \in torn' <=> c \in torn) /\ (c \in failed' <=> c \in failed)
    BY <1>5 DEF RequestBuffer
  <2>3. /\ i' <= 2 * c     => i <= 2 * c
        /\ i' # 2 * c + 1
        /\ i' >= 2 * c + 2 => i >= 2 * c + 2
    BY <1>1, <1>5
  <2> QED BY <1>1, <1>4, <2>1, <2>2, <2>3 DEF ChannelInv, Whole
<1>6. CASE i = 2 * c
  <2>1. i \div 2 = c /\ i % 2 # 1 /\ i' = 2 * c + 1
    BY <1>1, <1>6
  <2>2. c \notin failed /\ c \notin torn /\ rawBuff[2 * c] = 0
    BY <1>1, <1>6 DEF ChannelInv
  <2>3. c \notin torn'
    BY <2>1, <2>2 DEF RequestBuffer
  <2>4. High(c)'
    <3>1. CASE rawBuff' = [rawBuff EXCEPT ![i] = value \div 256] /\ failed' = failed
      <4>1. rawBuff'[2 * c] = value \div 256 /\ c \notin failed'
        BY <1>1, <1>6, <2>2, <3>1
      <4> QED BY <1>1, <1>2, <4>1 DEF High
    <3>2. CASE rawBuff' = rawBuff /\ c \in failed'
      BY <2>2, <3>2 DEF High
    <3> QED BY <2>1, <3>1, <3>2 DEF RequestBuffer
  <2> QED BY <1>1, <2>1, <2>3, <2>4 DEF ChannelInv
<1>7. CASE i = 2 * c + 1
  <2>1. i \div 2 = c /\ i % 2 = 1 /\ i' = 2 * c + 2 /\ i - 1 = 2 * c
    BY <1>1, <1>7
  <2>2. High(c) /\ c \notin torn /\ rawBuff[2 * c + 1] = 0
    BY <1>1, <1>7 DEF ChannelInv
  <2>3. Whole(c)'
    <3>1. CASE /\ rawBuff' = [rawBuff EXCEPT ![i] = value % 256] /\ failed' = failed
               /\ torn' = IF c \notin failed /\ rawBuff[2 * c] # value \div 256
                          THEN torn \cup {c} ELSE torn
      <4>1. rawBuff'[2 * c] = rawBuff[2 * c] /\ rawBuff'[2 * c + 1] = value % 256
        BY <1>1, <1>7, <3>1
      <4>2. CASE c \in failed
        <5>1. RGB'[c] = value % 256
          BY <1>3, <1>4, <2>2, <4>1, <4>2 DEF High
        <5> QED BY <1>1, <1>2, <1>3, <3>1, <4>2, <5>1 DEF Whole
      <4>3. CASE c \notin failed /\ rawBuff[2 * c] = value \div 256
        <5>1. RGB'[c] = value
          BY <1>3, <1>4, <4>1, <4>3
        <5> QED BY <1>1, <1>2, <1>3, <5>1 DEF Whole
      <4>4. CASE c \notin failed /\ rawBuff[2 * c] # value \div 256
        BY <3>1, <4>4 DEF Whole
      <4> QED BY <4>2, <4>3, <4>4
    <3>2. CASE rawBuff' = rawBuff /\ c \in failed'
      <4>1. RGB'[c] = 256 * rawBuff[2 * c]
        BY <1>1, <1>4, <2>2, <3>2, Sizes
      <4>2. \E v \in Appearance[view][c] : 256 * rawBuff[2 * c] <= v
        <5>1. CASE c \in failed
          BY <1>2, <1>3, <2>2, <5>1 DEF High
        <5>2. CASE c \notin failed
          <6>1. PICK v \in Appearance[view][c] : rawBuff[2 * c] = v \div 256
            BY <2>2, <5>2 DEF High
          <6>2. 256 * (v \div 256) <= v
            BY AppearanceType, BytesOfValue DEF IInv, TypeOK
          <6> QED BY <6>1, <6>2
        <5> QED BY <5>1, <5>2
      <4> QED BY <1>1, <3>2, <4>1, <4>2 DEF Whole
    <3> QED BY <2>1, <3>1, <3>2 DEF RequestBuffer
  <2> QED BY <1>1, <2>1, <2>3 DEF ChannelInv
<1>8. i \div 2 = c => i = 2 * c \/ i = 2 * c + 1
  BY <1>1
<1> QED BY <1>5, <1>6, <1>7, <1>8

LEMMA RequestBufferInv == IInv /\ RequestBuffer => IInv'
<1> SUFFICES ASSUME IInv, RequestBuffer PROVE IInv'
  OBVIOUS
<1>1. TypeOK' /\ SensorInv'
  BY ReadInv
<1>2. BufferInv'
  BY ReadChannel DEF BufferInv
<1>3. BlankInv' /\ ColorInv'
  BY DEF IInv, BlankInv, ColorInv, RequestBuffer
<1> QED BY <1>1, <1>2, <1>3 DEF IInv

-----------------------------------------------------------------------------
(* A buffer just cleared.                                                  *)
LEMMA BeginInv ==
  ASSUME NEW purpose, Begin(purpose)
  PROVE  /\ BufferInv'
         /\ rawBuff' \in [0 .. 5 -> 0 .. MaxByte] /\ \A b \in i' .. 5 : rawBuff'[b] = 0
         /\ torn' = {} /\ failed' = {} /\ i' = 0 /\ task' = purpose
<1>1. torn' = {} /\ failed' = {} /\ i' = 0 /\ task' = purpose
  BY DEF Begin
<1>2. 0 \in 0 .. MaxByte
  BY Sizes
<1>3. rawBuff' \in [0 .. 5 -> 0 .. MaxByte] /\ \A b \in i' .. 5 : rawBuff'[b] = 0
  BY <1>1, <1>2 DEF Begin
<1>4. BufferInv'
  BY <1>1 DEF BufferInv, ChannelInv, Channels
<1> QED BY <1>1, <1>3, <1>4

LEMMA FirstColorInv == IInv /\ FirstColor => IInv'
<1> SUFFICES ASSUME IInv, FirstColor PROVE IInv'
  OBVIOUS
<1>1. /\ TypeOK /\ SensorInv /\ BlankInv /\ ColorInv
      /\ task = "first" /\ Begin("blank")
      /\ UNCHANGED <<sensorVars, blankRGB, color, blankSound>>
  BY DEF IInv, FirstColor
<1>2. TypeOK' /\ BufferInv'
  BY <1>1, BeginInv DEF TypeOK, sensorVars
<1>3. SensorInv' /\ BlankInv' /\ ColorInv'
  BY <1>1, BeginInv DEF SensorInv, BlankInv, ColorInv, sensorVars, Seen
<1> QED BY <1>2, <1>3 DEF IInv

LEMMA ArriveInv == IInv /\ Arrive => IInv'
<1> SUFFICES ASSUME IInv, Arrive PROVE IInv'
  OBVIOUS
<1>1. /\ TypeOK /\ BlankInv /\ Begin("goods")
      /\ view' \in Goods /\ lamp' = TRUE /\ fresh' = FALSE /\ color' = NoColor
      /\ UNCHANGED <<registers, blankRGB, blankSound>>
  BY DEF IInv, Arrive
<1>2. TypeOK' /\ BufferInv'
  <2>1. /\ BufferInv'
        /\ rawBuff' \in [0 .. 5 -> 0 .. MaxByte] /\ \A b \in i' .. 5 : rawBuff'[b] = 0
        /\ torn' = {} /\ failed' = {} /\ i' = 0 /\ task' = "goods"
    BY <1>1, BeginInv
  <2>2. {lamp', fresh', blankSound'} \subseteq BOOLEAN
    BY <1>1 DEF TypeOK
  <2>3. color' \in 0 .. NoColor
    BY <1>1, NoColorIsFive
  <2> QED BY <1>1, <2>1, <2>2, <2>3 DEF TypeOK
<1>3. SensorInv' /\ BlankInv' /\ ColorInv'
  BY <1>1, BeginInv DEF SensorInv, BlankInv, ColorInv
<1> QED BY <1>2, <1>3 DEF IInv

(* The blank color is sound when no channel was torn and no read failed.   *)
LEMMA BlankColorInv == IInv /\ BlankColor => IInv'
<1> SUFFICES ASSUME IInv, BlankColor PROVE IInv'
  OBVIOUS
<1>1. /\ TypeOK /\ SensorInv /\ BufferInv /\ BlankInv /\ ColorInv
      /\ task = "blank" /\ i = 6 /\ task' = "track"
      /\ blankRGB' = RGB /\ blankSound' = (torn = {} /\ failed = {})
      /\ UNCHANGED <<sensorVars, i, rawBuff, color, torn, failed>>
  BY DEF IInv, BlankColor
<1>2. RGB \in [Channels -> 0 .. MaxValue] /\ RGB' = RGB
  BY <1>1, RGBType DEF TypeOK, RGB
<1>3. TypeOK'
  BY <1>1, <1>2 DEF TypeOK, sensorVars
<1>4. SensorInv'
  BY <1>1 DEF SensorInv, sensorVars, Seen
<1>5. BufferInv'
  BY <1>1, <1>2 DEF BufferInv, ChannelInv, High, Whole, sensorVars
<1>6. BlankInv'
  <2> SUFFICES ASSUME torn = {}, failed = {}, NEW c \in Channels
               PROVE  RGB[c] \in Appearance[COLOR_EMPTY][c]
    BY <1>1 DEF BlankInv
  <2>1. view = COLOR_EMPTY
    BY <1>1 DEF SensorInv
  <2>2. i >= 2 * c + 2
    BY <1>1 DEF Channels
  <2> QED BY <1>1, <2>1, <2>2 DEF BufferInv, ChannelInv, Whole
<1>7. ColorInv'
  BY <1>1 DEF ColorInv
<1> QED BY <1>3, <1>4, <1>5, <1>6, <1>7 DEF IInv

LEMMA GetRGBInv == IInv /\ GetRGB => IInv'
<1> SUFFICES ASSUME IInv, GetRGB PROVE IInv'
  OBVIOUS
<1>1. /\ TypeOK /\ SensorInv /\ BufferInv /\ BlankInv
      /\ task = "goods" /\ i = 6 /\ task' = "track"
      /\ color' = ParseColor(Out(RGB, blankRGB))
      /\ lamp' = FALSE /\ fresh' = FALSE
      /\ UNCHANGED <<view, registers, i, rawBuff, blankRGB, torn, failed, blankSound>>
  BY DEF IInv, GetRGB
<1>2. RGB' = RGB
  BY <1>1 DEF RGB
<1>3. TypeOK'
  <2>1. RGB \in [Channels -> 0 .. MaxValue] /\ blankRGB \in [Channels -> 0 .. MaxValue]
    BY <1>1, RGBType DEF TypeOK
  <2>2. color' \in 0 .. 4
    BY <1>1, <2>1, OutType, ParseColorType
  <2>3. color' \in 0 .. NoColor
    BY <2>2, NoColorIsFive
  <2> QED BY <1>1, <2>3 DEF TypeOK
<1>4. SensorInv' /\ BlankInv'
  BY <1>1 DEF SensorInv, BlankInv
<1>5. BufferInv'
  BY <1>1, <1>2 DEF BufferInv, ChannelInv, High, Whole
<1>6. ColorInv'
  BY <1>1, <1>2 DEF ColorInv
<1> QED BY <1>3, <1>4, <1>5, <1>6 DEF IInv

LEMMA StepInv == IInv /\ [Next]_vars => IInv'
<1> SUFFICES ASSUME IInv, [Next]_vars PROVE IInv'
  OBVIOUS
<1>1. CASE UNCHANGED vars
  <2>1. UNCHANGED <<view, lamp, fresh, registers, task, i, rawBuff, blankRGB, color,
                    torn, failed, blankSound>>
    BY <1>1 DEF vars, sensorVars
  <2>2. RGB' = RGB
    BY <2>1 DEF RGB
  <2> QED BY <2>1, <2>2 DEF IInv, TypeOK, SensorInv, Seen, BufferInv, ChannelInv,
                            High, Whole, BlankInv, ColorInv
<1> QED BY <1>1, ConvertInv, RequestBufferInv, FirstColorInv, BlankColorInv,
           ArriveInv, GetRGBInv DEF Next

-----------------------------------------------------------------------------
(* However the six reads, the conversions and the failures fall: ...       *)
THEOREM ColorInvariant == Spec => []IInv
BY InitInv, StepInv, PTL DEF Spec

(* ... the buffer holds bytes, those not read yet are 0, and the color is  *)
(* one of the five.                                                        *)
THEOREM TypeCorrect == Spec => []TypeOK
<1>1. IInv => TypeOK
  BY DEF IInv
<1> QED BY <1>1, ColorInvariant, PTL

(* A color made of whole channels is made of what the sensor reported.     *)
LEMMA ReadingIsOne ==
  ASSUME NEW goods, NEW rgb \in [Channels -> 0 .. MaxValue],
         \A c \in Channels : rgb[c] \in Appearance[goods][c]
  PROVE  rgb \in Readings(goods)
<1>1. \A c \in Channels : rgb[c] \in UNION {Appearance[goods][d] : d \in Channels}
  OBVIOUS
<1>2. rgb \in [Channels -> UNION {Appearance[goods][d] : d \in Channels}]
  BY <1>1
<1> QED BY <1>2 DEF Readings

(* Where colors can be told apart, the color is that of the goods unless a *)
(* channel was torn or a read failed, ...                                  *)
THEOREM ColorsTold == ASSUME TellsApart PROVE Spec => []ColorTrue
<1>1. IInv => ColorTrue
  <2> SUFFICES ASSUME IInv, color # NoColor, blankSound, torn = {}, failed = {}
               PROVE  color = view
    BY DEF ColorTrue
  <2>1. /\ TypeOK /\ BufferInv /\ BlankInv
        /\ i = 6 /\ color = ParseColor(Out(RGB, blankRGB))
    BY DEF IInv, ColorInv
  <2>2. /\ RGB \in [Channels -> 0 .. MaxValue]
        /\ blankRGB \in [Channels -> 0 .. MaxValue] /\ view \in Goods
    BY <2>1, RGBType DEF TypeOK
  <2>3. ASSUME NEW c \in Channels PROVE RGB[c] \in Appearance[view][c]
    <3>1. i >= 2 * c + 2
      BY <2>1 DEF Channels
    <3> QED BY <2>1, <3>1 DEF BufferInv, ChannelInv, Whole
  <2>4. RGB \in Readings(view)
    BY <2>2, <2>3, ReadingIsOne
  <2>5. blankRGB \in Readings(COLOR_EMPTY)
    BY <2>1, <2>2, ReadingIsOne DEF BlankInv
  <2> QED BY <2>1, <2>2, <2>4, <2>5 DEF TellsApart
<1> QED BY <1>1, ColorInvariant, PTL

(* ... and where an empty shelf is steady, reads that fail make no goods   *)
(* of it.                                                                  *)
THEOREM NothingInvented == ASSUME Steady PROVE Spec => []EmptyIsEmpty
<1>1. IInv => EmptyIsEmpty
  <2> SUFFICES ASSUME IInv, color # NoColor, view = COLOR_EMPTY, blankSound, torn = {}
               PROVE  color = COLOR_EMPTY
    BY DEF EmptyIsEmpty
  <2>1. /\ TypeOK /\ BufferInv /\ BlankInv
        /\ i = 6 /\ color = ParseColor(Out(RGB, blankRGB))
    BY DEF IInv, ColorInv
  <2>2. /\ RGB \in [Channels -> 0 .. MaxValue]
        /\ blankRGB \in [Channels -> 0 .. MaxValue]
    BY <2>1, RGBType DEF TypeOK
  <2>3. ASSUME NEW c \in Channels PROVE Out(RGB, blankRGB)[c] < 40
    <3>1. i >= 2 * c + 2
      BY <2>1 DEF Channels
    <3>2. PICK value \in Appearance[COLOR_EMPTY][c] : RGB[c] <= value
      BY <2>1, <3>1 DEF BufferInv, ChannelInv, Whole
    <3>3. blankRGB[c] \in Appearance[COLOR_EMPTY][c]
      BY <2>1 DEF BlankInv
    <3>4. value - blankRGB[c] < 40
      BY <3>3 DEF Steady
    <3>5. RGB[c] \in 0 .. MaxValue /\ blankRGB[c] \in 0 .. MaxValue /\ value \in 0 .. MaxValue
      BY <2>2, AppearanceType, ColorAssumption
    <3> QED BY <3>2, <3>4, <3>5 DEF Out
  <2> QED BY <2>1, <2>2, <2>3, OutType, ParseColorType
<1> QED BY <1>1, ColorInvariant, PTL

=============================================================================
