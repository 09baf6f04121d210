# A verification of the warehouse patrol car

The program (`src/bupt_car_2.ino`, `src/dep/`) drives a line-following car on an
ESP32. It follows a closed line past the shelves of a warehouse, stops at every
platform (a solid dark bar across the line), reads the color of the goods there,
and reports each full circle over Bluetooth to a PC, where
`src/data_uploader/serial_reader.py` turns the reports into XML. If the camera
is covered at power-on the car is driven by a phone instead.

This directory holds TLA+ models of that code, TLC runs that check them on small
instances, and proofs, checked by TLAPS, that the most important results hold
for every value of the parameters.

## 1. The system

| Part | Source | State | Operations | Talks to |
|---|---|---|---|---|
| Startup and mode choice | `bupt_car_2.ino` `setup`, `Task2` (131-160), `prepareCCD` | `bestRecord`, `cameraIsBlocked` | calibrate the color sensor, search the exposure time, choose a mode | everything |
| Tracking mode | `bupt_car_2.ino` 161-193, `dep/autotrack.h` | `location`, `angelPID`, `data` | `autoTrack`: track, stop at a platform, leave it, blink for ever | camera, servo, motor, color sensor, Bluetooth |
| Line camera | `dep/ccd.h` | `linearData`, `binaryData`, `lastAvailableAverage` | `captrueCCD`, `processCCD`, `getTrackMidPixel`, `getBestExplosureTime` | the tracking mode, startup |
| Goods package | `dep/data.h` | `package` | `set_cargo`, `set_count`, `encode` | tracking mode |
| Heading and speed control | `dep/pid.h`, `dep/motor.h`, `dep/speedControl.h`, `dep/servo.h` | PID terms, `rotateCount` (shared with an interrupt), PWM channels | `pid::update`, `motorForward`, `motorBrake`, `getSpeed`, `servoWritePixel` | both modes |
| Color sensor | `dep/color.h` | `blankRGB`, `rgb`, lamp | `setupBlankColor`, `getRGB`, `parseColor` | tracking mode, startup |
| Remote control | `bupt_car_2.ino` 143-160, `dep/commandParser.h` | `connected`, `boost` | `parseCommands` | Bluetooth, motor, servo |
| Bluetooth | `dep/bluetooth.h` over the vendored `BluetoothSerial` | its queues and event bits | `btSend`, `btRecieve`, `btConnected` | both modes, phone, PC |
| PC uploader | `data_uploader/serial_reader.py` | the last `cargo`, the XML file | read a line, append four goods | Bluetooth serial port |
| Display, led | `dep/oled.h`, `dep/boardLed.h` | what is shown | printing | all |

Only one of the program's tasks does anything: `Task1` sleeps, `loop` sleeps,
`Task2` runs one of the two modes for ever. What runs beside it is the pulse
interrupt, BluetoothSerial's sending task and the callback of the Bluetooth
stack, the reader on the PC, the phones and, above all, the world: the car rolls
while the program computes, the light changes between two frames, somebody pulls
the motor pin or restocks a shelf.

What makes each part correct:

- **Tracking mode.** Each platform is visited in its turn, neither missed nor
  counted twice nor invented; each stop is announced and each full circle
  reported once, with exactly the colors sampled in it; a stop is left again; a
  lost line ends in a braked car; the motor pin stops the motor.
- **Line camera.** The pixel reported is the middle of the leftmost wide dark
  run; the threshold carried from frame to frame follows the light; the status
  tells line, platform and neither apart.
- **Exposure.** The tracking mode never starts without a valid record, and the
  record chosen is the one of best contrast.
- **Speed control.** A speed is that of the time it was measured in, whenever
  the interrupt comes; the bridge does what the last order says; on the line the
  integral of the PID cannot keep the car standing for ever.
- **Color sensor.** The color is that of the goods although the sensor goes on
  converting while it is read, and nothing is made of an empty shelf.
- **Remote control.** Commands take effect in the order sent, none is forgotten
  once accepted, the wheels turn the way the phone asks; connections that come
  and go in any order leave no flag behind.
- **Bluetooth and uploader.** No byte reaches the PC twice or out of order; in a
  connection in which nothing failed none is missing, and the PC's file holds
  exactly the reports, each of them in the end.

PROJECT.json lists the hazards behind these, each at its line.

## 2. The modules

```
Ccd ──────────► TrackScan ──► MCTrackScan           (run track_scan)
 │                  └───────► TrackScanProof
 ├─► CcdProof ──────────────► TrackScanProof, AutoTrackProof, ExposureProof
 ├─► AutoTrack ─► MCAutoTrack                        (runs patrol, stops,
 │      │ P == INSTANCE Patrol                        pin_claim, return_claim)
 │      └─► AutoTrackProof
 └─► Exposure ──► MCExposure                         (runs exposure,
        └──────► ExposureProof                        compensation_claim)
SpeedControl ─► MCSpeedControl (runs speed, creep_claim), SpeedControlProof
Servo ─► RemoteControl ─► MCRemoteControl (run remote), RemoteControlProof
ColorSensor ─► MCColorSensor (run color), ColorSensorProof
SppLink ─► Uplink ─► MCUplink (run uplink), UplinkProof
```

**Ccd** – the image processing of `ccd.h` as constant-level operators. A frame is
a function from the pixels of the evaluated window (15..126 in the source, a
parameter here) to readings. `AvgVal`, `LinearToBinary`, `IsSolidDark` and
`ProcessCCD` follow the functions of the same names, with their truncations:
`customRound` rounds .5 down, `int(totalNum * 0.7f)` truncates (0.7f is so close
to 7/10 that the rounded product truncates as the exact one does), and the pixel is mapped to 0..128 by the Arduino core's *integer* `map`, because
the float temporaries in the call cannot bind to the reference parameters of the
template in `math.h`. `GetTrackMidPixel` states declaratively what the scan
returns.

**TrackScan** – the loop of `getTrackMidPixel` itself, one action per branch of
its body (`DarkPixel`, `WhitePixel`, `EndOfTrack`, `EndOfWindow`, `Finish`), on
any frame and threshold. `Correct` says that the loop returns what
`GetTrackMidPixel` says.

**AutoTrack** – `Task2`'s tracking loop. One action per stretch of code between
two points where the world can change what the code sees:

| `pc` | Action | Code |
|---|---|---|
| `top` | `LoopTop` | `autoTrack` is entered, the pin sampled (autotrack.h:23) |
| `look` | `TrackNormal`, `ArrivePlatform`, `Fault` | a capture and the branch of the two `switch`es its status selects |
| `arrived` | `SwitchLamp` | the rest and the lamp (81-84) |
| `sample` | `SampleColor` | `getRGB`, lamp off, `set_cargo` (86-89) |
| `announce` | `Announce` | `btSend("Platform Reached")`, the test for a full circle (93-97) |
| `report` | `Report` | `set_count`, `btSend(data.encode())` (99-100) |
| `leave` | `Leave` | the pause and `motorForward(motorAimSpeed / 3)` (103-107) |
| `discard` | `Discard` | the capture whose status is overwritten unread (108) |
| `leaving` | `LeaveStep` | one turn of the loop that waits for `STATUS_NORMAL` (109-114) |
| `fault` | `Blink` | the endless loop (123-126) |

The world's actions are `Move` (the car rolls on by a cell, unless braked, at
most once between two captures), `Derail`, `ChangeLight`, `TogglePin` and
`Restock`; the constant `Disturbances` says which of them a run allows.
What the camera sees is `Image[surface][light]`, any of a set of frames.
`WellLaid` and `WellLit` say of a line and a light what `VisitsInOrder` and
`NeverFaults` need: two cells of line before each platform, and that a threshold
taken at most `MaxDrift` levels of light away still tells line and platform.
`motor` is "drive" or "creep" only when `motorForward` has given power enough to
roll. What the speed PID makes of a call is `SpeedControl`'s matter, so here any
call may leave the motor "idle" instead. On the line the next frame calls again.
At a platform there is one call (107) and a loop that makes none: a car that gets
no power from it, its PID being wound down or its pin having been low when
sampled, is `Stranded`.

**Patrol** – the abstract specification: visits, an announcement for each, a
report for each full circle. `AutoTrack` implements it under the mapping
`owed <- Owed`, where `Owed` reads the message due next off `pc`; `seen` and
`outbox` map to themselves (`seen` is a history variable of `AutoTrack`).

**Exposure** – what `AutoTrack` leaves out of the same code: for how long each
frame has been exposed. The camera collects light from one start pulse to the
next (`startPulse`), so the frame a call of `captrueCCD` reads was exposed since
the call before, whatever happened in between. `Task2` from power-on:

| `pc` | Action | Code |
|---|---|---|
| `expose`, `record` | `Expose`, `Record` | the two captures of one test of `getBestExplosureTime`, and its record (ccd.h:276-307) |
| `compare` | `Compare`, `ChooseMode` | one turn of the loop over the records (313-345); `cameraIsBlocked` and the branch on it (ino:143-166) |
| `loop` | `LoopTop` | `getTime` (ino:119-125, 174) |
| `capture` | `Capture` | the capture of `autoTrack` (autotrack.h:32-40) and any status |
| `normal` | `TrackNormal` | the rest of a NORMAL turn, of any of the lengths in `LoopTimes` |
| `platform`, `leaving` | `StopAtPlatform`, `LeavePlatform` | the stop with the frame thrown away; the frames until one is NORMAL |
| `remote`, `fault` | – | the two other endless loops; nothing there touches the exposure |

The readings themselves are any frame of the set `Shots` at any exposure time.
`bestRecord` and `returnFromPlatform` start with anything, as nothing in the code
initializes them. Contrasts are fractions, compared exactly as the code compares
float quotients; `VeryDark` and `FarApart` say what rounding means for the two
thresholds of `cameraIsBlocked`.

**SpeedControl** – how much power there is behind `motor` in `AutoTrack`.
`motorForward` is cut where the pulse interrupt can come between its statements:
`MotorForward` is `getSpeed` up to the time difference (speedControl.h:32-34),
`ReadCount` the quotient (36), `Reset` the reset (37) and the rest of
`motorForward` with the PID and `motorControl`. `Interrupt` is a pulse during the
call, `Wait` the rest of the loop with the pulses that come in it: one of
`Windows`, the length of a frame, or, after a brake, of `StopWindows`, that of a
stop. `millis` wraps at `ClockSize`. The orders come as `autoTrack` gives them:
on the line `aim_speed` at every frame, or idle with the pin low, or a brake;
after a brake (`platform`) a third of the speed, or idle, *once*, and then nothing
until `FindTrack`, the NORMAL frame that ends the loop behind the stop.

**Servo**, **RemoteControl** – the mode for a covered camera. `Servo` is
`servoWriteAngle`, from the angle to the duty cycle, in exact fractions; for
every angle and command there is the truncated duty is the one the program's
floats give. `RemoteControl` composes it with `Task2`'s loop (`BtConnected`,
`BtRecieve` with all of `parseCommands`) and the receiving side of
BluetoothSerial: `SrvOpen`, `Close` and `DataInd` are branches of `esp_spp_cb`.
The second phone is refused; which connection a close event ends is not looked
at in the code, nor in the model. The history `accepted` is built from what comes
while there is room (`InTime`), the queue by the callback's loop (`Taken`), so that
a queue that lost more than it must, or took more than it can, is seen.

**ColorSensor** – `setupBlankColor`, `getRGB` and `parseColor`. `RequestBuffer`
is one of the six reads of `getColor`; `Convert`, the sensor's own step, may come
between any two of them, and a read may fail. The delays before a reading are
the condition that the sensor has converted since lamp or goods changed
(`Delayed`). `Readings` is what the sensor reports of goods, channel by channel;
`TellsApart` and `Steady` are what the two properties ask of the light.

**SppLink** – the sending side of BluetoothSerial. Three parties:

| Party | Actions | Code |
|---|---|---|
| the writer | `Write`, `Enqueue`, `QueueTimeout` | `write`, `_spp_queue_packet` |
| `_spp_tx_task` | `Receive`, `Fill`, `Store`, `StoreFull`, `CopyRest` | 209-249 |
| | `AwaitFree`, `HandOver`, `Refuse`, `AwaitDone` | `_spp_send_buffer` |
| `esp_spp_cb` | `SrvOpen`, `Close`, `Congestion`, `WriteDone` | its branches |

`_spp_tx_buffer_len` is shared by task and callback without a lock. The task's
`+=` may use the value of before the copy or the one of now; both are in
`Store`. Bytes are numbered as they are written, so that order, repetition and
loss can be said without contents. `calm` is a history variable: the connection
opened with nothing under way and nothing has failed since. A write the stack has
accepted may fail later: `ESP_SPP_WRITE_EVT` then only logs it and gives the
semaphore as after a good one (320-330), so task and buffer go on as if nothing
had happened. `HandOver` decides there and then whether the bytes arrive; if they
do not, `calm` ends.

**Uplink** – `SppLink` between the car's `btSend` and `serial_reader.py`. A
message is written as `println` does it, text and line end apart. `Open` is a
start of the reader: the connection and the empty file. `ReadLine` takes a
received line; a line that is one message is an announcement or a report, a
torn one (`TornLine`) ends the reader or, should it happen to have five commas,
puts in a good nobody reported. That the messages come in this order is what
`Patrol` says of the car.

**CcdProof**, **TrackScanProof**, **AutoTrackProof**, **ExposureProof**,
**SpeedControlProof**, **UplinkProof**, **RemoteControlProof**,
**ColorSensorProof** – the proofs, section 5.

## 3. The runs

| Run | Instance | Question |
|---|---|---|
| `track_scan` | window of 6 pixels, 3 intensities, every threshold, minimal width 2 | does the loop of `getTrackMidPixel` return the middle of the leftmost wide dark run, and does its loop invariant hold? |
| `patrol` | 2 platforms on 8 cells, 2 colors, 3 levels of light, two circles; pin and shelves change at any time, the light by one level between two NORMAL frames | is every platform visited in turn, does the stream hold exactly what was sampled, is `Patrol` implemented? does the threshold follow the light, and do the wheels turn to the line? |
| `stops` | one circle; the pin changes at any time, the line may be lost, a call of `motorForward` may give no power; fairness | is `Stranded` the only way to stay at a platform, is the circle reported otherwise? does a lost line always end braked in the blinking loop, for good? |
| `pin_claim` | as `stops` | *violated*: a pin that stays detached does not always stop the motor |
| `return_claim` | one circle; the light may change by two levels between NORMAL frames; fairness | *violated*: the leaving loop can spin over a good line for ever |
| `exposure` | 3 exposure times, 7 frames, 4 turns of the loop | is the best record chosen, does the tracking loop always have one, is no frame exposed across a long delay? |
| `compensation_claim` | as `exposure` | *violated*: the time of the last turn is not made up to the exposure time |
| `speed` | frames of 10 and 20 ms, stops of 3.6 s, a clock that wraps every 4 s, a car standing or pushed at three or six times its speed, one pulse inside each call; fairness | how far can the speed be off, does the bridge do what the last order says, does a car standing on the line get power again? |
| `creep_claim` | as `speed` | *violated*: the one call at the end of a stop does not always move the car forward |
| `remote` | 2 phones, 13 commands, a queue of 2, 3 connections, 3 commands; fairness | do motors and wheels follow the commands, are all executed, do the flags settle? |
| `color` | empty, red and yellow, in a light that flickers across a high byte | when is the color right, and can an empty shelf get one? |
| `uplink` | buffer of 4 bytes, queue of 2 packets, 2 messages of 3 bytes, 2 connections; fairness | is every byte sent at most once and in order, is nothing missing in a calm connection, does the file hold exactly the reports? |

**Bounds.** Two platforms are enough to tell a position from its neighbour and a
full circle from a stop; the second one is two cells long, so that the car can
stop on its first cell and see it again while leaving. Two circles
(`MaxTravel = 16`) reach a second report, whose package is built over the
first's. Two colors, red, which an unwritten slot shows too, and the empty shelf,
which a dark sensor shows. The camera has five pixels, of which a line covers two:
a frame of a line has one dark run at the left edge, or one to the right of a dark
pixel of noise, so that it lies off the middle on either side; a platform covers
four or all five, on either side of the 70 % test; a bare floor has no wide run. Readings are chosen so that the threshold taken at
one level of light still parts dark from white at the next level and not at the
one after: both the good case (`patrol`) and the bad one (`return_claim`) occur.
`stops` has one level of light, as its states are dear: every step is looked at
once for each fairness condition. What light does to the status of a frame is
checked in `patrol`.
Six pixels and three intensities in `track_scan` cover runs at both edges,
noise before a track, two tracks, even and odd runs, and ties between the two
middle pixels.

In `exposure` any of the seven frames may come at each of the three times: lines
of strong, weak and very strong contrast (the last makes `cameraIsBlocked` true
together with a weak one), a line next to noise, and three without a track. So
there are ties, an invalid record of better contrast than the valid ones, and no
valid record at all. `Garbage` holds 0 and a time no test uses. One turn is
shorter and one longer than every exposure time, the delays are longer than all
of them; four turns (`MaxLoops`) reach a NORMAL turn after a stop after a NORMAL
turn. A platform is left after one or two frames (`MaxFrames`).
`CHECK_DEADLOCK FALSE` in these two runs: the remote mode, the blinking loop and
the bound on the turns are where the model ends. In `track_scan`: the loop
returns.

In `speed` a stop takes the clock nearly round, so that it wraps in the next stop
or in the frames before that. The pulses (none, or 30 in a frame where 5 or 10
would be `aim_speed`) wind the integral far enough down that a standing car gets no power for several calls, or
for the one call at a stop. After `MaxCalls = 4` calls nobody pushes, no pin is
pulled and no platform comes any more; `RegainsPower` follows the integral back
up. Speeds and powers are scaled so that the quotients of frames are whole; that
of a stop is rounded down.
In `remote` a queue of two loses bytes of a packet of two; the commands are one
of each kind and, of the steering ones, both ends, both sides of the middle and
the last that is bounded; three connections are needed for the refused phone to
come back. `color` has values on both sides of 256 and 512: the flicker tears a
channel, and torn readings are what `ColorTrue` has to exempt. In `uplink` four
bytes make the second message straddle the buffer, with a send in the middle of
it, two packets fill the queue, and the second message is a report. Three
messages pass as well, in five minutes.
`CHECK_DEADLOCK FALSE` in `speed`, `creep_claim`, `remote` and `uplink`: pulses, commands,
messages and connections are bounded.

**Fairness.** `WF_vars(Program)`: `Task2` is the only busy task of its core and
every wait in it is a bounded delay or a capture, so it takes its next step.
`SF_vars(Move /\ motor \in Driving)`: a motor that has power turns the wheels, be
it in spells; a car left to coast need not move. And a car on the line whose pin
is found attached again and again does not stay without power for ever: there
`motorForward` is called at every frame, and `RegainsPower` shows what comes of
that. Nothing of the kind is assumed of the call at the end of a stop, nor
anything about pin, light, line or shelves.
`SpeedControl`: a frame ends, the loop on the line calls `motorForward(aim_speed)`
again, and a call returns; no pulse, no stop's end and no NORMAL frame is assumed,
and the call at a stop is made once at most. `RemoteControl`: `Task2`'s loop runs. `Uplink`:
the writer's queue, the sending task and the reader each run; nothing is assumed
of the stack, of congestion or of connections, so `Delivered` speaks of
connections that stay calm.

## 4. What the runs found

- **The pin does not disable the motor while the car leaves a platform.**
  `bupt_car_2.ino:35` calls it a "debug pin, detatch this pin will disable the
  motor". `autoTrack` samples it once, before the capture that finds the
  platform, and then rests, samples the color and creeps on in a loop that never
  looks at it again. `PinDisablesMotor` fails: pull the pin at the platform, let
  the car miss the line, and it creeps on for ever.
- **The car can be left standing at a platform.** `autotrack.h:104-105` says
  "detection ended, move forward, and return to normal tracking mode after a
  valid track has been appeared". Line 107 calls `motorForward` once and the loop
  behind it never again. The integral of the speed PID survives the stop: a car
  that went too fast before it, pushed or downhill, has a sum far below zero, and
  the one call computes a negative power, of which `motorControl` makes none. No
  frame will be NORMAL, as the car does not move, and the car does not move, as
  no frame is NORMAL. `MovesForward` fails so. `LeavesPlatform` and
  `EveryRoundReported` show that in a steady light this, a pin low at the sample
  and a line lost are the only ways not to come away.
- **The loop that leaves a platform can miss a good line.** `autotrack.h:105`
  promises to "return to normal tracking mode after a valid track has been
  appeared". The threshold is the average of the last NORMAL frame, and only a
  NORMAL frame renews it. If it grows bright enough during the stop, the line
  reads no darker than the old threshold and each frame is NO_TRACK (the run's
  trace); if the light falls far enough, white is below the old threshold and
  each frame is "solid dark". Either way no frame will ever be NORMAL again.
  The commented-out condition above `ccd.h:405` would be worse: it keeps the
  first threshold for good, which is the mutant `NeverFaults` rejects.
- **The exposure is not compensated.** `bupt_car_2.ino:172-173`: "we use the
  excecution time of other functions to compensate the ccd explosure time". The
  time to be waited in addition should be the best exposure time less the length
  of the last turn; `substractedExplosureTime` starts at 0 instead, so that it
  is always 0 and a frame after a NORMAL turn is exposed for that turn only,
  however short. `Compensated` fails on the second turn of the loop.

What holds only with an exception says so in the property. The exceptions met:

- A pulse inside a call of `getSpeed` is lost or counted for a window that has
  ended (`SpeedHonest`: the speed is exact up to those).
- The speed PID's integral is never reset: on the line a car that was pushed stays
  without power until as much error has been summed up again (`RegainsPower`).
- `previous_error` is not reset by a stop, so the first frame after it is steered
  with the difference to a frame seconds old. With the gains of `args.h` the old
  frame is worth less than seven pixels (`SteersToTheLine`).
- A channel whose high byte changes between its two reads is off by 256, and a
  failed read makes goods disappear or change their color; it never invents any
  (`ColorTrue`, `EmptyIsEmpty`).
- Commands still in the queue when a phone leaves are executed later, and the
  motors keep the last one. The boost is looked at when a throttle command
  comes, not while it lasts (`FollowsCommands`).
- A phone that is refused takes `SPP_CONNECTED` with it when it goes: if the
  loop has not seen a connection yet, the phone that is still there is not
  obeyed (`Obeyed`). `bluetooth.h:46` says "returns true when the device
  bluetooth is connected".
- After a failed send the bytes stay in the buffer until the car writes again,
  that is, until the next platform; and the rest of a packet already half in the
  buffer is dropped, which tears a line (`Lossless`, `Delivered`, in calm
  connections only).
- A connection that opens between the text and the line end of a message hands
  the reader a line end alone, whose split raises the ValueError that ends it
  (`FileHoldsReports`, `Sound`). A reader that is started again empties the file.

## 5. What is proved

All for any number of platforms, any set of colors, any line, any window and
camera (any set of frames for each surface and light), any behaviour of the
world, and runs of any length; where a theorem asks more of the world (13, 17,
18), its hypothesis says so.

1. `TrackScanProof!ScanCorrect` – the loop of `getTrackMidPixel` returns what
   `GetTrackMidPixel` says, for every frame and threshold. The loop invariant
   `ScanInv` says that `accumulatedDarkPixel` and `trackLeftPixel` describe
   exactly the dark run the loop is in, and that no wide run ended before it;
   the two facts need each other, because a run that ends is compared by its
   count and reported by its left end.
2. `CcdProof` – every frame has an average within the camera's range and a
   middle within the window, so that `ProcessCCD` returns a pixel in -1..128 and
   a threshold the next frame can use.
3. `AutoTrackProof!StreamStep` – in `Patrol`, message *m* of the stream is the
   report of circle *m*/(N+1) when N+1 divides *m*, and an announcement
   otherwise. Inductive only together with `StreamLength`, which ties the length
   of the stream to the number of visits and the message owed: it is what puts
   the next message at the right place.
4. `AutoTrackProof!TypeCorrect`, `PackageCorrect` – the type invariant and
   `PatrolInv`: `location` counts the stops, the lamp is on when the sensor is
   read, and the package holds the last N samples, each in its own slot. The
   last part is inductive because the slots of N consecutive stops differ
   (`RemaindersDiffer`); the lamp is needed because a sample in the dark would
   put `COLOR_EMPTY` into the slot.
5. `AutoTrackProof!Implementation` – each step of the tracking loop is a step of
   `Patrol` or leaves it where it is: `SampleColor` is a `Visit`, `Announce` and
   `Report` are the two sends, and the report's package is the circle's goods
   because of `PatrolInv` (`PackageIsRound`). With 3, `StreamCorrect`.
6. `AutoTrackProof!FaultFinal` – the blinking loop is left by nothing and the
   car in it is braked. `SteeringCorrect` – a line more than six pixels off the
   middle is steered towards, whatever error is remembered: by `SteerSide`, as
   the type invariant bounds that error, and the tenth of it that the new error
   is set against is at most 6.5 pixels.
7. `ExposureProof!SearchCorrect` – the record chosen is the first valid one of
   least contrast, and there is one as soon as one record is valid. Inductive
   with `RecordsRight` (what a record holds, and that a valid one has a contrast
   below 1) and `Phases` (all records are taken before the first is compared).
   That a frame with a track has a contrast below 1 is `TrackHasContrast` of
   `CcdProof`; that the least survives needs the order of fractions to be
   transitive.
8. `ExposureProof!TrackingRecord` – the tracking loop runs on a record that was
   tested and valid: by `SearchCorrect` and the mode choice.
9. `ExposureProof!ExposureFresh` – no frame is judged that was exposed across one
   of the long delays. Its invariant `FreshInv` says, place by place, when the
   last start pulse was; on the first turn it is old, and only `prevTimeMs = -1`
   keeps the frame from being read as it is.
10. `SpeedControlProof` – `SpeedCorrect`, `MotorCorrect`, `TypeCorrect`, for any
    clock, any frames and stops shorter than the clock, and any pulses. `ClockInv`: `millis` is `lastTime + elapsed`, or
    that less `ClockSize` once. `PulseInv`: between two calls `rotateCount` holds
    all that has turned since the last one returned; inside a call it holds the
    pulses from the return of the call before up to now. The lemma `Wrap`
    turns the first into the time `getSpeed` computes; the second
    bounds what the read and the reset can miss.
11. `UplinkProof!LinkInOrder` – no byte reaches the peer twice or out of order,
    for any queue, buffer and packets, although the callback resets the length
    under the task's hands. The invariant orders the bytes along their way:
    received, in the buffer up to `Filled`, in the packet being copied, in the
    queue, in `write`; each older than all behind it. `Filled` counts what is
    copied before the length is stored, and `LenInv` says that the race can only
    make the stored length too small, so that bytes are forgotten and never
    repeated. Most steps only drop from this chain (`Dropping`); `Copying` and
    `HandOverInv` carry a piece of it one place further.
12. `UplinkProof!UplinkRefinesLink`, `UplinkInOrder` – car, link and reader
    together are an instance of the link: the car's packets fit the buffer and
    the reader changes nothing of it. So 11 holds of the whole.
13. `AutoTrackProof!StopsInOrder`, `TrackingNeverFaults` – every stop is at the
    platform its slot stands for, and the car never ends in the blinking loop.
    Hypotheses: `WellLaid` (the platforms lie one behind the other, each with
    two cells of line before it), `WellLit` (a threshold from a line no more than
    `MaxDrift` levels away tells line from platform) and no derailment. The
    invariant `OrderInv` follows the last cell the program looked at: as many
    platforms have begun up to it as were visited, whatever the car has covered
    since. `Known` says that the threshold comes from a line `drift` levels
    away at most, `Fresh` that it is still 0 and the car on the two cells of
    line it starts on. Two cells of line before each platform are needed because
    after a stop the program waits for a NORMAL frame, and by the time it gets
    one the car may be a cell further.
14. `UplinkProof!LinkLossless`, `UplinkLossless` – in a calm connection (it opened
    on an idle link, and nothing was refused or timed out since), what was
    received, is in the buffer, in the task's hands and in the queue is all that
    was written, without a gap. `CalmInv` says why the race of the task with the
    callback has only one outcome in a calm link: the length the task adds to is
    the one it read. `AllThere` splits `Lossless` into `HandedOver`, `Buffered`
    and `Waiting`, and each step moves bytes from one part to the next.
15. `UplinkProof!FileCorrect` – the goods in the reader's file are the reports
    among the lines read, in order and each once, in a calm connection that
    opened between two messages. `FileInv` is about the lines up to `LastLine`,
    the last byte consumed: with 14, what was received is one unbroken stretch
    of the stream, so `readline` ends where a message does and no line is torn.
16. `RemoteControlProof` – `CommandsFollowed` (the motors do what the last
    executed power command asks, boosted if a boost command before it says so;
    by `QueueInv` the queue is the unread rest of what came while there was room,
    because the callback's loop takes just that, `TakenInTime`, and by
    `CarInv` each output is what the last command of its kind makes of it),
    `LinkCorrect` (by `FlagInv` each flag stands for a live link, and that of a
    refused phone for a second one) and `SteeringCorrect` (by `CarInv`, and
    because `ServoDuty` is monotonic through both of its scales and bounds,
    `SteeringMonotone`).
17. `ColorSensorProof!ColorsTold` – for each goods the light tells apart
    (`TellsApart`), `parseColor` names it, though every byte may come from
    another conversion. A channel neither torn nor failed is a value the sensor
    reports with these goods (`ChannelInv`): a high byte read
    first and a low byte read later make such a value unless the high byte
    changed between.
18. `ColorSensorProof!NothingInvented` – without goods nothing is seen, failed
    reads included (`Steady`: no channel of the empty place comes 40 above
    another reading of it): a failed byte can only make a channel darker.

Assumed: `WindowAssumption` (a non-empty window, a minimal width of at least
one, readings up to 10^6, the value `parseLinearVals` starts its minimum with),
`WorldAssumption` (at least one platform, red and empty among the colors, a
line whose cells are each free or belong to a platform, frames of the right
type), `ExposureAssumption` (1 to 255 exposure times, as the loops over
them count in a `uint8_t`; delays and turns that take time), `SpeedAssumption`
(frames and stops shorter than the clock),
`LinkAssumption` and `UplinkAssumption` (a queue, a buffer of at least two bytes,
texts that fit it), `RemoteAssumption` and `ColorAssumption`. TLC evaluates each
of them in the runs of the module that states it. It also evaluates the
hypotheses of 13, 17 and 18 on the instances of `MCAutoTrack` and
`MCColorSensor`: they hold there, and `WellLit` no longer where the light drifts
by two levels between frames.

The circle arithmetic of 3, 5 and 13 is at the head of `AutoTrackProof`, the
elementary facts about division in `CcdProof`. `UplinkProof` and
`SpeedControlProof` state the few they need themselves, so that neither depends
on the camera.

Only model-checked: liveness (`LeavesPlatform`, `EveryRoundReported`,
`LostLineFaults`, `RegainsPower`, `Obeyed`, `Delivered`), which is beyond the
prover. The claims that the code does not keep (section 4) are refuted by TLC,
and nothing is proved about them. What the operators on data compute is proved
where an invariant needs it (`ScanCorrect`, `TrackHasContrast`,
`SteeringMonotone`), without induction over sequences.

## 6. What is not modelled

- Display and serial console: written only, never read back.
- The lengths of delays, outside `Exposure`. They matter in one way, that the
  world changes during them, and it may in the model.
- That `Task2` exposes a frame of `AutoTrack` for the time `Exposure` finds:
  the two modules are not composed, as `AutoTrack`'s frames are any of a set and
  nothing in it depends on how long they were exposed.
- `Task1` (its body is commented out), the debug printouts, the pin numbers, the
  order of the initializations in `setup`, functions nothing calls
  (`resetSpeedCount`, `testColor`).
- In the uplink: the ids, names and letters of the goods; packets longer than
  the buffer (none of the program's is).
- Of BluetoothSerial: pairing, discovery, the master's side.
- A start of the tracking mode on a platform: `AutoTrack` begins on the line,
  where `prepareCCD` has just seen a track.
- The other vendored libraries under `src/lib` (the whole of arduino-esp32, two
  display drivers). They are more than nine tenths of the repository's lines;
  hardly any of them is reached by the sketch, which has about 1500 lines of its
  own. The share of the repository the definitions stand for is small for that
  reason; nearly all of the sketch and of the PC program is modelled.

## 7. Plan

Done: all of the modules above, and the proofs of every safety and action
property of the passing runs. What is left:

1. A second peer in `SppLink`, as `RemoteControl` has it.
2. A start of `AutoTrack` on a platform, and what `StopsInOrder` needs then.
3. `Exposure` composed with `AutoTrack`: `WellLit` from the record the search
   chooses, in place of a hypothesis.
