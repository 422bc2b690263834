# Verification of the EPHSX601 experiment controller

EPHSX601 is an experiment on reaching and moving: twelve boxes, each with a
coloured lamp and a battery-powered sensor board, a receiver that lights the
lamps and listens to the sensors, and a computer that sets an experiment up and
records it. In a trial the receiver lights one box blue, waits until a box is
moved or a time is over, answers with green or red, and goes on to the next
trial; while it does, it streams samples of what was moved to the computer.

This directory holds TLA+ modules of that program, configurations that
model-check them with TLC, and theorems about them checked by TLAPS. Line
numbers refer to `src/Reciver/Reciver.ino` ("R"), `src/Sender/Sender.ino` ("S"),
`src/libraries/arduino-timer/src/arduino-timer.h` ("T"),
`src/libraries/Adafruit_AW9523/Adafruit_AW9523.cpp` ("A") and
`src/libraries/Adafruit_MPU6050/Adafruit_MPU6050.cpp` ("M").

## 1. The system

### Components

| component | code | state it keeps | operations |
|---|---|---|---|
| set-up and sensor test | R 94-109, 632-688 | radio up, expanders found, loop variable | `SystemSetup`, `RGB_test`, `sensor_test` |
| main loop and commands | R 111-124, 364-560 | `_state`, number of trials, sequence, timeout, separation, sample rate | `loop`, `DoCommand` and one handler per command |
| trials | R 700-817 | current trial and object, locals of `TestSequence`, lamps | `TestSequence`, `MoveMe*`, `setBoardColor`, `RGB_reset` |
| stream task | R 130-144 | slots of the timer | `TimerEvent_WriteSTREAM` |
| radio callback | R 587-630 | `boardsStruct` | `OnDataRecv` |
| packet framing | R 279-319 | receive buffer, place in `ReadCommand` | `ReadCommand` |
| packet codec | R 212-276, 306-358 | none | `WritePacket`, `IntToHexString`, `HexStringToInt` |
| sensor board | S 84-176 | id, `previousMovingState` | `setup`, `loop` |
| calibration | S 190-235, 153-161 | averages, `Theshold` | `calibration`, threshold test |
| timer library | T | slots: handler, start, expires, repeat | `in`, `at`, `every`, `cancel`, `tick` |
| LED expander driver | Adafruit_AW9523, Adafruit_BusIO | output, direction, mode and control registers | `begin`, `pinMode`, `digitalWrite` |
| accelerometer driver | Adafruit_MPU6050, Adafruit_BusIO | sleep, reset and self-test bits | `begin`, `reset`, `setAccelerometerRange`, `getEvent` |

`getMAC.ino` prints an address; `BN055.ino` is empty; the other libraries under
`src/libraries` (asynchronous TCP and web server, displays, other sensors) are
called by neither sketch.

### How they interact

    sensor board --ESP-NOW--> OnDataRecv --boardsStruct--> sensor_test, TestSequence
    computer --serial--> ReadCommand --> DoCommand --> parameters, _state, timer.every
    loop, TestSequence --tick--> timer --> TimerEvent_WriteSTREAM --serial--> computer
    TestSequence --> setBoardColor, RGB_reset --I2C--> LED expanders
    accelerometer --I2C--> getEvent --> calibration, threshold test --> ESP-NOW

The receiver is one thread. The radio callback runs between its steps and
shares `boardsStruct` with it, and nothing else. The computer only acts by
packets, which are read in `loop()` alone: not during set-up, not during a
sequence of trials.

### What is hard, and what makes each part correct

- *Trials.* The scan of the boards is not atomic: boards change while it runs.
  A verdict must be about a board that moved in this trial, a board that moves
  throughout must not be overlooked, the lamps must tell the trial, and the
  trials must end, since nothing else is obeyed until they do.
- *Commands.* Any command can come at any time between two sequences. No index
  may leave its array, a command without an answer must have changed nothing,
  and a new experiment must not inherit from the one before.
- *Stream task.* Tasks are added by a command, and run late, from inside the
  trials. Samples must fit the trial they are labelled with.
- *Sensor link.* A change is sent once. The receiver must know the state of
  each board whose last change was not lost, through restarts of either side.
- *Calibration.* Whatever the noise, rest must not look like a motion nor hide
  a pull.
- *Framing and codec.* After a loss the receiver must find the packets again,
  accept nothing that was not sent, and read each number as it was written.
- *Timer.* The clock wraps; `tick()` comes late and takes time; slots are reused.
- *LED expanders.* A pin is written by reading a register, changing a bit and
  writing it back, and nobody looks whether either transfer worked; a read that
  fails returns ones. A lamp must not show what nobody asked for longer than
  until the next reset, and failures on one port must not reach another's lamps.
- *Accelerometer.* The same, and the chip resets itself in its own time. What
  failed during set-up must not look like a motion afterwards.
- *The whole.* A frame may be lost, late or from before a restart, and flags have
  no age. A verdict can only be as good as what the receiver knows.

`PROJECT.json` lists the hazards with the line where each bites and the
properties that would show it.

## 2. The modules

### Experiment: the receiver

`pc` is the place the sketch has reached, and a step leads from one place to the
next with at most one access to `boards` (the `isMoving` fields of
`boardsStruct`), so that `OnDataRecv` can come between any two of them.

| places | code |
|---|---|
| `setup`, `expanders`, `stuck`, `sensorTest`, `sensorSeen` | `SystemSetup` (R 632-658); `stuck` is the endless loop of 644-646; radio failure goes straight to `loop` (638) |
| `loop`, `read`, `mode` | head of `loop()`, inside `ReadCommand`, the test of `_state` (115-120) |
| `sequence` | the test of `while` (702) |
| `wait`, `others`, `tick` | head of the wait loop (710), board `j` of the scan (718), `timer.tick()` (731) |
| `feedback`, `flash`, `dark`, `shown` | the feedback (734-742) and its flashes, before `RGB_reset` (743) |
| `undefined` | an index has left its array (473, 712); the model stops there |

Each command handler is an action; `DoCommand` is its composition with the
guard on the host. `CarefulHost` chooses between a computer that sends any of
`Commands` at any time and one that sets all parameters before it starts, stops
before it changes one, and names trials and objects that exist. What the sketch
writes to the computer is `out`, for one step.

The state is that of the source under the names of the source; `trialSequence`
counts from 1. Abstractions:

- A slot of the timer holds the kind of its task in place of its time: periodic,
  once (an interval of 0, when the rate is above 1000 Hz), never (no rate) or
  free. A periodic task may be due at any tick. `Timer` has the time.
- The timeout may elapse at any moment of the wait. Only whether it outlasts
  the time from 704 to the first test at 710 (`LightMs`) is kept: if not, it may
  have elapsed before the first look; if so, at least one look is taken.
- `MoveMe` and `setBoardColor` are one step. Without the radio, set-up has
  returned before the expanders were begun, and no lamp lights.
- `RGB_test` leaves the lamps dark and is part of `BeginExpanders`.
- Delays are left out; they only let time pass.

`seen`, `steady` and `outcome` are history variables: they are written for the
properties and read by nothing else.

### TrialProtocol: what a trial promises

The abstract specification, without sketch, timer or scan: a trial cues one
object, comes to one verdict about a board that is moving at that moment, shows
it on the lamp of the cued object and ends dark; trials count from 1; start and
stop take place between trials. `Experiment` implements it under the refinement
mapping at its end (`TP == INSTANCE TrialProtocol WITH ...`).

### MotionLink: sensor boards, radio, receiver

Several senders, each with the places of its `setup()` and `loop()`, a queue of
frames in the air, the receiver's `boardsStruct`, and restarts of both sides.
`Send` and `GiveUp` model ESP-NOW from how the sketch uses it: a frame may be
refused at once or given up later, and frames of one sender keep their order.
A sender whose radio failed runs `loop()` all the same and sends nothing.
`newest` is a history variable: whether the last change of a board is
sent, lost, or none was made since it restarted.

### System: receiver, radio and sensor boards together

`System` composes `Experiment` with `MotionLink`: they share `boardsStruct`, and
the receiver listens when its radio is up. The free environment of `Experiment`
(any board may report anything) is replaced by the frames that sensor boards have
sent. `Remember` keeps two history variables through the wait of a trial:
`suspects`, the boards that moved since the cue or about which the receiver may
have been wrong when it lit, and `held`, those known to be in motion ever since.

### Calibration and Accelerometer: a sensor board with its chip

`calibration()` takes `numSamples` readings, averages them, and sets the
threshold from one more reading; `loop()` compares. A reading is an integer on
one axis in place of three floating-point numbers; distances are multiplied by
`numSamples`, so the average is exact.

`Accelerometer` puts the driver and the chip under it. `place` follows `begin()`
(M 77-105), `_init()` (M 115-141), `reset()` (M 156-177) and the second setting of
the range by the sketch; each transfer may fail. The readings `Calibration`
takes are now what `getEvent()` returns: the true acceleration, 0 from a chip
asleep, with the bias of the self-test if a failed read-modify-write has turned it
on, eight times too large if the range could not be read, or what the stack held
if the data could not. A read of the reset bit that fails polls again (M 158). `good` says that the last reading was transferred,
`honest` that all those of the calibration were, and taken at rest.
`Accelerometer` implements `Calibration` (its readings are `Readings`).

### Lamps: the LED expanders

Every `digitalWrite` of `setBoardColor` (R 803-817) and `RGB_reset` (R 690-698), and every
`pinMode` of the set-up, as a read-modify-write of a port whose read or write may
fail, over the four registers on which light depends. A register is the set of
pins whose bit is 1. `Experiment` takes each call as one step and says that two
lamps are never lit; `Lamps` starts from that and shows what the pins make of it.
`stale`, `failed` and `lame` are history: the ports of which a transfer failed
before the last whole reset, since then, and in set-up.

### Framing and HexCodec: packets

`Framing` models `ReadCommand` from byte to packet. A byte is its position in
what the computer sends, so that the model can tell which packet an accepted
character is from; the sketch only sees whether it is an STX or ETX. The call of
`ReadCommand` by itself (318) is in tail position and is the step back to
`hunt`. `PacketIn` is the wait for a full packet, apart from what is then done with it.
`HexCodec` models what the characters mean: `sprintf("%X")`, the number of digits, the
right-aligned field of four, and `strtoul`. A hexadecimal character is its value, and the
data is an `int`, of which a negative one is a `uint` of eight digits (R 226, 337).
Two things in `IntToHexString` depend on the build and are parameters.

- `Misjudged`: the powers of 16 for which `log(n)/log(16)` (R 349) comes out below the
  exponent, so that the size is one too small. With a `double` of 53 bits no other
  number can be misjudged: 16^k - 1 is further from the whole quotient than the rounding,
  up to 32 bits. The properties hold for any set of misjudged powers and say what becomes
  of one: the last digit, a zero, is lost, and it is read as a sixteenth.
- `Spare`: how many bytes the allocator may add to `new char[size]` (R 353), where `sprintf`
  writes one more than `size`. If there is none, the NUL is written behind the array; `heap`
  is then `spoilt`, or the board has `reset`. The comment at R 354 ("RESETS EVERYTHING WHEN
  TRYING TO CONVERT 12 TO C") is one such reset; in the model it may happen at 12 and
  at every other conversion that overruns, and nothing is then written. The properties are
  about a board that goes on. That such a board reads its digits correctly rests on one
  assumption: what lies behind an array is the allocator's, not another array's digits.

### Timer: the library

One action per public operation; `tick()` is a step for each slot, between which
the clock may advance, since it reads the clock anew for each (T 125). The clock
has `Wrap` values and differences are taken modulo `Wrap`. `age` and `owed` are
history variables: the true age of each task, and what a call of `tick()` owes.

`Alarms` is the abstract specification: alarms that wait for their delay, ring, and
start again if they repeat and their handler wants it; there is no clock to read, no
order of slots and no `tick()`. `Timer` implements it with `Alarm(s)`, which
has the true age of a task in the place of its start (`Promise == INSTANCE Alarms ...`).
A wrap of the clock may make a task late, which `Alarms` allows and `NeverMissed`
limits, but never early, nor another task's.

### MC modules, cfg files, slips

`MCExperiment`, `MCMotionLink`, `MCSystem`, `MCAccelerometer`, `MCLamps` and
`MCHexCodec` hold the sets the configurations assign to constants. A definition marked "Slip" is not part
of the model: it is the definition below it with a plausible mistake, and the
property named for it in `PROJECT.json` is violated when it takes its place.

## 3. What is checked

| run | instance | states | shows |
|---|---|---|---|
| careful | 2 objects, a third board with lamp and sensor, 5 boards, 2 slots, careful host, timeouts 5 and 5000 | 186 000 | `InBounds`, `ReportedUnlessLast`, `SteadyIsSeen`, `LampsFollowTrial`, `TrialsAdvance`, `ImplementsProtocol`, `TrialsFinish`, `SetupCompletes` |
| free | the same boards, 1 slot, any command at any time, in range or not | 1.9 million | `TypeOK`, `TrialInSequence`, `SampleShowsLastOutcome`, `StreamTaskStays`, `SilenceMeansRefused` |
| link | one board with an id, two that share id 0, 2 frames in flight | 126 000 | `Agreement`, `ChangesArrive` |
| system | one trial of 2 objects, a sensor board each, one frame of each in flight, a clock that may stand still | 231 000 | `VerdictsAreMotions`, `HeldIsAnswered`, `MotionEndsTrial` |
| sensor_board | 2 samples, margin 3, rest from 9 to 11, pulls to both sides, any failing transfers | 169 000 | `BoardTypeOK`, `TrueRestIsQuiet`, `TruePullIsHeard`, `QuietAtRest`, `PullIsSeen`, `SetupEnds` |
| lamps | the 3 expanders, 12 lamps and 36 pins of the receiver, lit at power-up, one failing transfer | 771 000 | `LampsTrue` |
| framing | 5 packets of 2 characters, buffer of 9, 3 bytes lost | 180 000 | `OnlyPacketsSent`, `LossIsBounded`, `NothingSkipped`, `NeverWaitsInVain`, `AllAccepted` |
| codec | all commands, ids and data on both sides of each limit, negative data, 3 misjudged powers of 16, 0, 1 or 3 spare bytes | 24 000 | `ReadsBack`, `RefusedExactly` |
| timer | 2 slots, a clock of 6 values, delays 0, 2, 5 | 121 000 | `NeverEarly`, `NeverMissed`, `TickRunsAllDue`, `DeadlinesKept`, `ImplementsAlarms` |

### Why the bounds are enough

- *Experiment.* Two objects are the fewest for which the commanded one is first
  or last in the scan (the last is special: R 720-728), and the third board is
  what `sensor_test` waits for beyond `NOBJECTS`, as in the code (12 and 11).
  Board 0 is where a sender without an id reports. Two trials give a predecessor
  whose outcome can linger. One slot lets the timer run full at the second
  start, two let tasks pile up. Five milliseconds is below `LightMs` and 5000
  above; the value itself is not used. Two flashes have a first and a last.
- *MotionLink.* Two frames in flight let a newer change overtake none and
  supersede one, and the queue run full. The boards that share an id are there
  to disturb the one that does not.
- *System.* One trial, since the history starts anew at each cue; every trial of
  `careful` is like it. The commanded object and one other, each with its own
  board, which may restart, fail to start, and lose or delay its frames.
- *Accelerometer.* The true accelerations are the ends of rest and a pull to
  each side; with the self-test, the misread range and garbage there are
  readings at, inside and outside each limit. Two samples let one be
  spoilt and one not. The number of failures is not bounded.
- *Lamps.* The wiring is the one of the code (R 571-585), in which lamps share
  a port and some span both of an expander. One failure is enough for each kind and
  place; the theorem is for any number.
- *Framing.* `MaxLost` is `DIGITS + 1`: with one more byte lost, the end of a packet and
  the beginning of the next can vanish and the rest be accepted as one packet; the
  properties say so. Overflow also loses bytes and is not bounded by it; the buffer holds
  two packets and a byte, so that it overflows in the middle of a packet.
  Three characters and four lost bytes were also checked, with the same result.
- *HexCodec.* The data are the numbers on both sides of each change of length, of the
  largest a packet has room for, and the ends of an `int`; of the misjudged powers one has
a place in a packet anyway (4096), one only because it is misjudged (65536) and one not
even so (1048576). The theorem is for all.
- *Timer.* The delays are none, some, and all but one of the clock's values; a
  task may get older than a whole revolution (`MaxAge`), which is where
  "not missed" ends.

`careful`, `link` and `timer` check deadlock; the other passing runs do not, since
there the system really may stop: a model stops where the program leaves its memory (`free`), has
sent and read everything (`framing`, `codec`), or is in the endless loop for a
missing part (`lamps`, `sensor_board`, `system`).

### Fairness

- *Experiment.* `Setup \/ Loop \/ TestSequence` is weakly fair: the sketch is one
  thread that nothing preempts for good. `DoCommand` is not: `ReadCommand` blocks
  until a packet comes, and none need come. `TimeoutElapses` is weakly fair: the
  clock advances. `SetupCompletes` adds its own premise, that each sensor board
  that is switched on is moved again and again and the test, which looks each
  millisecond, meets it.
- *MotionLink.* `OnDataRecv(s) \/ GiveUp(s)` is weakly fair: ESP-NOW repeats a
  frame a bounded number of times, then reports failure. Which of them happens
  is left open.
- *System.* `Runs` is fair for the same reason, and each sender's
  `Arrives \/ GivesUp` as in `MotionLink`. The clock is not fair: `MotionEndsTrial` says that
  a motion ends a trial even if no timeout ever does, which is the code's
  behaviour without TIMEOUT (R 710 compares with 4294967295).
- *Accelerometer.* `Begin` is fair: the sketch runs. A failed read of the reset bit
  changes nothing and is polled again without a limit (M 158), so this fairness also
  assumes that some later read succeeds; without it set-up need not end. `ResetDone` is fair: the chip completes its reset.
- *Framing.* The computer sends what it has, and the sketch does not stop; that
  the trials end is `TrialsFinish`.
- *HexCodec, Timer, Lamps.* No liveness is claimed.

### Where the code departs from what it says

Each of these runs is expected to be violated, and its counterexample is the
behaviour described.

| run | property | finding |
|---|---|---|
| stream_tasks | `OneStreamTask` | Each start adds a stream task, no stop removes it (R 547), and the handler's stop branch (135-137) is never reached, so samples are written once more after every restart. |
| stale_report | `ReportedObjectMoved` | A trial of the last object that times out reports the object of the trial before it (R 720, 726). |
| eleven_objects | `SetupCompletes` | `sensor_test` waits for twelve boards, with eleven objects (R 65, 678). |

What the careful run shows instead of `ReportedObjectMoved` is
`ReportedUnlessLast`, which names the two cases in which the report may be stale.

## 4. What is proved

All theorems hold for every value of the constants that satisfies the module's
assumption: any number of boards, objects, slots, senders, samples, any width
of the clock. `CarefulHost` is an assumption of `CarefulHostStaysInBounds` and of the
refinements of `TrialProtocol`, and of no other theorem.

*Experiment* (`ExperimentProofs`). `Basic` is inductive: `TypeOK`,
`TrialInSequence` (a trial runs in mode STREAM and has a number of the sequence, never the
one behind its end that R 745 leaves), that mode STREAM has a trial number (`StreamHasTrial`), that a
trial that runs is one of the sequence (`TrialExists`) and that the scan is at
an object. `TypeOK` alone is not inductive: `currentTrial + 1` stays in its type
because the trial exists, which in turn holds because no command is obeyed
inside `TestSequence`. On top of `Basic`:

| theorem | property | what has to be added |
|---|---|---|
| `TypeCorrect`, `TrialsRunInSequence` | `TypeOK`, `TrialInSequence` | - |
| `StreamTasksStay` | `StreamTaskStays` | `tick` runs in mode STREAM only, where `KeepTimerActive` holds |
| `CarefulHostStaysInBounds` | `InBounds` | `Assigned`: in mode STREAM every trial has an object |
| `SamplesLag` | `SampleShowsLastOutcome` | `ReportLags`: outside a verdict the reported object is that of the last trial or none |
| `ReportsAreOfTheTrial` | `ReportedUnlessLast` | behind the scan the report is reset, unless the commanded object is the last |
| `SteadyBoardsAreSeen` | `SteadyIsSeen` | what the scan has passed was at rest at some time since the cue |
| `LampsTellTheTrial` | `LampsFollowTrial` | the lamps of each place |
| `SilentCommandsAreRefused` | `SilenceMeansRefused` | what fits a packet is answered (`FittingIsWritten`); the object of a trial need not fit, and is the one exception (`StoredUnanswered`) |
| `TrialsComeNearerTheirEnd` | `TrialsAdvance` | the flash that is shown is one of `FLASHES` (`FlashCounted`) |
| `SilentBoardKeepsSetup` | - | a board that sends nothing is never flagged (`SilentUnflagged`), and the test stops at its lamp (`TestStopsAt`) |
| `ExperimentImplementsProtocol` | `ImplementsProtocol` | the above, and that each object has a lamp (`NOBJECTS <= NLAMPS`) |

The refinement is proved with one lemma per group of steps: initial states map to
initial states, and each step to a step of the protocol or a stutter.

`TrialsAdvance` is the part of `TrialsFinish` that is safety. `StepsLeft` measures how
far the sketch is from the end of the trial; every step of `TestSequence` ends the
sequence, ends the trial, or lowers the measure, except for the pass of the wait loop
that is taken before the timeout, and what the radio and the clock do in between
raises nothing. With the fairness above and a trial that comes to a verdict or a
timeout this is why the trials end; only that last argument is left to TLC.

`SilentBoardKeepsSetup` says of any number of lamps and boards what the run
`eleven_objects` shows of three and two: one lamp whose board sends nothing is enough.

*MotionLink* (`MotionLinkProofs`). `ReceiverAgrees`: `Agreement` is inductive
with `Pending`, that the newest frame on its way carries the state its sender
remembers; the lemmas about appending and taking a frame stand before it.

*System* (`SystemProofs`). `SystemIsExperiment` and `SystemIsLink`: every step of the
whole is one of each part or a stutter, so that what is proved of the parts holds
of the whole; `SystemAgrees` carries `Agreement` over. With it `Known` says what a
flag is worth. `Watched` is inductive over it: while a trial waits, a flagged board
is a suspect (`FlaggedAreSuspects`), a frame of motion on its way is of a suspect
(`FramesAreSuspect`), and a board that is held is one the scan may not overlook
(`HeldAreSteady`, which joins the history of `System` to that of `Experiment`).
`OnlyMotionsAreJudged` and `HeldBoardsAreAnswered` follow, the second with
`SteadyIsSeen`. `SystemImplementsProtocol` is `ExperimentImplementsProtocol` of the whole.

*Framing* (`FramingProofs`). The difficulty is that nothing in the state says which
byte was read last, since it is gone. `Kept` says there is one: a place `c` such
that the buffer holds bytes after `c` in order (`Ordered`), and the number
`Missing(c)` of those lost before it, which follows from `lost`, `sent` and the length
of the buffer, is not negative. As long as less than a packet is lost, what has been accepted are
packets that end at `c` or before it (`AcceptedBelow`), and of the packets that have
begun at most two per missing byte were not (`Between`, `InPacket`). The proof rests
on arithmetic with quotients: an STX and an ETX as far apart as a packet are of the
same packet unless a whole packet's worth is missing (`WholePacket`). From it
`OnlyPacketsAreAccepted` and `LossCostsTwo`, for any length of a packet and any buffer.

Where nothing is lost, `Missing(c)` is 0 and no more packets have begun than are
accepted. Their numbers grow by one at least from each to the next (`NumbersGrow`), and
the last is no larger than how many there are, so they are all of them (`NumbersAreAll`):
`WithoutLossNothingIsSkipped`. Then what has been read is a number of whole packets,
and perhaps an STX; a receiver that waits when all is sent has read all of it, since what
is missing is less than a packet (`WaitsAreNotInVain`). This is the part of `AllAccepted`
that is safety. `NumbersGrow` needs an induction, which is done as a descent:
`LeastElement`, that a set of natural numbers has a least one, comes from the library's
theorem on well-founded relations.

*HexCodec* (`HexCodecProofs`). `Hex` and `HexStringToInt` are recursive functions. What
such a function is equal to has to be earned: `CHOOSE` gives one that satisfies the
equation if there is one, so one is exhibited. For `Hex` eight steps of `Longer` reach every
`uint`, since eight digits have room for 32 bits (`HexIsDefined`); for `strtoul` the
field has four characters at most (`FourDigits`). `LengthIsWritten` says that `sprintf`
writes as many digits as the powers of 16 say, and `MisjudgedIs` that a misjudged power is a
one with zeros behind it; so the digits that `hs.size` takes are those of `AsWritten` (`IntToHexStringIsHex`). Then the digits of a number are determined (`DigitsAre`), the
field that is filled up with zeros reads as the number (`DataFieldReads`), and a line reads as its
three parts (`LineReads`). `Coded` is inductive; `PacketIsReadBack` and
`RefusalIsExact` follow, for every command, id, `int`, allocator and set of misjudged powers.

*Lamps* (`LampsProofs`). `IInv`: the sketch has told each pin what the panel says as
far as the call has come (`ToldPanel`), a register holds what it was told wherever no
transfer has failed (`Held`), and directions and drivers are set wherever set-up has
not failed (`Settled`). `LampsShowWhatTheyWereTold` follows, for any wiring in which no
two lamps share a pin, and any number of failures.

*Calibration* (`AccelerometerProofs`, first part). `Learned` is inductive: as long as all
readings were of rest, the sum lies between `i * Low` and `i * High`, so the
average lies within rest and the threshold between the margin and the margin plus
the range. `CalmBoardIsQuiet` and `StrongPullIsSeen` follow by arithmetic, given
that the margin is at least the range of rest (part of the assumption).

*Accelerometer* (`AccelerometerProofs`). `BoardIsCalibration` is the refinement; with it
`CalmBoardIsQuiet` and `StrongPullIsSeen` hold of the values the driver returns. For
the true accelerations `BoardLearned` is inductive: before the board is ready nothing
has been read, afterwards the chip does not change (`ChipSettled`: no reset is still to
come, and a chip that was woken is awake), so an honest calibration lies between what
the chip returns at the two ends of rest (`HonestLearned`), asleep, biased or neither.
`RestIsQuiet` and `PullIsHeard` follow. `BoardTyped` needs that an attempt is left
while the chip is looked for (`TriesLeft`).

*Timer* (`TimerProofs`). `ClockIsRight`: the clock shows a task's age up to one
revolution and never more. `TimerIsPunctual` and `TimerMissesNone` follow; `TickIsComplete` adds
`OwedAhead`, that what is owed behind the slot visited was hidden by a wrap;
`DeadlinesAreKept` is an action property.
`TimerKeepsPromise` is the refinement: what is added is an alarm set (`AddSets`), what is
cancelled one stopped (`CancelStops`), a run one that rings and waits anew or ends
(`FireRings`, which needs `NeverEarly`: a task that is due by the clock is due by its
age), the clock lets all wait longer (`AllGrowOlder`), and the walk of `tick()`
from slot to slot is a stutter.

### Only model-checked

Every invariant and action property of a passing run is a theorem. What the prover does
not reach is liveness: `TrialsFinish`, `SetupCompletes`, `ChangesArrive`,
`MotionEndsTrial`, `SetupEnds` and `AllAccepted` are checked by TLC. Of the first and the
last the part that is safety is proved (`TrialsAdvance`, `NeverWaitsInVain`).

## 5. What is not modelled

- The vendored libraries that neither sketch calls (web server, asynchronous TCP,
  graphics and display drivers, other sensors). They are by far the most of the
  repository's lines, and no behaviour of the program depends on them; a model of
  them would say nothing about it. This is why only a small share of all lines under
  `src/` is modelled, while of the two sketches and the timer nearly all is.
- Of the drivers that are called: inputs, interrupts and dimming of the expander;
  sample rate, filter, gyroscope, temperature, motion interrupts and cycle mode of
  the accelerometer; their SPI variants; the bytes of a transfer (Adafruit_BusIO),
  which either arrives or does not.
- Two of the three axes, which `calibration()` treats alike.
- Memory: NTRIALS may exhaust the heap, and `ReadCommand` the stack. The byte `sprintf`
  writes behind its array (R 353-354) is in `HexCodec` and not in `Experiment`, whose
  packets are written without a reset.
- Floating point: the averages of the calibration are taken as exact.
- The scheduling of the SDK: whether callbacks and watchdog are served in the
  wait loop.
- `Printer`, `CheckifChosenCorectly`, and the vendored libraries that are not called.

## 6. Plan

Done, in this order: `Experiment` with `TrialProtocol`, `MotionLink`, `Calibration`,
`Framing`, `HexCodec`, `Timer` with `Alarms`, `Lamps`, `System`, `Accelerometer`, and
theorems for every safety property.

What would come next:

1. `Framing` composed with the commands of `Experiment` on a small command set, so that
   a start that is lost or cut is seen by the whole system.
2. `Lamps` under `Experiment`, so that a trial is seen from the lamps a participant sees.
   Both parts are checked and proved against the same statement (`LampsFollowTrial`).
3. All three axes and floating-point readings in `Calibration`.
