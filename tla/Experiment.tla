------------------------------ MODULE Experiment ------------------------------
(***************************************************************************)
(* The control of the receiver, src/Reciver/Reciver.ino: setup(), loop(),  *)
(* the commands of the computer, the stream task of the timer and the      *)
(* trials of TestSequence(), interleaved with the radio callback           *)
(* OnDataRecv() of the sensor boards.                                      *)
(*                                                                         *)
(* pc is the place the sketch has reached. A step runs from one place to   *)
(* the next and makes at most one access to boards, the only state the     *)
(* radio callback shares with the sketch.                                  *)
(*                                                                         *)
(* A definition marked "Slip" is not part of the model: it is the one      *)
(* below it with a plausible mistake, which some property must notice.     *)
(***************************************************************************)
EXTENDS Integers, FiniteSets

CONSTANTS
    NOBJECTS,        \* boards 1..NOBJECTS are the objects of the experiment
    NLAMPS,          \* boards 1..NLAMPS have a lamp; sensor_test awaits them
    NBOARDS,         \* length of boardsStruct: indices 0..NBOARDS-1
    TIMER_MAX_TASKS, \* slots of the timer
    FLASHES,         \* red flashes after a wrong move
    LightMs,         \* the longest tick() and MoveMe() take together, in ms
    MaxData,         \* the largest value of four hexadecimal digits
    Sensors,         \* the sensor boards that are switched on
    Commands,        \* the packets the computer may send
    CarefulHost      \* TRUE: it sends them only where the sketch expects them

PING == 0
TESTLED == 1
BATTERY == 2
CALIBRATE == 3
NTRIALS == 4
TRIAL == 5
SEPARATION == 6
TIMEOUT == 7
SAMPLERATE == 8
STREAM == 9

NOVALUE == -1
MODE_INIT == 0
MODE_STREAM == 1

Digit == 0..15
Boards == 0..(NBOARDS - 1)
Objects == 1..NOBJECTS
Lamps == 1..NLAMPS
Slots == 1..TIMER_MAX_TASKS
Colours == {"off", "red", "green", "blue"}
Packets == [cmd : PING..STREAM, id : 0..NOBJECTS, data : 0..MaxData]

ASSUME ConstantsAssumption ==
    /\ NOBJECTS \in 1..15
    /\ NBOARDS \in Nat /\ NOBJECTS < NBOARDS
    /\ NLAMPS \in Nat \ {0} /\ NLAMPS < NBOARDS
    /\ TIMER_MAX_TASKS \in Nat
    /\ FLASHES \in Nat \ {0}
    /\ LightMs \in Nat
    /\ MaxData \in Nat
    /\ Sensors \subseteq Boards
    /\ Commands \subseteq [cmd : Digit, id : Digit, data : 0..MaxData]
    /\ CarefulHost \in BOOLEAN

VARIABLES
    pc,             \* the place the sketch has reached
    radio,          \* ESP-NOW is up, and with it the lamps
    state, currentTrial, currentObject,
    numberOfTrials,
    trialSequence,  \* trialSequence[n] is the sketch's _trialSequence[n-1]
    separation, timeout, sampleRate,
    tasks,          \* the kind of stream task in each slot of the timer
    boards,         \* boardsStruct[b].isMoving
    lamps,          \* the colour of each lamp
    j,              \* the loop variable of sensor_test and TestSequence
    verdict,        \* isMoving and OtherBoxMoving of TestSequence
    elapsed,        \* millis() - startTime has reached the timeout
    out,            \* the packets the sketch's last step wrote
    seen,           \* history: boards flagged at some time since the cue
    steady,         \* history: boards flagged at every time since the cue
    outcome         \* history: the object reported at the end of the last trial

params == <<numberOfTrials, trialSequence, separation, timeout, sampleRate>>
status == <<state, currentTrial, currentObject>>
locals == <<j, verdict, elapsed>>
history == <<seen, steady, outcome>>
vars == <<pc, radio, status, params, tasks, boards, lamps, locals, out, history>>

-----------------------------------------------------------------------------
(***************************************************************************)
(* Output to the computer, the lamps and the timer.                        *)
(***************************************************************************)

\* Slip: the object is compared with >= instead of >.
WritePacketBelow(cmd, id, data) ==
    {p \in {[cmd |-> cmd, id |-> id, data |-> data]} :
        cmd \in PING..STREAM /\ id \in 0..(NOBJECTS - 1) /\ data \in 0..MaxData}

\* The packets WritePacket writes: none when it refuses its arguments.
WritePacket(cmd, id, data) ==
    {p \in {[cmd |-> cmd, id |-> id, data |-> data]} :
        /\ cmd \in PING..STREAM
        /\ id \in 0..NOBJECTS
        /\ data \in 0..MaxData}

AllOff == [b \in Lamps |-> "off"]

\* setBoardColor: without the expanders, or a lamp, nothing lights.
Lit(board, colour) ==
    IF radio THEN [b \in Lamps |-> IF b = board THEN colour ELSE lamps[b]]
             ELSE lamps

\* setBoardColor after RGB_reset.
Only(board, colour) == [b \in Lamps |-> IF radio /\ b = board THEN colour ELSE "off"]

(***************************************************************************)
(* A stream task fires once every interval ("periodic"); with a rate above *)
(* 1000 Hz the interval truncates to 0, which is due at once and does not  *)
(* repeat ("once"); without a rate it is -1000, some 49 days as an         *)
(* unsigned number, which no experiment reaches ("never").                 *)
(***************************************************************************)
TaskKinds == {"free", "periodic", "once", "never"}

StreamTask ==
    IF sampleRate = NOVALUE THEN "never"
    ELSE IF sampleRate > 1000 THEN "once" ELSE "periodic"

FreeSlots == {s \in Slots : tasks[s] = "free"}

\* every(): the first free slot, and no task at all when there is none.
AddTask(kind) ==
    tasks' = [s \in Slots |->
                 IF s \in FreeSlots /\ \A r \in FreeSlots : s <= r
                 THEN kind ELSE tasks[s]]

\* TimerEvent_WriteSTREAM: what it returns, and the packet it writes.
KeepTimerActive == ~(currentTrial < 1 \/ state /= MODE_STREAM)

Sample == IF KeepTimerActive
          THEN WritePacket(STREAM, currentObject, currentTrial) ELSE {}

\* timer.tick(): the tasks due are run; one that is not to repeat is freed.
Tick ==
    \E due \in SUBSET {s \in Slots : tasks[s] = "periodic"} :
        LET run == due \cup {s \in Slots : tasks[s] = "once"} IN
        /\ tasks' = [s \in Slots |->
                        IF s \in run /\ ~(tasks[s] = "periodic" /\ KeepTimerActive)
                        THEN "free" ELSE tasks[s]]
        /\ out' = IF run = {} THEN {} ELSE Sample

-----------------------------------------------------------------------------
(***************************************************************************)
(* setup(): the radio, the LED expanders, the test of lamps and sensors.   *)
(***************************************************************************)
SetupFrame == UNCHANGED <<status, params, tasks, boards, verdict, elapsed, history>>

InitRadio ==
    /\ pc = "setup"
    /\ pc' = "expanders" /\ radio' = TRUE /\ out' = {}
    /\ UNCHANGED <<lamps, j>> /\ SetupFrame

\* esp_now_init fails: SystemSetup returns, and loop() runs all the same.
RadioFails ==
    /\ pc = "setup"
    /\ pc' = "loop" /\ out' = {}
    /\ UNCHANGED <<radio, lamps, j>> /\ SetupFrame

ExpanderMissing ==
    /\ pc = "expanders"
    /\ pc' = "stuck" /\ out' = {}
    /\ UNCHANGED <<radio, lamps, j>> /\ SetupFrame

\* begin() and pinMode() of the expanders and RGB_test, which ends dark.
BeginExpanders ==
    /\ pc = "expanders"
    /\ pc' = "sensorTest" /\ j' = 1 /\ lamps' = Lit(1, "blue") /\ out' = {}
    /\ UNCHANGED radio /\ SetupFrame

\* Slip: boardsStruct is indexed from 0, as if board 1 came first.
SensorMovedShifted ==
    /\ pc = "sensorTest" /\ boards[j - 1]
    /\ pc' = "sensorSeen" /\ lamps' = Lit(j, "green") /\ out' = {}
    /\ UNCHANGED <<radio, j>> /\ SetupFrame

SensorMoved ==
    /\ pc = "sensorTest" /\ boards[j]
    /\ pc' = "sensorSeen" /\ lamps' = Lit(j, "green") /\ out' = {}
    /\ UNCHANGED <<radio, j>> /\ SetupFrame

NextSensor ==
    /\ pc = "sensorSeen" /\ j < NLAMPS
    /\ pc' = "sensorTest" /\ j' = j + 1 /\ out' = {}
    /\ lamps' = Only(j + 1, "blue")
    /\ UNCHANGED radio /\ SetupFrame

SensorsTested ==
    /\ pc = "sensorSeen" /\ j = NLAMPS
    /\ pc' = "loop" /\ lamps' = AllOff /\ out' = {}
    /\ UNCHANGED <<radio, j>> /\ SetupFrame

Setup == \/ InitRadio \/ RadioFails \/ ExpanderMissing \/ BeginExpanders
         \/ SensorMoved \/ NextSensor \/ SensorsTested

-----------------------------------------------------------------------------
(***************************************************************************)
(* The commands. DoCommand is entered with the packet ReadCommand has      *)
(* waited for.                                                             *)
(***************************************************************************)
Ping(c) ==
    /\ c.cmd = PING
    /\ pc' = "mode" /\ out' = WritePacket(PING, 0, 0)
    /\ UNCHANGED <<status, params, tasks>>

\* Slip: the array is allocated once.
NTrialsOldArray(c) ==
    /\ c.cmd = NTRIALS /\ c.data > 0
    /\ numberOfTrials' = c.data
    /\ trialSequence' = IF DOMAIN trialSequence = {}
                        THEN [n \in 1..c.data |-> NOVALUE] ELSE trialSequence
    /\ pc' = "mode" /\ out' = WritePacket(NTRIALS, 0, c.data)
    /\ UNCHANGED <<status, separation, timeout, sampleRate, tasks>>

NTrials(c) ==
    /\ c.cmd = NTRIALS /\ c.data > 0
    /\ numberOfTrials' = c.data
    /\ trialSequence' = [n \in 1..c.data |-> NOVALUE]
    /\ pc' = "mode" /\ out' = WritePacket(NTRIALS, 0, c.data)
    /\ UNCHANGED <<status, separation, timeout, sampleRate, tasks>>

\* Neither the trial nor the object is checked.
Trial(c) ==
    /\ c.cmd = TRIAL /\ DOMAIN trialSequence /= {}
    /\ c.data \in DOMAIN trialSequence
    /\ trialSequence' = [trialSequence EXCEPT ![c.data] = c.id]
    /\ pc' = "mode" /\ out' = WritePacket(TRIAL, c.id, c.data)
    /\ UNCHANGED <<status, numberOfTrials, separation, timeout, sampleRate, tasks>>

\* A trial outside the array: the program overwrites memory that is not its own.
TrialOutOfBounds(c) ==
    /\ c.cmd = TRIAL /\ DOMAIN trialSequence /= {}
    /\ c.data \notin DOMAIN trialSequence
    /\ pc' = "undefined" /\ out' = {}
    /\ UNCHANGED <<status, params, tasks>>

Separation(c) ==
    /\ c.cmd = SEPARATION /\ c.data > 0
    /\ separation' = c.data
    /\ pc' = "mode" /\ out' = WritePacket(SEPARATION, 0, c.data)
    /\ UNCHANGED <<status, numberOfTrials, trialSequence, timeout, sampleRate, tasks>>

Timeout(c) ==
    /\ c.cmd = TIMEOUT /\ c.data > 0
    /\ timeout' = c.data
    /\ pc' = "mode" /\ out' = WritePacket(TIMEOUT, 0, c.data)
    /\ UNCHANGED <<status, numberOfTrials, trialSequence, separation, sampleRate, tasks>>

SampleRate(c) ==
    /\ c.cmd = SAMPLERATE /\ c.data > 0
    /\ sampleRate' = c.data
    /\ pc' = "mode" /\ out' = WritePacket(SAMPLERATE, 0, c.data)
    /\ UNCHANGED <<status, numberOfTrials, trialSequence, separation, timeout, tasks>>

\* The stream task is not cancelled here.
StreamStop(c) ==
    /\ c.cmd = STREAM /\ c.data = 0
    /\ state' = MODE_INIT /\ currentTrial' = NOVALUE /\ currentObject' = NOVALUE
    /\ pc' = "mode" /\ out' = WritePacket(STREAM, 0, MODE_INIT)
    /\ UNCHANGED <<params, tasks>>

\* Slip: the reset includes the sequence.
StreamStartCleared(c) ==
    /\ c.cmd = STREAM /\ c.data = 1
    /\ state' = MODE_STREAM /\ currentTrial' = 1 /\ currentObject' = 0
    /\ trialSequence' = [n \in DOMAIN trialSequence |-> NOVALUE]
    /\ AddTask(StreamTask)
    /\ pc' = "mode" /\ out' = WritePacket(STREAM, 0, MODE_STREAM)
    /\ UNCHANGED <<numberOfTrials, separation, timeout, sampleRate>>

StreamStart(c) ==
    /\ c.cmd = STREAM /\ c.data = 1
    /\ state' = MODE_STREAM /\ currentTrial' = 1 /\ currentObject' = 0
    /\ AddTask(StreamTask)
    /\ pc' = "mode" /\ out' = WritePacket(STREAM, 0, MODE_STREAM)
    /\ UNCHANGED params

\* Commands that are not implemented, unknown, or refused.
Refuse(c) ==
    /\ \/ c.cmd \in {TESTLED, BATTERY, CALIBRATE}
       \/ c.cmd \notin PING..STREAM
       \/ c.cmd \in {NTRIALS, SEPARATION, TIMEOUT, SAMPLERATE} /\ c.data = 0
       \/ c.cmd = TRIAL /\ DOMAIN trialSequence = {}
       \/ c.cmd = STREAM /\ c.data \notin {0, 1}
    /\ pc' = "mode" /\ out' = {}
    /\ UNCHANGED <<status, params, tasks>>

(***************************************************************************)
(* What a careful host sends: parameters while the mode is not STREAM, a   *)
(* trial and an object that exist, and a start once everything is set.     *)
(***************************************************************************)
ParametersSet ==
    /\ numberOfTrials /= NOVALUE /\ timeout /= NOVALUE /\ sampleRate /= NOVALUE
    /\ \A n \in DOMAIN trialSequence : trialSequence[n] \in Objects

HostMaySend(c) == CarefulHost =>
    /\ c.cmd \in NTRIALS..SAMPLERATE => state /= MODE_STREAM
    /\ c.cmd = TRIAL => c.data \in DOMAIN trialSequence /\ c.id \in Objects
    /\ c.cmd = STREAM /\ c.data = 1 => state /= MODE_STREAM /\ ParametersSet

DoCommand(c) ==
    /\ pc = "read" /\ HostMaySend(c)
    /\ \/ Ping(c) \/ NTrials(c) \/ Trial(c) \/ TrialOutOfBounds(c)
       \/ Separation(c) \/ Timeout(c) \/ SampleRate(c)
       \/ StreamStop(c) \/ StreamStart(c) \/ Refuse(c)
    /\ UNCHANGED <<radio, boards, lamps, locals>>
    /\ outcome' = IF c.cmd = STREAM /\ c.data = 1 THEN 0 ELSE outcome
    /\ UNCHANGED <<seen, steady>>

-----------------------------------------------------------------------------
(***************************************************************************)
(* loop(): read a command if there is input, then run the trials if the    *)
(* mode is STREAM. ReadCommand blocks until a whole packet has arrived.    *)
(***************************************************************************)
LoopFrame == UNCHANGED <<radio, status, params, boards, lamps, locals, history>>

InputAvailable ==
    /\ pc = "loop"
    /\ pc' = "read" /\ out' = {} /\ UNCHANGED tasks /\ LoopFrame

NoInput ==
    /\ pc = "loop"
    /\ pc' = "mode" /\ out' = {} /\ UNCHANGED tasks /\ LoopFrame

\* Slip: tick() stands before the test of the mode.
NotStreamingTicks ==
    /\ pc = "mode" /\ state /= MODE_STREAM
    /\ pc' = "loop" /\ Tick /\ LoopFrame

NotStreaming ==
    /\ pc = "mode" /\ state /= MODE_STREAM
    /\ pc' = "loop" /\ out' = {} /\ UNCHANGED tasks /\ LoopFrame

\* Slip: the mode is not tested.
StreamingAnyMode ==
    /\ pc = "mode"
    /\ pc' = "sequence" /\ Tick /\ LoopFrame

Streaming ==
    /\ pc = "mode" /\ state = MODE_STREAM
    /\ pc' = "sequence" /\ Tick /\ LoopFrame

Loop == InputAvailable \/ NoInput \/ NotStreaming \/ Streaming

-----------------------------------------------------------------------------
(***************************************************************************)
(* TestSequence(): the trials up to the last, with no command read before  *)
(* it. In "wait" the sketch is at the head of the wait loop, in "others"   *)
(* at board j of the scan, in "tick" behind it.                            *)
(***************************************************************************)
Commanded == trialSequence[currentTrial]
Flagged == {b \in Boards : boards[b]}
TrialFrame == UNCHANGED <<radio, state, currentTrial, params, boards>>

\* The cue. A timeout the lights outlast may have elapsed before the first look.
BeginTrial ==
    /\ pc = "sequence" /\ currentTrial <= numberOfTrials
    /\ pc' = "wait" /\ Tick /\ lamps' = Lit(Commanded, "blue")
    /\ verdict' = "none" /\ j' = 0
    /\ elapsed' \in {FALSE, timeout /= NOVALUE /\ timeout <= LightMs}
    /\ seen' = Flagged /\ steady' = Flagged
    /\ UNCHANGED <<currentObject, outcome>> /\ TrialFrame

SequenceDone ==
    /\ pc = "sequence" /\ currentTrial > numberOfTrials
    /\ pc' = "loop" /\ out' = {}
    /\ UNCHANGED <<currentObject, tasks, lamps, locals, history>> /\ TrialFrame

WaitFrame == UNCHANGED <<tasks, lamps, elapsed, history>> /\ TrialFrame

TimedOut ==
    /\ pc = "wait" /\ elapsed
    /\ pc' = "feedback" /\ verdict' = "timeout" /\ out' = {}
    /\ UNCHANGED <<currentObject, j>> /\ WaitFrame

\* boardsStruct is read at the commanded object, whatever number that is.
CheckCommanded ==
    /\ pc = "wait" /\ ~elapsed /\ out' = {}
    /\ \/ /\ Commanded \notin Boards
          /\ pc' = "undefined"
          /\ UNCHANGED <<currentObject, verdict, j>>
       \/ /\ Commanded \in Boards /\ boards[Commanded]
          /\ pc' = "feedback" /\ verdict' = "correct" /\ currentObject' = Commanded
          /\ UNCHANGED j
       \/ /\ Commanded \in Boards /\ ~boards[Commanded]
          /\ pc' = "others" /\ j' = 1
          /\ UNCHANGED <<currentObject, verdict>>
    /\ WaitFrame

\* Slip: the wait loop ticks before it is left.
OtherMovedNoBreak ==
    /\ pc = "others" /\ j /= Commanded /\ boards[j]
    /\ pc' = "tick" /\ verdict' = "other" /\ currentObject' = j /\ out' = {}
    /\ UNCHANGED j /\ WaitFrame

OtherMoved ==
    /\ pc = "others" /\ j /= Commanded /\ boards[j]
    /\ pc' = "feedback" /\ verdict' = "other" /\ currentObject' = j /\ out' = {}
    /\ UNCHANGED j /\ WaitFrame

\* Slip: the reported object is not reset.
ScanOnWithoutReset ==
    /\ pc = "others" /\ (j = Commanded \/ ~boards[j])
    /\ pc' = IF j = NOBJECTS THEN "tick" ELSE "others"
    /\ j' = j + 1 /\ out' = {}
    /\ UNCHANGED <<currentObject, verdict>> /\ WaitFrame

\* Slip: the scan runs while j < NOBJECTS.
ScanOnShort ==
    /\ pc = "others" /\ (j = Commanded \/ ~boards[j])
    /\ currentObject' = IF j /= Commanded THEN 0 ELSE currentObject
    /\ pc' = IF j >= NOBJECTS - 1 THEN "tick" ELSE "others"
    /\ j' = j + 1 /\ out' = {}
    /\ UNCHANGED verdict /\ WaitFrame

\* The reset to 0 stands after the continue that skips the commanded object.
ScanOn ==
    /\ pc = "others" /\ (j = Commanded \/ ~boards[j])
    /\ currentObject' = IF j /= Commanded /\ j = NOBJECTS THEN 0 ELSE currentObject
    /\ pc' = IF j = NOBJECTS THEN "tick" ELSE "others"
    /\ j' = j + 1 /\ out' = {}
    /\ UNCHANGED verdict /\ WaitFrame

WaitTick ==
    /\ pc = "tick"
    /\ pc' = "wait" /\ Tick
    /\ UNCHANGED <<currentObject, lamps, locals, history>> /\ TrialFrame

FeedbackFrame == UNCHANGED <<currentObject, tasks, verdict, elapsed, history>> /\ TrialFrame

\* Slip: the last two arguments of setBoardColor are exchanged.
ShowVerdictBlue ==
    /\ pc = "feedback"
    /\ lamps' = Lit(Commanded, IF verdict = "correct" THEN "blue" ELSE "red")
    /\ pc' = IF verdict = "other" THEN "flash" ELSE "shown"
    /\ j' = 1 /\ out' = {} /\ FeedbackFrame

\* MoveMe_Correct or MoveMe_WRONG, and the delay after it.
ShowVerdict ==
    /\ pc = "feedback"
    /\ lamps' = Lit(Commanded, IF verdict = "correct" THEN "green" ELSE "red")
    /\ pc' = IF verdict = "other" THEN "flash" ELSE "shown"
    /\ j' = 1 /\ out' = {} /\ FeedbackFrame

\* The dark half of flash j.
FlashOff ==
    /\ pc = "flash"
    /\ lamps' = AllOff /\ pc' = IF j < FLASHES THEN "dark" ELSE "shown"
    /\ UNCHANGED j /\ out' = {} /\ FeedbackFrame

FlashOn ==
    /\ pc = "dark"
    /\ lamps' = Lit(Commanded, "red") /\ pc' = "flash" /\ j' = j + 1
    /\ out' = {} /\ FeedbackFrame

\* Slip: RGB_reset is missing.
EndTrialLit ==
    /\ pc = "shown"
    /\ currentTrial' = currentTrial + 1 /\ pc' = "sequence"
    /\ verdict' = "none" /\ elapsed' = FALSE /\ j' = 0 /\ out' = {}
    /\ seen' = {} /\ steady' = {} /\ outcome' = currentObject
    /\ UNCHANGED <<radio, state, currentObject, params, tasks, boards, lamps>>

\* Slip: a timeout repeats its trial.
EndTrialAgain ==
    /\ pc = "shown"
    /\ lamps' = AllOff /\ pc' = "sequence"
    /\ currentTrial' = IF verdict = "timeout" THEN currentTrial ELSE currentTrial + 1
    /\ verdict' = "none" /\ elapsed' = FALSE /\ j' = 0 /\ out' = {}
    /\ seen' = {} /\ steady' = {} /\ outcome' = currentObject
    /\ UNCHANGED <<radio, state, currentObject, params, tasks, boards>>

EndTrial ==
    /\ pc = "shown"
    /\ lamps' = AllOff /\ currentTrial' = currentTrial + 1 /\ pc' = "sequence"
    /\ verdict' = "none" /\ elapsed' = FALSE /\ j' = 0 /\ out' = {}
    /\ seen' = {} /\ steady' = {} /\ outcome' = currentObject
    /\ UNCHANGED <<radio, state, currentObject, params, tasks, boards>>

TestSequence ==
    \/ BeginTrial \/ SequenceDone \/ TimedOut \/ CheckCommanded \/ OtherMoved
    \/ ScanOn \/ WaitTick \/ ShowVerdict \/ FlashOff \/ FlashOn \/ EndTrial

-----------------------------------------------------------------------------
(***************************************************************************)
(* The environment: the radio callback, and the clock of the wait loop.    *)
(* Without a timeout, (unsigned) -1 is compared, which is never reached.   *)
(* The first look at the boards, with j still 0, comes before any timeout  *)
(* that the lights do not outlast: BeginTrial has chosen for it.           *)
(***************************************************************************)
Waiting == pc \in {"wait", "others", "tick"}

OnDataRecv(b, moving) ==
    /\ radio
    /\ boards' = [boards EXCEPT ![b] = moving]
    /\ seen' = IF Waiting /\ moving THEN seen \cup {b} ELSE seen
    /\ steady' = IF Waiting /\ ~moving THEN steady \ {b} ELSE steady
    /\ UNCHANGED <<pc, radio, status, params, tasks, lamps, locals, out, outcome>>

TimeoutElapses ==
    /\ Waiting /\ ~elapsed /\ timeout /= NOVALUE
    /\ ~(pc = "wait" /\ j = 0)
    /\ elapsed' = TRUE
    /\ UNCHANGED <<pc, radio, status, params, tasks, boards, lamps, j, verdict, out,
                   history>>

-----------------------------------------------------------------------------
Init ==
    /\ pc = "setup" /\ radio = FALSE
    /\ state = NOVALUE /\ currentTrial = NOVALUE /\ currentObject = NOVALUE
    /\ numberOfTrials = NOVALUE /\ trialSequence = [n \in 1..NOVALUE |-> NOVALUE]
    /\ separation = NOVALUE /\ timeout = NOVALUE /\ sampleRate = NOVALUE
    /\ tasks = [s \in Slots |-> "free"]
    /\ boards = [b \in Boards |-> FALSE]
    /\ lamps = AllOff
    /\ j = 0 /\ verdict = "none" /\ elapsed = FALSE /\ out = {}
    /\ seen = {} /\ steady = {} /\ outcome = 0

Sketch == Setup \/ Loop \/ (\E c \in Commands : DoCommand(c)) \/ TestSequence

Next ==
    \/ Sketch
    \/ \E b \in Sensors, moving \in BOOLEAN : OnDataRecv(b, moving)
    \/ TimeoutElapses

Spec == Init /\ [][Next]_vars

(***************************************************************************)
(* Fairness. The sketch is one thread that nothing stops; the wait for a   *)
(* packet is not part of it, since the computer need not send one. The     *)
(* clock advances.                                                         *)
(***************************************************************************)
FairSpec == Spec /\ WF_vars(Setup \/ Loop \/ TestSequence) /\ WF_vars(TimeoutElapses)

-----------------------------------------------------------------------------
(***************************************************************************)
(* Properties.                                                             *)
(***************************************************************************)
SetupPlaces == {"setup", "expanders", "stuck", "sensorTest", "sensorSeen"}
LoopPlaces == {"loop", "read", "mode", "sequence"}
WaitPlaces == {"wait", "others", "tick"}
VerdictPlaces == {"feedback", "flash", "dark", "shown"}

Judged == pc \in VerdictPlaces
InTrial == pc \in WaitPlaces \cup VerdictPlaces

\* Every variable has its type; the array has as many elements as there are trials.
TypeOK ==
    /\ pc \in SetupPlaces \cup LoopPlaces \cup WaitPlaces \cup VerdictPlaces
              \cup {"undefined"}
    /\ radio \in BOOLEAN
    /\ state \in {NOVALUE, MODE_INIT, MODE_STREAM}
    /\ currentTrial = NOVALUE \/ currentTrial \in 1..(MaxData + 1)
    /\ currentObject \in {NOVALUE} \cup Boards
    /\ numberOfTrials = NOVALUE \/ numberOfTrials \in 1..MaxData
    /\ trialSequence \in [1..numberOfTrials -> {NOVALUE} \cup Digit]
    /\ separation = NOVALUE \/ separation \in 1..MaxData
    /\ timeout = NOVALUE \/ timeout \in 1..MaxData
    /\ sampleRate = NOVALUE \/ sampleRate \in 1..MaxData
    /\ tasks \in [Slots -> TaskKinds]
    /\ boards \in [Boards -> BOOLEAN]
    /\ lamps \in [Lamps -> Colours]
    /\ j \in Nat
    /\ verdict \in {"none", "correct", "other", "timeout"}
    /\ elapsed \in BOOLEAN
    /\ out \subseteq Packets
    /\ seen \subseteq Boards /\ steady \subseteq Boards
    /\ outcome \in {NOVALUE} \cup Boards

\* No array is read or written outside its bounds (lines 472, 712), although
\* neither Trial nor TestSequence checks an index.
InBounds == pc /= "undefined"

\* A trial only runs in mode STREAM with a trial number of the sequence, although
\* the number goes one beyond it after the last trial (line 745) and a command may
\* shorten the sequence: no command is obeyed between the test of the mode and the
\* end of the trials, and the number is tested before each (line 702).
TrialInSequence ==
    /\ pc = "sequence" \/ InTrial => state = MODE_STREAM /\ currentTrial >= 1
    /\ InTrial => currentTrial <= numberOfTrials

\* A timeout that the lights do not outlast.
Unhurried == timeout = NOVALUE \/ timeout > LightMs

\* The object a verdict reports was flagged at some time since the cue of this
\* trial; after a timeout it is none (lines 712 to 734).
ReportedObjectMoved == Judged => currentObject \in seen \cup {0}

\* The same, with what the code needs for it: the scan resets the reported
\* object unless it is skipped for the last object or never begun.
ReportedUnlessLast ==
    Judged => \/ currentObject \in seen \cup {0}
              \/ verdict = "timeout" /\ (Commanded = NOBJECTS \/ ~Unhurried)

\* A board flagged all the time since the cue is not overlooked: the commanded
\* one is answered correct (line 712 looks at it first in every pass), and any
\* other ends the trial before the timeout.
SteadyIsSeen ==
    /\ verdict = "other" => Commanded \notin steady
    /\ verdict = "timeout" /\ Unhurried => (Objects \cup {Commanded}) \cap steady = {}

\* No lamp but the commanded object's is lit in a trial, none outside one; it is
\* blue while the trial waits, and neither green nor red before its verdict.
LampsFollowTrial ==
    /\ pc \in LoopPlaces => lamps = AllOff
    /\ pc \in WaitPlaces => lamps = Only(Commanded, "blue")
    /\ Judged => \A b \in Lamps :
           lamps[b] /= "off" =>
               /\ b = Commanded
               /\ lamps[b] = "green" => verdict = "correct"
               /\ lamps[b] = "red" => verdict \in {"other", "timeout"}

\* A sample that names an object names the one reported at the end of the trial
\* before the trial it is labelled with: the trial number is incremented before
\* the next tick (lines 705 and 745).
SampleShowsLastOutcome ==
    \A p \in out : p.cmd = STREAM /\ p.id /= 0 => p.id = outcome

\* Once added, a repeating stream task keeps its slot for ever: the stop branch
\* of TimerEvent_WriteSTREAM (line 135) is not reached, tick() being called in
\* mode STREAM alone.
StreamTaskStays ==
    [][\A s \in Slots : tasks[s] = "periodic" => tasks'[s] = "periodic"]_vars

\* There is one stream task at most (Stream, lines 541 to 546).
OneStreamTask == \A r, s \in Slots : tasks[r] = "periodic" /\ tasks[s] = "periodic" => r = s

\* The object was stored before WritePacket refused it (lines 473 and 476).
StoredUnanswered(c) ==
    /\ c.cmd = TRIAL /\ c.id > NOBJECTS
    /\ trialSequence' = [trialSequence EXCEPT ![c.data] = c.id]
    /\ UNCHANGED <<status, numberOfTrials, separation, timeout, sampleRate, tasks>>

\* A command that gets no answer has changed nothing, whatever the computer sends
\* and whenever, with one exception: a trial of an object that no packet has room
\* for, of which nothing but that trial is changed (lines 438 to 555).
SilenceMeansRefused ==
    [][pc = "read" /\ pc' = "mode" /\ out' = {} =>
          \A c \in Commands : DoCommand(c) =>
              UNCHANGED <<status, params, tasks>> \/ StoredUnanswered(c)]_vars

\* The most steps the sketch still takes in a trial that has timed out, or that
\* comes to a verdict in this pass of the wait loop.
StepsLeft ==
    CASE pc = "sequence" -> 2 * FLASHES + NOBJECTS + 4
      [] pc = "wait" -> 2 * FLASHES + (IF elapsed THEN 1 ELSE NOBJECTS + 3)
      [] pc = "others" -> 2 * FLASHES + NOBJECTS + 3 - j
      [] pc = "tick" -> 2 * FLASHES + 2
      [] pc = "feedback" -> 2 * FLASHES
      [] pc = "flash" -> 2 * (FLASHES - j) + 1
      [] pc = "dark" -> 2 * (FLASHES - j)
      [] OTHER -> 0

\* Nothing but waiting holds the trials up: each step of TestSequence ends the
\* sequence, goes on to the next trial or comes nearer to the end of this one,
\* except to try again before the timeout; and nothing that happens beside it sets
\* it back, neither the radio nor the clock (lines 700 to 747).
TrialsAdvance ==
    [][pc = "sequence" \/ InTrial =>
        /\ StepsLeft \in 0..(2 * FLASHES + NOBJECTS + 4)
        /\ numberOfTrials' = numberOfTrials
        /\ TestSequence =>
               \/ pc = "sequence" /\ pc' = "loop"
               \/ currentTrial < numberOfTrials + 1 /\ currentTrial' = currentTrial + 1
               \/ currentTrial' = currentTrial /\ StepsLeft' < StepsLeft
               \/ currentTrial' = currentTrial /\ pc = "tick" /\ ~elapsed
        /\ ~TestSequence => currentTrial' = currentTrial /\ StepsLeft' <= StepsLeft
        /\ InTrial /\ elapsed /\ InTrial' => elapsed']_vars

\* An experiment that has been started runs through all its trials.
TrialsFinish == (pc = "mode" /\ state = MODE_STREAM) ~> (pc = "loop")

(***************************************************************************)
(* The sensor test (lines 674 to 688) ends, if every sensor board that is  *)
(* switched on is moved again and again, and for long enough that the      *)
(* test, which looks every millisecond, meets it.                          *)
(***************************************************************************)
SetupCompletes ==
    SF_vars(SensorMoved) /\ (\A b \in Sensors : WF_vars(OnDataRecv(b, TRUE)))
    => ((pc = "sensorTest") ~> (pc = "loop"))

(***************************************************************************)
(* The experiment implements TrialProtocol.                                *)
(***************************************************************************)
Phase ==
    IF pc \in WaitPlaces THEN "cue"
    ELSE IF Judged THEN verdict
    ELSE IF state = MODE_STREAM THEN "rest" ELSE "off"

TrialShown == IF Phase = "off" THEN 0 ELSE currentTrial
ObjectShown == IF Phase = "off" THEN 0 ELSE currentObject
CuedBox == IF InTrial THEN Commanded ELSE 0
CuedLight == IF InTrial /\ Commanded \in Lamps THEN lamps[Commanded] ELSE "off"

TP == INSTANCE TrialProtocol WITH
    phase <- Phase, trial <- TrialShown, box <- CuedBox, light <- CuedLight,
    report <- ObjectShown, moving <- boards, powered <- radio

\* Every step of the sketch is a step of the protocol of a trial, or none that
\* subject and computer could tell (TestSequence, lines 700 to 747).
ImplementsProtocol == TP!Protocol
=============================================================================
