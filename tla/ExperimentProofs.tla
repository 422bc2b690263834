-------------------------- MODULE ExperimentProofs --------------------------
(***************************************************************************)
(* Theorems about Experiment, for every value of its constants.            *)
(***************************************************************************)
EXTENDS Experiment, TLAPS

(***************************************************************************)
(* The inductive invariant behind the type invariant. An increment of the  *)
(* trial number stays in its type because it is made for a trial of the    *)
(* sequence, and that because no command is obeyed in TestSequence.        *)
(***************************************************************************)
StreamHasTrial == state = MODE_STREAM => currentTrial >= 1

TrialExists == InTrial => currentTrial \in 1..numberOfTrials

ScanOnObject == pc = "others" => j \in Objects

Basic == TypeOK /\ TrialInSequence /\ StreamHasTrial /\ TrialExists /\ ScanOnObject

\* What WritePacket writes is a packet that fits its frame (lines 212 to 246).
LEMMA WrittenFits ==
    ASSUME NEW cmd, NEW id, NEW data
    PROVE  WritePacket(cmd, id, data) \subseteq Packets
BY DEF WritePacket, Packets

LEMMA LitType ==
    ASSUME TypeOK, NEW board, NEW colour \in Colours
    PROVE  Lit(board, colour) \in [Lamps -> Colours]
BY DEF TypeOK, Lit

LEMMA AllOffType == AllOff \in [Lamps -> Colours]
BY DEF AllOff, Colours

LEMMA TickType ==
    ASSUME TypeOK, Tick
    PROVE  tasks' \in [Slots -> TaskKinds] /\ out' \subseteq Packets
<1>1. tasks' \in [Slots -> TaskKinds]
  BY DEF Tick, TypeOK, TaskKinds
<1>2. out' \subseteq Packets
  BY WrittenFits DEF Tick, Sample
<1> QED BY <1>1, <1>2

LEMMA BasicInit == Init => Basic
<1> SUFFICES ASSUME Init PROVE Basic
  OBVIOUS
<1> USE ConstantsAssumption DEF Init, NOVALUE, MODE_INIT, MODE_STREAM
<1>1. TypeOK
  <2>1. trialSequence \in [1..numberOfTrials -> {NOVALUE} \cup Digit]
    OBVIOUS
  <2>2. tasks \in [Slots -> TaskKinds]
    BY DEF TaskKinds
  <2>3. lamps \in [Lamps -> Colours]
    BY AllOffType
  <2>4. /\ boards \in [Boards -> BOOLEAN] /\ out \subseteq Packets
        /\ seen \subseteq Boards /\ steady \subseteq Boards
    OBVIOUS
  <2>5. currentObject \in {NOVALUE} \cup Boards /\ outcome \in {NOVALUE} \cup Boards
    BY DEF Boards
  <2>6. pc \in SetupPlaces
    BY DEF SetupPlaces
  <2> QED BY <2>1, <2>2, <2>3, <2>4, <2>5, <2>6 DEF TypeOK
<1>2. TrialInSequence /\ StreamHasTrial /\ TrialExists /\ ScanOnObject
  BY DEF TrialInSequence, StreamHasTrial, TrialExists, ScanOnObject, InTrial,
         WaitPlaces, VerdictPlaces
<1> QED BY <1>1, <1>2 DEF Basic

LEMMA SetupStep == Basic /\ Setup => Basic'
<1> SUFFICES ASSUME Basic, Setup PROVE Basic'
  OBVIOUS
<1> USE AllOffType, LitType DEF Basic, TypeOK, TrialInSequence, StreamHasTrial, TrialExists,
        ScanOnObject, InTrial, SetupPlaces, LoopPlaces, WaitPlaces, VerdictPlaces,
        SetupFrame, status, params, history, Colours
<1>1. CASE InitRadio
  BY <1>1 DEF InitRadio
<1>2. CASE RadioFails
  BY <1>2 DEF RadioFails
<1>3. CASE ExpanderMissing
  BY <1>3 DEF ExpanderMissing
<1>4. CASE BeginExpanders
  BY <1>4 DEF BeginExpanders
<1>5. CASE SensorMoved
  BY <1>5 DEF SensorMoved
<1>6. CASE NextSensor
  <2>1. lamps' \in [Lamps -> Colours]
    BY <1>6 DEF NextSensor, Only
  <2> QED BY <1>6, <2>1 DEF NextSensor
<1>7. CASE SensorsTested
  BY <1>7 DEF SensorsTested
<1> QED BY <1>1, <1>2, <1>3, <1>4, <1>5, <1>6, <1>7 DEF Setup

LEMMA CommandStep == Basic /\ (\E c \in Commands : DoCommand(c)) => Basic'
<1> SUFFICES ASSUME Basic, NEW c \in Commands, DoCommand(c) PROVE Basic'
  OBVIOUS
<1> USE ConstantsAssumption, WrittenFits
        DEF Basic, TypeOK, TrialInSequence, StreamHasTrial, TrialExists, ScanOnObject,
            InTrial, LoopPlaces, SetupPlaces, WaitPlaces, VerdictPlaces, DoCommand,
            status, params, locals, Boards, MODE_INIT, MODE_STREAM, NOVALUE
<1>1. CASE Ping(c)
  BY <1>1 DEF Ping
<1>2. CASE NTrials(c)
  BY <1>2 DEF NTrials
<1>3. CASE Trial(c)
  BY <1>3 DEF Trial
<1>4. CASE TrialOutOfBounds(c)
  BY <1>4 DEF TrialOutOfBounds
<1>5. CASE Separation(c)
  BY <1>5 DEF Separation
<1>6. CASE Timeout(c)
  BY <1>6 DEF Timeout
<1>7. CASE SampleRate(c)
  BY <1>7 DEF SampleRate
<1>8. CASE StreamStop(c)
  BY <1>8 DEF StreamStop
<1>9. CASE StreamStart(c)
  <2>1. tasks' \in [Slots -> TaskKinds]
    BY <1>9 DEF StreamStart, AddTask, StreamTask, TaskKinds
  <2> QED BY <1>9, <2>1 DEF StreamStart
<1>10. CASE Refuse(c)
  BY <1>10 DEF Refuse
<1> QED BY <1>1, <1>2, <1>3, <1>4, <1>5, <1>6, <1>7, <1>8, <1>9, <1>10

LEMMA LoopStep == Basic /\ Loop => Basic'
<1> SUFFICES ASSUME Basic, Loop PROVE Basic'
  OBVIOUS
<1> USE TickType
        DEF Basic, TypeOK, TrialInSequence, StreamHasTrial, TrialExists, ScanOnObject,
            InTrial, LoopPlaces, SetupPlaces, WaitPlaces, VerdictPlaces, LoopFrame,
            status, params, locals, history
<1>1. CASE InputAvailable
  BY <1>1 DEF InputAvailable
<1>2. CASE NoInput
  BY <1>2 DEF NoInput
<1>3. CASE NotStreaming
  BY <1>3 DEF NotStreaming
<1>4. CASE Streaming
  BY <1>4 DEF Streaming
<1> QED BY <1>1, <1>2, <1>3, <1>4 DEF Loop

LEMMA TrialStep == Basic /\ TestSequence => Basic'
<1> SUFFICES ASSUME Basic, TestSequence PROVE Basic'
  OBVIOUS
<1> USE ConstantsAssumption, TickType, LitType, AllOffType
        DEF Basic, TypeOK, TrialInSequence, StreamHasTrial, TrialExists, ScanOnObject,
            InTrial, LoopPlaces, SetupPlaces, WaitPlaces, VerdictPlaces, TrialFrame,
            WaitFrame, FeedbackFrame, params, locals, history, Objects, Boards, Colours
<1>1. CASE BeginTrial
  <2>1. elapsed' \in BOOLEAN
    BY <1>1 DEF BeginTrial
  <2>2. lamps' \in [Lamps -> Colours]
    BY <1>1 DEF BeginTrial
  <2>3. seen' \subseteq Boards /\ steady' \subseteq Boards
    BY <1>1 DEF BeginTrial, Flagged
  <2>4. tasks' \in [Slots -> TaskKinds] /\ out' \subseteq Packets
    BY <1>1 DEF BeginTrial
  <2>5. currentTrial \in 1..numberOfTrials
    BY <1>1 DEF BeginTrial, NOVALUE
  <2> QED BY <1>1, <2>1, <2>2, <2>3, <2>4, <2>5 DEF BeginTrial
<1>2. CASE SequenceDone
  BY <1>2 DEF SequenceDone
<1>3. CASE TimedOut
  BY <1>3 DEF TimedOut
<1>4. CASE CheckCommanded
  <2>1. CASE Commanded \notin Boards
    BY <1>4, <2>1 DEF CheckCommanded
  <2>2. CASE Commanded \in Boards /\ boards[Commanded]
    BY <1>4, <2>2 DEF CheckCommanded
  <2>3. CASE Commanded \in Boards /\ ~boards[Commanded]
    BY <1>4, <2>3 DEF CheckCommanded
  <2> QED BY <2>1, <2>2, <2>3
<1>5. CASE OtherMoved
  BY <1>5 DEF OtherMoved
<1>6. CASE ScanOn
  BY <1>6 DEF ScanOn
<1>7. CASE WaitTick
  BY <1>7 DEF WaitTick
<1>8. CASE ShowVerdict
  BY <1>8 DEF ShowVerdict
<1>9. CASE FlashOff
  BY <1>9 DEF FlashOff
<1>10. CASE FlashOn
  BY <1>10 DEF FlashOn
<1>11. CASE EndTrial
  <2>1. pc = "shown" /\ currentTrial \in 1..numberOfTrials /\ numberOfTrials \in 1..MaxData
    BY <1>11 DEF EndTrial, NOVALUE
  <2>2. currentTrial' = currentTrial + 1 /\ state' = MODE_STREAM
    BY <1>11, <2>1 DEF EndTrial
  <2>3. currentTrial' \in 1..(MaxData + 1) /\ currentTrial' >= 1
    BY <2>1, <2>2
  <2>4. lamps' \in [Lamps -> Colours] /\ j' \in Nat /\ elapsed' \in BOOLEAN
    BY <1>11 DEF EndTrial
  <2> QED BY <1>11, <2>1, <2>2, <2>3, <2>4 DEF EndTrial
<1> QED BY <1>1, <1>2, <1>3, <1>4, <1>5, <1>6, <1>7, <1>8, <1>9, <1>10, <1>11 DEF TestSequence

LEMMA EnvironmentStep ==
    ASSUME Basic,
           \/ \E b \in Sensors, moving \in BOOLEAN : OnDataRecv(b, moving)
           \/ TimeoutElapses
    PROVE  Basic'
<1> USE ConstantsAssumption
        DEF Basic, TypeOK, TrialInSequence, StreamHasTrial, TrialExists, ScanOnObject,
            InTrial, status, params, locals, history
<1>1. ASSUME NEW b \in Sensors, NEW moving \in BOOLEAN, OnDataRecv(b, moving)
      PROVE  Basic'
  BY <1>1 DEF OnDataRecv
<1>2. CASE TimeoutElapses
  BY <1>2 DEF TimeoutElapses
<1> QED BY <1>1, <1>2

LEMMA BasicStep == Basic /\ [Next]_vars => Basic'
<1> SUFFICES ASSUME Basic, [Next]_vars PROVE Basic'
  OBVIOUS
<1>1. CASE Sketch
  BY <1>1, SetupStep, CommandStep, LoopStep, TrialStep DEF Sketch
<1>2. CASE (\E b \in Sensors, moving \in BOOLEAN : OnDataRecv(b, moving)) \/ TimeoutElapses
  BY <1>2, EnvironmentStep
<1>3. CASE UNCHANGED vars
  BY <1>3 DEF vars, status, params, locals, history, Basic, TypeOK, TrialInSequence,
              StreamHasTrial, TrialExists, ScanOnObject, InTrial
<1> QED BY <1>1, <1>2, <1>3 DEF Next

THEOREM BasicInvariant == Spec => []Basic
BY BasicInit, BasicStep, PTL DEF Spec

\* Every variable keeps its type; in particular the array of trials always has
\* numberOfTrials elements.
THEOREM TypeCorrect == Spec => []TypeOK
<1>1. Basic => TypeOK
  BY DEF Basic
<1> QED BY <1>1, BasicInvariant, PTL

\* Trials run in mode STREAM alone, with a trial number of the sequence.
THEOREM TrialsRunInSequence == Spec => []TrialInSequence
<1>1. Basic => TrialInSequence
  BY DEF Basic
<1> QED BY <1>1, BasicInvariant, PTL

(***************************************************************************)
(* A repeating stream task is never retired: tick() runs in "mode" with    *)
(* the mode STREAM and in a trial sequence only, where the handler asks to *)
(* be kept, and every() fills free slots alone.                            *)
(***************************************************************************)
LEMMA TickKeepsStreamTasks ==
    ASSUME KeepTimerActive, Tick, NEW s \in Slots, tasks[s] = "periodic"
    PROVE  tasks'[s] = "periodic"
BY DEF Tick

LEMMA StreamTaskStep ==
    ASSUME Basic, [Next]_vars, NEW s \in Slots, tasks[s] = "periodic"
    PROVE  tasks'[s] = "periodic"
<1>1. CASE UNCHANGED tasks
  BY <1>1
<1>2. CASE \E c \in Commands : StreamStart(c)
  BY <1>2 DEF StreamStart, AddTask, FreeSlots
<1>3. CASE Streaming \/ BeginTrial \/ WaitTick
  <2>1. KeepTimerActive
    <3>1. (pc = "mode" /\ state = MODE_STREAM) \/ pc \in {"sequence", "tick"}
      BY <1>3 DEF Streaming, BeginTrial, WaitTick
    <3>2. state = MODE_STREAM /\ currentTrial >= 1
      BY <3>1 DEF Basic, TrialInSequence, StreamHasTrial, InTrial, WaitPlaces
    <3>3. currentTrial \in Int
      BY ConstantsAssumption DEF Basic, TypeOK, NOVALUE
    <3> QED BY <3>2, <3>3 DEF KeepTimerActive
  <2>2. Tick
    BY <1>3 DEF Streaming, BeginTrial, WaitTick
  <2> QED BY <2>1, <2>2, TickKeepsStreamTasks
<1>4. \/ UNCHANGED tasks
      \/ \E c \in Commands : StreamStart(c)
      \/ Streaming \/ BeginTrial \/ WaitTick
  <2>1. Setup => UNCHANGED tasks
    BY DEF Setup, InitRadio, RadioFails, ExpanderMissing, BeginExpanders, SensorMoved,
           NextSensor, SensorsTested, SetupFrame
  <2>2. \A c \in Commands : DoCommand(c) => UNCHANGED tasks \/ StreamStart(c)
    BY DEF DoCommand, Ping, NTrials, Trial, TrialOutOfBounds, Separation, Timeout,
           SampleRate, StreamStop, Refuse
  <2>3. Loop => UNCHANGED tasks \/ Streaming
    BY DEF Loop, InputAvailable, NoInput, NotStreaming
  <2>4. TestSequence => UNCHANGED tasks \/ BeginTrial \/ WaitTick
    BY DEF TestSequence, SequenceDone, TimedOut, CheckCommanded, OtherMoved, ScanOn,
           ShowVerdict, FlashOff, FlashOn, EndTrial, WaitFrame, FeedbackFrame
  <2>5. ASSUME NEW b, NEW moving, OnDataRecv(b, moving) PROVE UNCHANGED tasks
    BY <2>5 DEF OnDataRecv
  <2>6. TimeoutElapses \/ UNCHANGED vars => UNCHANGED tasks
    BY DEF TimeoutElapses, vars
  <2> QED BY <2>1, <2>2, <2>3, <2>4, <2>5, <2>6 DEF Next, Sketch
<1> QED BY <1>1, <1>2, <1>3, <1>4

\* No step of the receiver ever stops a repeating stream task.
THEOREM StreamTasksStay == Spec => StreamTaskStays
<1>1. Basic /\ [Next]_vars =>
        [\A s \in Slots : tasks[s] = "periodic" => tasks'[s] = "periodic"]_vars
  BY StreamTaskStep
<1> QED BY <1>1, BasicInvariant, PTL DEF Spec, StreamTaskStays

(***************************************************************************)
(* With a careful host no index leaves its array. The sequence is assigned *)
(* in full before the start and, while the mode is STREAM, not changed; so *)
(* the commanded object of every trial is an object.                       *)
(***************************************************************************)
Assigned ==
    state = MODE_STREAM => \A n \in DOMAIN trialSequence : trialSequence[n] \in Objects

LEMMA CarefulCommand ==
    ASSUME CarefulHost, Basic, Assigned, NEW c \in Commands, DoCommand(c)
    PROVE  Assigned' /\ InBounds'
<1> USE ConstantsAssumption DEF DoCommand, InBounds
<1>1. CASE Ping(c) \/ Refuse(c) \/ Separation(c) \/ Timeout(c) \/ SampleRate(c)
  BY <1>1 DEF Ping, Refuse, Separation, Timeout, SampleRate, Assigned, status, params
<1>2. CASE NTrials(c) \/ Trial(c)
  <2>1. c.cmd \in NTRIALS..SAMPLERATE
    BY <1>2 DEF NTrials, Trial, NTRIALS, TRIAL, SAMPLERATE
  <2>2. state /= MODE_STREAM /\ state' = state
    BY <1>2, <2>1 DEF HostMaySend, NTrials, Trial, status
  <2> QED BY <1>2, <2>2 DEF Assigned, NTrials, Trial
<1>3. CASE TrialOutOfBounds(c)
  BY <1>3 DEF TrialOutOfBounds, HostMaySend
<1>4. CASE StreamStop(c)
  BY <1>4 DEF StreamStop, Assigned, MODE_INIT, MODE_STREAM
<1>5. CASE StreamStart(c)
  BY <1>5 DEF StreamStart, HostMaySend, ParametersSet, Assigned, params
<1> QED BY <1>1, <1>2, <1>3, <1>4, <1>5

LEMMA CarefulStep ==
    ASSUME CarefulHost, Basic, Assigned, InBounds, [Next]_vars
    PROVE  Assigned' /\ InBounds'
<1> USE DEF Assigned, InBounds, status, params
<1>1. CASE \E c \in Commands : DoCommand(c)
  BY <1>1, CarefulCommand
<1>2. CASE CheckCommanded
  <2>1. pc = "wait" /\ InTrial
    BY <1>2 DEF CheckCommanded, InTrial, WaitPlaces
  <2>2. currentTrial \in DOMAIN trialSequence /\ state = MODE_STREAM
    BY <2>1 DEF Basic, TypeOK, TrialExists, TrialInSequence
  <2>3. Commanded \in Boards
    BY <2>2, ConstantsAssumption DEF Commanded, Objects, Boards
  <2> QED BY <1>2, <2>3 DEF CheckCommanded, WaitFrame, TrialFrame
<1>3. CASE Setup
  BY <1>3 DEF Setup, InitRadio, RadioFails, ExpanderMissing, BeginExpanders, SensorMoved,
              NextSensor, SensorsTested, SetupFrame
<1>4. CASE Loop
  BY <1>4 DEF Loop, InputAvailable, NoInput, NotStreaming, Streaming, LoopFrame
<1>5. CASE TestSequence /\ ~CheckCommanded
  BY <1>5 DEF TestSequence, BeginTrial, SequenceDone, TimedOut, OtherMoved, ScanOn,
              WaitTick, ShowVerdict, FlashOff, FlashOn, EndTrial, TrialFrame, WaitFrame,
              FeedbackFrame
<1>6. ASSUME NEW b, NEW moving, OnDataRecv(b, moving) PROVE Assigned' /\ InBounds'
  BY <1>6 DEF OnDataRecv
<1>7. CASE TimeoutElapses \/ UNCHANGED vars
  BY <1>7 DEF TimeoutElapses, vars
<1> QED BY <1>1, <1>2, <1>3, <1>4, <1>5, <1>6, <1>7 DEF Next, Sketch

\* As long as the computer is a careful host, no array is read or written out of
\* its bounds, whatever the sensors do.
THEOREM CarefulHostStaysInBounds ==
    ASSUME CarefulHost PROVE Spec => []InBounds
<1>1. Init => Assigned /\ InBounds
  BY DEF Init, Assigned, InBounds, NOVALUE, MODE_STREAM
<1>2. Basic /\ Assigned /\ InBounds /\ [Next]_vars => (Assigned /\ InBounds)'
  BY CarefulStep
<1> QED BY <1>1, <1>2, BasicInvariant, PTL DEF Spec

(***************************************************************************)
(* What a sample shows. Between two verdicts the reported object is the    *)
(* one of the last trial or none, and every tick falls into that time.     *)
(***************************************************************************)
ReportLags ==
    /\ pc \in SetupPlaces => state /= MODE_STREAM
    /\ pc \in LoopPlaces \cup WaitPlaces /\ state = MODE_STREAM
           => currentObject \in {0, outcome}

LEMMA WrittenFields ==
    ASSUME NEW cmd, NEW id, NEW data, NEW p \in WritePacket(cmd, id, data)
    PROVE  p.cmd = cmd /\ p.id = id /\ p.data = data
BY DEF WritePacket

LEMMA TickSample ==
    ASSUME Tick, NEW p \in out'
    PROVE  p.cmd = STREAM /\ p.id = currentObject /\ state = MODE_STREAM
BY WrittenFields DEF Tick, Sample, KeepTimerActive

LEMMA CommandSample ==
    ASSUME NEW c \in Commands, DoCommand(c), NEW p \in out', p.cmd = STREAM
    PROVE  p.id = 0
BY WrittenFields
   DEF DoCommand, Ping, NTrials, Trial, TrialOutOfBounds, Separation, Timeout, SampleRate,
       StreamStop, StreamStart, Refuse, PING, NTRIALS, TRIAL, SEPARATION, TIMEOUT,
       SAMPLERATE, STREAM

LEMMA SampleStep ==
    ASSUME Basic, ReportLags, SampleShowsLastOutcome, [Next]_vars
    PROVE  ReportLags' /\ SampleShowsLastOutcome'
<1> USE DEF ReportLags, SampleShowsLastOutcome, SetupPlaces, LoopPlaces, WaitPlaces
<1>1. CASE \E c \in Commands : DoCommand(c)
  <2> PICK c \in Commands : DoCommand(c)
    BY <1>1
  <2>1. SampleShowsLastOutcome'
    BY CommandSample
  <2>2. pc = "read"
    BY DEF DoCommand
  <2>3. CASE StreamStart(c)
    BY <2>1, <2>3 DEF StreamStart
  <2>4. CASE StreamStop(c)
    BY <2>1, <2>4 DEF StreamStop, MODE_INIT, MODE_STREAM
  <2>5. CASE ~StreamStart(c) /\ ~StreamStop(c)
    <3>1. UNCHANGED status /\ pc' \in {"mode", "undefined"}
      BY <2>5 DEF DoCommand, Ping, NTrials, Trial, TrialOutOfBounds, Separation, Timeout,
                  SampleRate, Refuse
    <3>2. ~(c.cmd = STREAM /\ c.data = 1)
      BY <2>5 DEF DoCommand, Ping, NTrials, Trial, TrialOutOfBounds, Separation, Timeout,
                  SampleRate, Refuse, PING, NTRIALS, TRIAL, SEPARATION, TIMEOUT,
                  SAMPLERATE, STREAM, TESTLED, BATTERY, CALIBRATE
    <3> QED BY <2>1, <2>2, <3>1, <3>2 DEF DoCommand, status
  <2> QED BY <2>3, <2>4, <2>5
<1>2. CASE Setup
  <2>1. pc \in SetupPlaces /\ state' = state /\ out' = {}
    BY <1>2 DEF Setup, InitRadio, RadioFails, ExpanderMissing, BeginExpanders,
                SensorMoved, NextSensor, SensorsTested, SetupFrame, status
  <2> QED BY <2>1
<1>3. CASE Loop
  BY <1>3, TickSample DEF Loop, InputAvailable, NoInput, NotStreaming, Streaming, LoopFrame,
              status, history
<1>4. CASE TestSequence
  BY <1>4, TickSample
     DEF TestSequence, BeginTrial, SequenceDone, TimedOut, CheckCommanded, OtherMoved,
         ScanOn, WaitTick, ShowVerdict, FlashOff, FlashOn, EndTrial, TrialFrame, WaitFrame,
         FeedbackFrame, history
<1>5. ASSUME NEW b, NEW moving, OnDataRecv(b, moving)
      PROVE  ReportLags' /\ SampleShowsLastOutcome'
  BY <1>5 DEF OnDataRecv, status
<1>6. CASE TimeoutElapses \/ UNCHANGED vars
  BY <1>6 DEF TimeoutElapses, vars, status, history
<1> QED BY <1>1, <1>2, <1>3, <1>4, <1>5, <1>6 DEF Next, Sketch

\* No sample names an object of the trial it is labelled with: it names the one
\* reported at the end of the trial before, or none.
THEOREM SamplesLag == Spec => []SampleShowsLastOutcome
<1>1. Init => ReportLags /\ SampleShowsLastOutcome
  BY DEF Init, ReportLags, SampleShowsLastOutcome, SetupPlaces, LoopPlaces, WaitPlaces,
         NOVALUE, MODE_STREAM
<1>2. Basic /\ ReportLags /\ SampleShowsLastOutcome /\ [Next]_vars
        => (ReportLags /\ SampleShowsLastOutcome)'
  BY SampleStep
<1> QED BY <1>1, <1>2, BasicInvariant, PTL DEF Spec

(***************************************************************************)
(* What a trial reports. After the first look, with a timeout that lets it *)
(* come, a whole scan has found no board and so reset the reported object, *)
(* unless the last object is the commanded one.                            *)
(***************************************************************************)
FirstLookTaken == pc = "tick" \/ (pc = "wait" /\ j /= 0)

ScanReport ==
    /\ pc \in WaitPlaces => Flagged \subseteq seen
    /\ FirstLookTaken /\ Commanded /= NOBJECTS => currentObject = 0
    /\ pc = "wait" /\ j = 0 /\ elapsed => ~Unhurried
    /\ pc = "tick" => j /= 0

LEMMA ReportStep ==
    ASSUME Basic, ScanReport, ReportedUnlessLast, [Next]_vars
    PROVE  ScanReport' /\ ReportedUnlessLast'
<1> USE ConstantsAssumption
        DEF ScanReport, ReportedUnlessLast, FirstLookTaken, Unhurried, Commanded, Judged,
            WaitPlaces, VerdictPlaces, params, history
<1>1. CASE Setup \/ Loop \/ SequenceDone \/ (\E c \in Commands : DoCommand(c)) \/ EndTrial
  BY <1>1 DEF Setup, InitRadio, RadioFails, ExpanderMissing, BeginExpanders, SensorMoved,
              NextSensor, SensorsTested, Loop, InputAvailable, NoInput, NotStreaming,
              Streaming, SequenceDone, DoCommand, Ping, NTrials, Trial, TrialOutOfBounds,
              Separation, Timeout, SampleRate, StreamStop, StreamStart, Refuse, EndTrial
<1>2. CASE BeginTrial
  <2>1. elapsed' => timeout /= NOVALUE /\ timeout <= LightMs
    BY <1>2 DEF BeginTrial
  <2>2. elapsed' => ~Unhurried'
    BY <1>2, <2>1 DEF BeginTrial, TrialFrame, Basic, TypeOK
  <2>3. Flagged' = seen'
    BY <1>2 DEF BeginTrial, TrialFrame, Flagged
  <2> QED BY <1>2, <2>2, <2>3 DEF BeginTrial
<1>3. CASE TimedOut
  BY <1>3 DEF TimedOut, WaitFrame, TrialFrame
<1>4. CASE CheckCommanded
  BY <1>4 DEF CheckCommanded, WaitFrame, TrialFrame, Flagged
<1>5. CASE OtherMoved
  BY <1>5 DEF OtherMoved, WaitFrame, TrialFrame, Flagged, Basic, ScanOnObject, Objects,
              Boards
<1>6. CASE ScanOn
  BY <1>6 DEF ScanOn, WaitFrame, TrialFrame, Flagged, Basic, ScanOnObject, Objects
<1>7. CASE WaitTick
  BY <1>7 DEF WaitTick, TrialFrame, Flagged, locals
<1>8. CASE ShowVerdict \/ FlashOff \/ FlashOn
  BY <1>8 DEF ShowVerdict, FlashOff, FlashOn, FeedbackFrame, TrialFrame
<1>9. ASSUME NEW b \in Sensors, NEW moving \in BOOLEAN, OnDataRecv(b, moving)
      PROVE  ScanReport' /\ ReportedUnlessLast'
  BY <1>9 DEF OnDataRecv, Flagged, Waiting, status, locals, Basic, TypeOK
<1>10. CASE TimeoutElapses
  BY <1>10 DEF TimeoutElapses, Flagged, status
<1>11. CASE UNCHANGED vars
  BY <1>11 DEF vars, Flagged, status, locals
<1> QED BY <1>1, <1>2, <1>3, <1>4, <1>5, <1>6, <1>7, <1>8, <1>9, <1>10, <1>11
        DEF Next, Sketch, TestSequence

\* A verdict reports a board that was flagged in its trial, or none; the one
\* exception is a timeout when the last object was commanded or no scan was made.
THEOREM ReportsAreOfTheTrial == Spec => []ReportedUnlessLast
<1>1. Init => ScanReport /\ ReportedUnlessLast
  BY DEF Init, ScanReport, ReportedUnlessLast, FirstLookTaken, Judged, WaitPlaces,
         VerdictPlaces
<1>2. Basic /\ ScanReport /\ ReportedUnlessLast /\ [Next]_vars
        => (ScanReport /\ ReportedUnlessLast)'
  BY ReportStep
<1> QED BY <1>1, <1>2, BasicInvariant, PTL DEF Spec

(***************************************************************************)
(* What a trial does not overlook. A scan has reached board j without      *)
(* meeting one that moves, so none it has passed is steady.                *)
(***************************************************************************)
ScanMissesNoSteady ==
    /\ verdict /= "none" => Judged
    /\ pc \in WaitPlaces => steady \subseteq Flagged
    /\ pc = "others" => Commanded \notin steady /\ \A i \in 1..(j - 1) : i \notin steady
    /\ FirstLookTaken => (Objects \cup {Commanded}) \cap steady = {}

LEMMA SteadyStep ==
    ASSUME Basic, ScanReport, ScanMissesNoSteady, SteadyIsSeen, [Next]_vars
    PROVE  ScanMissesNoSteady' /\ SteadyIsSeen'
<1> USE ConstantsAssumption
        DEF ScanMissesNoSteady, SteadyIsSeen, FirstLookTaken, Unhurried, Commanded, Judged,
            WaitPlaces, VerdictPlaces, params, history
<1>1. CASE Setup \/ Loop \/ SequenceDone \/ (\E c \in Commands : DoCommand(c)) \/ EndTrial
  BY <1>1 DEF Setup, InitRadio, RadioFails, ExpanderMissing, BeginExpanders, SensorMoved,
              NextSensor, SensorsTested, Loop, InputAvailable, NoInput, NotStreaming,
              Streaming, SequenceDone, DoCommand, Ping, NTrials, Trial, TrialOutOfBounds,
              Separation, Timeout, SampleRate, StreamStop, StreamStart, Refuse, EndTrial,
              SetupFrame, LoopFrame, locals
<1>2. CASE BeginTrial
  BY <1>2 DEF BeginTrial, Flagged, TrialFrame
<1>3. CASE TimedOut
  BY <1>3 DEF TimedOut, WaitFrame, TrialFrame, ScanReport
<1>4. CASE CheckCommanded
  BY <1>4 DEF CheckCommanded, WaitFrame, TrialFrame, Flagged
<1>5. CASE OtherMoved
  BY <1>5 DEF OtherMoved, WaitFrame, TrialFrame
<1>6. CASE ScanOn
  <2>1. pc = "others" /\ j \in Objects /\ j' = j + 1 /\ j \notin steady
    BY <1>6 DEF ScanOn, Basic, ScanOnObject, Flagged
  <2>2. \A i \in 1..j : i \notin steady
    <3> TAKE i \in 1..j
    <3>1. i = j \/ i \in 1..(j - 1)
      BY <2>1 DEF Objects
    <3> QED BY <2>1, <3>1
  <2>3. Flagged' = Flagged /\ Commanded' = Commanded /\ UNCHANGED <<steady, verdict, timeout>>
    BY <1>6 DEF ScanOn, WaitFrame, TrialFrame, Flagged
  <2>4. CASE j = NOBJECTS
    BY <1>6, <2>1, <2>2, <2>3, <2>4 DEF ScanOn, Objects
  <2>5. CASE j /= NOBJECTS
    BY <1>6, <2>1, <2>2, <2>3, <2>5 DEF ScanOn, Objects
  <2> QED BY <2>4, <2>5
<1>7. CASE WaitTick
  BY <1>7 DEF WaitTick, TrialFrame, Flagged, locals
<1>8. CASE ShowVerdict \/ FlashOff \/ FlashOn
  BY <1>8 DEF ShowVerdict, FlashOff, FlashOn, FeedbackFrame, TrialFrame
<1>9. ASSUME NEW b \in Sensors, NEW moving \in BOOLEAN, OnDataRecv(b, moving)
      PROVE  ScanMissesNoSteady' /\ SteadyIsSeen'
  BY <1>9 DEF OnDataRecv, Flagged, Waiting, status, locals, Basic, TypeOK
<1>10. CASE TimeoutElapses
  BY <1>10 DEF TimeoutElapses, Flagged, status
<1>11. CASE UNCHANGED vars
  BY <1>11 DEF vars, Flagged, status, locals
<1> QED BY <1>1, <1>2, <1>3, <1>4, <1>5, <1>6, <1>7, <1>8, <1>9, <1>10, <1>11
        DEF Next, Sketch, TestSequence

\* A board that is flagged from the cue to the verdict is not overlooked.
THEOREM SteadyBoardsAreSeen == Spec => []SteadyIsSeen
<1>1. Init => ScanReport /\ ReportedUnlessLast /\ ScanMissesNoSteady /\ SteadyIsSeen
  BY DEF Init, ScanReport, ReportedUnlessLast, ScanMissesNoSteady, SteadyIsSeen,
         FirstLookTaken, Judged, WaitPlaces, VerdictPlaces
<1>2. Basic /\ ScanReport /\ ReportedUnlessLast /\ ScanMissesNoSteady /\ SteadyIsSeen
        /\ [Next]_vars
        => (ScanReport /\ ReportedUnlessLast /\ ScanMissesNoSteady /\ SteadyIsSeen)'
  BY ReportStep, SteadyStep
<1> QED BY <1>1, <1>2, BasicInvariant, PTL DEF Spec

(***************************************************************************)
(* The lamps. They are off when setup() begins, and for good if it does    *)
(* not bring them up.                                                      *)
(***************************************************************************)
DarkBeforeSetup == (pc = "setup" \/ ~radio) => lamps = AllOff

VerdictGiven ==
    /\ Judged => verdict \in {"correct", "other", "timeout"}
    /\ pc \in {"flash", "dark"} => verdict = "other"

LEMMA LampStep ==
    ASSUME Basic, DarkBeforeSetup, VerdictGiven, LampsFollowTrial, [Next]_vars
    PROVE  DarkBeforeSetup' /\ VerdictGiven' /\ LampsFollowTrial'
<1> USE DEF DarkBeforeSetup, VerdictGiven, LampsFollowTrial, Judged, LoopPlaces, WaitPlaces,
            VerdictPlaces, Lit, Only, AllOff, Commanded, params
<1>1. CASE Setup
  BY <1>1 DEF Setup, InitRadio, RadioFails, ExpanderMissing, BeginExpanders, SensorMoved,
              NextSensor, SensorsTested, Basic, TypeOK
<1>2. CASE Loop \/ \E c \in Commands : DoCommand(c)
  BY <1>2 DEF Loop, InputAvailable, NoInput, NotStreaming, Streaming, LoopFrame, DoCommand,
              Ping, NTrials, Trial, TrialOutOfBounds, Separation, Timeout, SampleRate,
              StreamStop, StreamStart, Refuse
<1>3. CASE BeginTrial
  BY <1>3 DEF BeginTrial, TrialFrame
<1>4. CASE SequenceDone \/ TimedOut \/ CheckCommanded \/ OtherMoved \/ ScanOn \/ WaitTick
  BY <1>4 DEF SequenceDone, TimedOut, CheckCommanded, OtherMoved, ScanOn, WaitTick,
              WaitFrame, TrialFrame
<1>5. CASE ShowVerdict
  <2>1. pc = "feedback" /\ verdict' = verdict /\ Commanded' = Commanded /\ radio' = radio
    BY <1>5 DEF ShowVerdict, FeedbackFrame, TrialFrame
  <2>2. lamps' = Lit(Commanded, IF verdict = "correct" THEN "green" ELSE "red")
    BY <1>5 DEF ShowVerdict
  <2>3. pc' \in VerdictPlaces
    BY <1>5 DEF ShowVerdict
  <2>4. pc' \in {"flash", "dark"} => verdict = "other"
    BY <1>5 DEF ShowVerdict
  <2> QED BY <2>1, <2>2, <2>3, <2>4
<1>6. CASE FlashOff \/ FlashOn
  BY <1>6 DEF FlashOff, FlashOn, FeedbackFrame, TrialFrame
<1>7. CASE EndTrial
  BY <1>7 DEF EndTrial
<1>8. ASSUME NEW b, NEW moving, OnDataRecv(b, moving)
      PROVE  DarkBeforeSetup' /\ VerdictGiven' /\ LampsFollowTrial'
  BY <1>8 DEF OnDataRecv, status, locals
<1>9. CASE TimeoutElapses \/ UNCHANGED vars
  BY <1>9 DEF TimeoutElapses, vars, status, locals
<1> QED BY <1>1, <1>2, <1>3, <1>4, <1>5, <1>6, <1>7, <1>8, <1>9
        DEF Next, Sketch, TestSequence

\* In a trial no lamp but the commanded object's is lit, in a colour that agrees
\* with the state of the trial; outside trials all are off.
THEOREM LampsTellTheTrial == Spec => []LampsFollowTrial
<1>1. Init => DarkBeforeSetup /\ VerdictGiven /\ LampsFollowTrial
  BY DEF Init, DarkBeforeSetup, VerdictGiven, LampsFollowTrial, Judged, LoopPlaces,
         WaitPlaces, VerdictPlaces
<1>2. Basic /\ DarkBeforeSetup /\ VerdictGiven /\ LampsFollowTrial /\ [Next]_vars
        => (DarkBeforeSetup /\ VerdictGiven /\ LampsFollowTrial)'
  BY LampStep
<1> QED BY <1>1, <1>2, BasicInvariant, PTL DEF Spec

\* The lamps at every place of a trial.
VerdictColour ==
    IF verdict = "correct" THEN "green" ELSE IF verdict = "timeout" THEN "red" ELSE "off"

TrialLamps ==
    /\ pc \in WaitPlaces \cup {"feedback"} => lamps = Only(Commanded, "blue")
    /\ pc = "flash" => lamps = Only(Commanded, "red")
    /\ pc = "dark" => lamps = AllOff
    /\ pc = "shown" => lamps = Only(Commanded, VerdictColour)

LEMMA TrialLampStep ==
    ASSUME Basic, DarkBeforeSetup, VerdictGiven, LampsFollowTrial, TrialLamps, [Next]_vars
    PROVE  TrialLamps'
<1> USE DEF TrialLamps, Commanded, WaitPlaces, params
<1>1. CASE Setup \/ Loop \/ (\E c \in Commands : DoCommand(c)) \/ SequenceDone \/ EndTrial
  BY <1>1 DEF Setup, InitRadio, RadioFails, ExpanderMissing, BeginExpanders, SensorMoved,
              NextSensor, SensorsTested, Loop, InputAvailable, NoInput, NotStreaming,
              Streaming, DoCommand, Ping, NTrials, Trial, TrialOutOfBounds, Separation,
              Timeout, SampleRate, StreamStop, StreamStart, Refuse, SequenceDone, EndTrial
<1>2. CASE BeginTrial
  BY <1>2 DEF BeginTrial, TrialFrame, Lit, Only, AllOff, LampsFollowTrial, LoopPlaces,
              DarkBeforeSetup
<1>3. CASE TimedOut \/ CheckCommanded \/ OtherMoved \/ ScanOn \/ WaitTick
  BY <1>3 DEF TimedOut, CheckCommanded, OtherMoved, ScanOn, WaitTick, WaitFrame,
              TrialFrame, Only
<1>4. CASE ShowVerdict
  <2>1. /\ pc = "feedback" /\ UNCHANGED <<radio, verdict, currentTrial, trialSequence>>
        /\ lamps' = Lit(Commanded, IF verdict = "correct" THEN "green" ELSE "red")
        /\ pc' = IF verdict = "other" THEN "flash" ELSE "shown"
    BY <1>4 DEF ShowVerdict, FeedbackFrame, TrialFrame
  <2>2. verdict \in {"correct", "other", "timeout"}
    BY <2>1 DEF VerdictGiven, Judged, VerdictPlaces
  <2>3. lamps' = Only(Commanded, IF verdict = "correct" THEN "green" ELSE "red")
    BY <2>1 DEF Lit, Only
  <2> QED BY <2>1, <2>2, <2>3 DEF Only, VerdictColour
<1>5. CASE FlashOff
  <2>1. /\ pc = "flash" /\ UNCHANGED <<radio, verdict, currentTrial, trialSequence>>
        /\ lamps' = AllOff /\ pc' \in {"dark", "shown"}
    BY <1>5 DEF FlashOff, FeedbackFrame, TrialFrame
  <2>2. verdict = "other"
    BY <2>1 DEF VerdictGiven
  <2> QED BY <2>1, <2>2 DEF Only, AllOff, VerdictColour
<1>6. CASE FlashOn
  BY <1>6 DEF FlashOn, FeedbackFrame, TrialFrame, Lit, Only, AllOff
<1>7. ASSUME NEW b, NEW moving, OnDataRecv(b, moving) PROVE TrialLamps'
  BY <1>7 DEF OnDataRecv, status, locals, Only, AllOff, VerdictColour
<1>8. CASE TimeoutElapses \/ UNCHANGED vars
  BY <1>8 DEF TimeoutElapses, vars, status, locals, Only, AllOff, VerdictColour
<1> QED BY <1>1, <1>2, <1>3, <1>4, <1>5, <1>6, <1>7, <1>8 DEF Next, Sketch, TestSequence

(***************************************************************************)
(* The experiment implements TrialProtocol, with a careful host: without   *)
(* one it could cue something that is no object. Each object has a lamp.   *)
(***************************************************************************)
Supported ==
    /\ Basic /\ Assigned /\ InBounds
    /\ DarkBeforeSetup /\ VerdictGiven /\ LampsFollowTrial /\ TrialLamps
    /\ pc \in SetupPlaces => state /= MODE_STREAM
    /\ verdict /= "none" => Judged

LEMMA SetupImplements ==
    ASSUME Supported, Setup
    PROVE  [TP!ProtocolNext]_(TP!protocolVars)
<1>1. /\ pc \in SetupPlaces /\ pc' \in SetupPlaces \cup {"loop"} /\ state' = state
      /\ UNCHANGED <<currentTrial, currentObject, boards>>
      /\ radio' = radio \/ radio' = TRUE
  BY DEF Setup, InitRadio, RadioFails, ExpanderMissing, BeginExpanders, SensorMoved,
         NextSensor, SensorsTested, SetupFrame, SetupPlaces, status
<1>2. Phase = "off" /\ Phase' = "off" /\ ~InTrial /\ ~InTrial'
  BY <1>1 DEF Supported, Phase, Judged, InTrial, SetupPlaces, WaitPlaces, VerdictPlaces
<1>3. UNCHANGED <<TrialShown, ObjectShown, CuedBox, CuedLight>>
  BY <1>2 DEF TrialShown, ObjectShown, CuedBox, CuedLight
<1> QED BY <1>1, <1>2, <1>3 DEF TP!ProtocolNext, TP!protocolVars, TP!PowerUp

LEMMA CommandImplements ==
    ASSUME Supported, Supported', NEW c \in Commands, DoCommand(c)
    PROVE  [TP!ProtocolNext]_(TP!protocolVars)
<1>1. /\ pc = "read" /\ ~InTrial /\ pc' = "mode" /\ ~InTrial'
      /\ UNCHANGED <<radio, boards, CuedBox, CuedLight>>
  <2>1. pc = "read" /\ pc' = "mode" /\ UNCHANGED <<radio, boards>>
    BY DEF DoCommand, Ping, NTrials, Trial, TrialOutOfBounds, Separation, Timeout,
           SampleRate, StreamStop, StreamStart, Refuse, Supported, InBounds
  <2> QED BY <2>1 DEF InTrial, WaitPlaces, VerdictPlaces, CuedBox, CuedLight
<1>2. /\ Phase = IF state = MODE_STREAM THEN "rest" ELSE "off"
      /\ Phase' = IF state' = MODE_STREAM THEN "rest" ELSE "off"
  BY <1>1 DEF Phase, InTrial, Judged
<1>3. CASE StreamStart(c)
  <2>1. TP!Start
    BY <1>1, <1>2, <1>3 DEF StreamStart, TP!Start, TrialShown, ObjectShown
  <2> QED BY <2>1 DEF TP!ProtocolNext
<1>4. CASE StreamStop(c)
  <2>1. Phase' = "off" /\ TrialShown' = 0 /\ ObjectShown' = 0
    BY <1>2, <1>4 DEF StreamStop, MODE_INIT, MODE_STREAM, TrialShown, ObjectShown
  <2>2. CASE Phase = "rest"
    <3>1. TP!Stop
      BY <1>1, <2>1, <2>2 DEF TP!Stop
    <3> QED BY <3>1 DEF TP!ProtocolNext
  <2>3. CASE Phase = "off"
    BY <1>1, <2>1, <2>3 DEF TP!protocolVars, TrialShown, ObjectShown
  <2> QED BY <1>2, <2>2, <2>3
<1>5. CASE ~StreamStart(c) /\ ~StreamStop(c)
  <2>1. UNCHANGED status
    BY <1>1, <1>5 DEF DoCommand, Ping, NTrials, Trial, TrialOutOfBounds, Separation,
                      Timeout, SampleRate, Refuse
  <2> QED BY <1>1, <1>2, <2>1 DEF status, TP!protocolVars, TrialShown, ObjectShown
<1> QED BY <1>3, <1>4, <1>5

LEMMA LoopImplements ==
    ASSUME Supported, Loop
    PROVE  [TP!ProtocolNext]_(TP!protocolVars)
<1>1. /\ pc \in LoopPlaces /\ pc' \in LoopPlaces
      /\ UNCHANGED <<status, radio, boards, lamps>>
  BY DEF Loop, InputAvailable, NoInput, NotStreaming, Streaming, LoopFrame, LoopPlaces
<1>2. ~InTrial /\ ~InTrial' /\ Phase' = Phase
  BY <1>1 DEF InTrial, Phase, Judged, LoopPlaces, WaitPlaces, VerdictPlaces, status
<1> QED BY <1>1, <1>2 DEF TP!protocolVars, TrialShown, ObjectShown, CuedBox, CuedLight,
                          status

\* The commanded object is an object, and the protocol shows its lamp.
LEMMA InTrialView ==
    ASSUME Supported, InTrial \/ (pc = "sequence" /\ currentTrial <= numberOfTrials)
    PROVE  /\ Commanded \in Objects /\ state = MODE_STREAM
           /\ currentTrial \in 1..numberOfTrials
<1>1. state = MODE_STREAM /\ currentTrial >= 1
  BY DEF Supported, Basic, TrialInSequence
<1>2. currentTrial \in 1..numberOfTrials
  BY <1>1, ConstantsAssumption DEF Supported, Basic, TypeOK, TrialExists, NOVALUE
<1> QED BY <1>1, <1>2 DEF Supported, Basic, TypeOK, Assigned, Commanded

LEMMA CueImplements ==
    ASSUME Supported, NOBJECTS <= NLAMPS, BeginTrial
    PROVE  TP!Cue
<1>1. Commanded \in Objects /\ state = MODE_STREAM
  BY InTrialView DEF BeginTrial
<1>2. Commanded \in Lamps
  BY <1>1, ConstantsAssumption DEF Objects, Lamps
<1>3. pc = "sequence" /\ pc' = "wait" /\ Commanded' = Commanded
      /\ UNCHANGED <<currentTrial, currentObject, state, boards, radio>>
  BY DEF BeginTrial, TrialFrame, params, Commanded
<1>4. Phase = "rest" /\ Phase' = "cue" /\ InTrial'
  BY <1>1, <1>3 DEF Phase, Judged, InTrial, WaitPlaces, VerdictPlaces
<1>5. CuedLight' = lamps'[Commanded] /\ CuedBox' = Commanded
  BY <1>2, <1>3, <1>4 DEF CuedLight, CuedBox
<1>6. lamps'[Commanded] = IF radio THEN "blue" ELSE "off"
  BY <1>2, <1>3 DEF BeginTrial, Lit, Supported, LampsFollowTrial, LoopPlaces, AllOff
<1> QED BY <1>1, <1>3, <1>4, <1>5, <1>6
        DEF TP!Cue, TP!Shows, TrialShown, ObjectShown

LEMMA WaitImplements ==
    ASSUME Supported, TimedOut \/ CheckCommanded \/ OtherMoved \/ ScanOn \/ WaitTick
    PROVE  [TP!ProtocolNext]_(TP!protocolVars)
<1>1. /\ pc \in WaitPlaces
      /\ UNCHANGED <<currentTrial, trialSequence, numberOfTrials, state, boards, radio, lamps>>
  BY DEF TimedOut, CheckCommanded, OtherMoved, ScanOn, WaitTick, WaitFrame, TrialFrame,
         WaitPlaces, params
<1>2. Commanded \in Objects /\ state = MODE_STREAM
  <2>1. InTrial
    BY <1>1 DEF InTrial
  <2> QED BY <2>1, InTrialView
<1>3. Commanded \in Boards
  BY <1>2, ConstantsAssumption DEF Objects, Boards
<1>4. \/ pc' \in WaitPlaces /\ currentObject' \in {0, currentObject}
      \/ /\ pc' = "feedback"
         /\ \/ verdict' = "timeout" /\ currentObject' = currentObject
            \/ verdict' = "correct" /\ boards[Commanded] /\ currentObject' = Commanded
            \/ /\ verdict' = "other" /\ currentObject' = j
               /\ j \in Objects \ {Commanded} /\ boards[j]
  <2>1. CASE TimedOut
    BY <2>1 DEF TimedOut
  <2>2. CASE CheckCommanded
    BY <1>3, <2>2 DEF CheckCommanded, WaitPlaces
  <2>3. CASE OtherMoved
    BY <2>3 DEF OtherMoved, Supported, Basic, ScanOnObject
  <2>4. CASE ScanOn
    BY <2>4 DEF ScanOn, WaitPlaces
  <2>5. CASE WaitTick
    BY <2>5 DEF WaitTick, WaitPlaces
  <2> QED BY <2>1, <2>2, <2>3, <2>4, <2>5
<1>5. Phase = "cue" /\ InTrial /\ InTrial' /\ Commanded' = Commanded
  BY <1>1, <1>4 DEF Phase, InTrial, WaitPlaces, VerdictPlaces, Commanded
<1>6. Phase' = IF pc' = "feedback" THEN verdict' ELSE "cue"
  BY <1>4 DEF Phase, Judged, WaitPlaces, VerdictPlaces
<1>7. UNCHANGED <<CuedBox, CuedLight, boards, radio>> /\ CuedBox = Commanded
  BY <1>1, <1>5 DEF CuedBox, CuedLight
<1>8. /\ TrialShown' = TrialShown
      /\ ObjectShown = currentObject /\ ObjectShown' = currentObject'
  BY <1>1, <1>4, <1>5, <1>6 DEF TrialShown, ObjectShown, WaitPlaces
<1>9. CASE pc' \in WaitPlaces
  <2>1. Phase' = Phase /\ ObjectShown' \in {0, ObjectShown}
    BY <1>4, <1>5, <1>6, <1>8, <1>9 DEF WaitPlaces
  <2>2. TP!Forget \/ UNCHANGED TP!protocolVars
    BY <1>5, <1>7, <1>8, <2>1 DEF TP!Forget, TP!protocolVars
  <2> QED BY <2>2 DEF TP!ProtocolNext
<1>10. CASE pc' = "feedback"
  <2>1. TP!Correct \/ TP!Other \/ TP!TimeOut
    BY <1>4, <1>5, <1>6, <1>7, <1>8, <1>10
       DEF TP!Correct, TP!Other, TP!TimeOut, TP!Judge, WaitPlaces
  <2>2. TP!Verdict
    BY <1>7, <1>8, <2>1 DEF TP!Verdict
  <2> QED BY <2>2 DEF TP!ProtocolNext
<1> QED BY <1>4, <1>9, <1>10

LEMMA FeedbackImplements ==
    ASSUME Supported, Supported', NOBJECTS <= NLAMPS, ShowVerdict \/ FlashOff \/ FlashOn
    PROVE  TP!Feedback
<1>1. /\ pc \in VerdictPlaces /\ pc' \in VerdictPlaces
      /\ UNCHANGED <<currentTrial, currentObject, trialSequence, numberOfTrials, state,
                     boards, radio, verdict>>
  BY DEF ShowVerdict, FlashOff, FlashOn, FeedbackFrame, TrialFrame, VerdictPlaces, params
<1>2. Commanded \in Objects /\ Commanded' = Commanded
  <2>1. InTrial
    BY <1>1 DEF InTrial
  <2>2. Commanded \in Objects
    BY <2>1, InTrialView
  <2>3. Commanded' = Commanded
    BY <1>1 DEF Commanded
  <2> QED BY <2>2, <2>3
<1>3. Commanded \in Lamps
  BY <1>2, ConstantsAssumption DEF Objects, Lamps
<1>4. Phase = verdict /\ Phase' = verdict /\ InTrial /\ InTrial'
  BY <1>1 DEF Phase, Judged, InTrial, WaitPlaces, VerdictPlaces
<1>5. verdict \in {"correct", "other", "timeout"}
  BY <1>1 DEF Supported, VerdictGiven, Judged
<1>6. CuedLight = lamps[Commanded] /\ CuedLight' = lamps'[Commanded]
  BY <1>2, <1>3, <1>4 DEF CuedLight
<1>7. UNCHANGED <<Phase, TrialShown, CuedBox, ObjectShown, boards, radio>>
  BY <1>1, <1>2, <1>4 DEF TrialShown, CuedBox, ObjectShown
<1>8. CASE ShowVerdict
  <2>1. lamps'[Commanded] = IF radio THEN IF verdict = "correct" THEN "green" ELSE "red"
                            ELSE "off"
    BY <1>3, <1>8 DEF ShowVerdict, Lit, Supported, DarkBeforeSetup, AllOff
  <2> QED BY <1>4, <1>5, <1>6, <1>7, <2>1 DEF TP!Feedback, TP!Shows
<1>9. CASE FlashOff
  <2>1. verdict = "other" /\ lamps[Commanded] /= "blue" /\ lamps'[Commanded] = "off"
    BY <1>3, <1>9 DEF FlashOff, Supported, VerdictGiven, TrialLamps, Only, AllOff
  <2> QED BY <1>4, <1>6, <1>7, <2>1 DEF TP!Feedback
<1>10. CASE FlashOn
  <2>1. verdict = "other" /\ lamps'[Commanded] = IF radio THEN "red" ELSE "off"
    BY <1>3, <1>10 DEF FlashOn, Supported, VerdictGiven, TrialLamps, Lit, AllOff
  <2> QED BY <1>4, <1>6, <1>7, <2>1 DEF TP!Feedback, TP!Shows
<1> QED BY <1>8, <1>9, <1>10

LEMMA EndOfTrialImplements ==
    ASSUME Supported, NOBJECTS <= NLAMPS, EndTrial
    PROVE  TP!EndOfTrial
<1>1. /\ pc = "shown" /\ pc' = "sequence" /\ currentTrial' = currentTrial + 1
      /\ UNCHANGED <<radio, state, currentObject, boards>>
  BY DEF EndTrial
<1>2. InTrial /\ Phase = verdict /\ ~InTrial'
  BY <1>1 DEF InTrial, Phase, Judged, WaitPlaces, VerdictPlaces
<1>3. Commanded \in Objects /\ state = MODE_STREAM
  BY <1>2, InTrialView
<1>4. Phase' = "rest" /\ CuedBox' = 0 /\ CuedLight' = "off"
  BY <1>1, <1>2, <1>3 DEF Phase, InTrial, Judged, CuedBox, CuedLight
<1>5. verdict \in {"correct", "other", "timeout"}
  BY <1>1 DEF Supported, VerdictGiven, Judged, VerdictPlaces
<1>6. CuedLight = lamps[Commanded] /\ Commanded \in Lamps
  BY <1>2, <1>3, ConstantsAssumption DEF CuedLight, Objects, Lamps
<1>7. radio => CuedLight = VerdictColour
  BY <1>1, <1>6 DEF Supported, TrialLamps, Only
<1>8. TrialShown' = TrialShown + 1 /\ ObjectShown' = ObjectShown
  BY <1>1, <1>2, <1>4, <1>5 DEF TrialShown, ObjectShown
<1>9. radio => CuedLight = CASE Phase = "correct" -> "green"
                             [] Phase = "timeout" -> "red"
                             [] Phase = "other" -> "off"
  BY <1>2, <1>5, <1>7 DEF VerdictColour
<1> QED BY <1>1, <1>2, <1>4, <1>5, <1>8, <1>9 DEF TP!EndOfTrial

LEMMA OutsideImplements ==
    ASSUME Supported,
           \/ \E b \in Sensors, moving \in BOOLEAN : OnDataRecv(b, moving)
           \/ TimeoutElapses \/ SequenceDone \/ UNCHANGED vars
    PROVE  [TP!ProtocolNext]_(TP!protocolVars)
<1> USE DEF Phase, TrialShown, ObjectShown, CuedBox, CuedLight, InTrial, Judged, Commanded,
            WaitPlaces, VerdictPlaces
<1>1. ASSUME NEW b \in Sensors, NEW moving \in BOOLEAN, OnDataRecv(b, moving)
      PROVE  TP!Moves(b) /\ b \in Boards
  <2>1. UNCHANGED <<Phase, TrialShown, CuedBox, CuedLight, ObjectShown, radio>>
    BY <1>1 DEF OnDataRecv, params, status, locals
  <2>2. boards' = [boards EXCEPT ![b] = moving] /\ b \in Boards
    BY <1>1, ConstantsAssumption DEF OnDataRecv
  <2> QED BY <2>1, <2>2 DEF TP!Moves
<1>2. CASE TimeoutElapses \/ SequenceDone \/ UNCHANGED vars
  BY <1>2 DEF TimeoutElapses, SequenceDone, TrialFrame, vars, params, status, locals,
              TP!protocolVars
<1> QED BY <1>1, <1>2 DEF TP!ProtocolNext

LEMMA StepImplements ==
    ASSUME Supported, Supported', NOBJECTS <= NLAMPS, [Next]_vars
    PROVE  [TP!ProtocolNext]_(TP!protocolVars)
<1>1. CASE Setup
  BY <1>1, SetupImplements
<1>2. CASE Loop
  BY <1>2, LoopImplements
<1>3. CASE \E c \in Commands : DoCommand(c)
  BY <1>3, CommandImplements
<1>4. CASE BeginTrial
  BY <1>4, CueImplements DEF TP!ProtocolNext
<1>5. CASE TimedOut \/ CheckCommanded \/ OtherMoved \/ ScanOn \/ WaitTick
  BY <1>5, WaitImplements
<1>6. CASE ShowVerdict \/ FlashOff \/ FlashOn
  BY <1>6, FeedbackImplements DEF TP!ProtocolNext
<1>7. CASE EndTrial
  BY <1>7, EndOfTrialImplements DEF TP!ProtocolNext
<1>8. CASE \/ \E b \in Sensors, moving \in BOOLEAN : OnDataRecv(b, moving)
           \/ TimeoutElapses \/ SequenceDone \/ UNCHANGED vars
  BY <1>8, OutsideImplements
<1> QED BY <1>1, <1>2, <1>3, <1>4, <1>5, <1>6, <1>7, <1>8 DEF Next, Sketch, TestSequence

LEMMA SupportedInit == Init => Supported
<1> SUFFICES ASSUME Init PROVE Supported
  OBVIOUS
<1> USE DEF Init, SetupPlaces, LoopPlaces, WaitPlaces, VerdictPlaces, Judged, NOVALUE,
            MODE_STREAM
<1>1. Basic
  BY BasicInit
<1>2. Assigned /\ InBounds
  BY DEF Assigned, InBounds
<1>3. DarkBeforeSetup /\ VerdictGiven /\ LampsFollowTrial /\ TrialLamps
  BY DEF DarkBeforeSetup, VerdictGiven, LampsFollowTrial, TrialLamps
<1> QED BY <1>1, <1>2, <1>3 DEF Supported

LEMMA SupportedStep ==
    ASSUME CarefulHost, Supported, [Next]_vars
    PROVE  Supported'
<1>1. Basic' /\ Assigned' /\ InBounds'
  BY BasicStep, CarefulStep DEF Supported
<1>2. DarkBeforeSetup' /\ VerdictGiven' /\ LampsFollowTrial' /\ TrialLamps'
  BY LampStep, TrialLampStep DEF Supported
<1>3. (pc' \in SetupPlaces => state' /= MODE_STREAM) /\ (verdict' /= "none" => Judged')
  <2> USE DEF Supported, SetupPlaces, Judged, VerdictPlaces
  <2>1. CASE Setup
    BY <2>1 DEF Setup, InitRadio, RadioFails, ExpanderMissing, BeginExpanders, SensorMoved,
                NextSensor, SensorsTested, SetupFrame, status
  <2>2. CASE Loop \/ \E c \in Commands : DoCommand(c)
    BY <2>2 DEF Loop, InputAvailable, NoInput, NotStreaming, Streaming, LoopFrame, locals,
                DoCommand, Ping, NTrials, Trial, TrialOutOfBounds, Separation, Timeout,
                SampleRate, StreamStop, StreamStart, Refuse
  <2>3. CASE TestSequence
    BY <2>3 DEF TestSequence, BeginTrial, SequenceDone, TimedOut, CheckCommanded,
                OtherMoved, ScanOn, WaitTick, ShowVerdict, FlashOff, FlashOn, EndTrial,
                WaitFrame, FeedbackFrame, locals
  <2>4. ASSUME NEW b, NEW moving, OnDataRecv(b, moving)
        PROVE  (pc' \in SetupPlaces => state' /= MODE_STREAM)
               /\ (verdict' /= "none" => Judged')
    BY <2>4 DEF OnDataRecv, status, locals
  <2>5. CASE TimeoutElapses \/ UNCHANGED vars
    BY <2>5 DEF TimeoutElapses, vars, status, locals
  <2> QED BY <2>1, <2>2, <2>3, <2>4, <2>5 DEF Next, Sketch
<1> QED BY <1>1, <1>2, <1>3 DEF Supported

LEMMA InitImplements == Init => TP!ProtocolInit
BY DEF Init, TP!ProtocolInit, Phase, TrialShown, ObjectShown, CuedBox, CuedLight, InTrial,
       Judged, WaitPlaces, VerdictPlaces, NOVALUE, MODE_STREAM

\* The sketch implements the protocol of a trial: each cued object gets exactly one
\* verdict, on a board that moves at that moment, and sees it before the next cue.
THEOREM ExperimentImplementsProtocol ==
    ASSUME CarefulHost, NOBJECTS <= NLAMPS
    PROVE  Spec => ImplementsProtocol
<1>1. Supported /\ [Next]_vars => Supported'
  BY SupportedStep
<1>2. Supported /\ Supported' /\ [Next]_vars => [TP!ProtocolNext]_(TP!protocolVars)
  BY StepImplements
<1> QED BY SupportedInit, InitImplements, <1>1, <1>2, PTL
        DEF Spec, ImplementsProtocol, TP!Protocol

(***************************************************************************)
(* Answers. What fits into a packet is written, and all that a command     *)
(* carries out but the object of a trial fits: a command without an answer *)
(* was refused, or is a trial of an object that no packet names.           *)
(***************************************************************************)
LEMMA FittingIsWritten ==
    ASSUME NEW cmd \in PING..STREAM, NEW id \in 0..NOBJECTS, NEW data \in 0..MaxData
    PROVE  WritePacket(cmd, id, data) /= {}
<1>1. [cmd |-> cmd, id |-> id, data |-> data] \in WritePacket(cmd, id, data)
  BY DEF WritePacket
<1> QED BY <1>1

LEMMA SilentCommand ==
    ASSUME NEW c \in Commands, DoCommand(c), out' = {}, pc' /= "undefined"
    PROVE  UNCHANGED <<status, params, tasks>> \/ StoredUnanswered(c)
<1>1. c.data \in 0..MaxData /\ 0 \in 0..NOBJECTS /\ 0 \in 0..MaxData /\ c.id \in 0..15
  BY ConstantsAssumption DEF Digit
<1>2. {PING, NTRIALS, TRIAL, SEPARATION, TIMEOUT, SAMPLERATE, STREAM} \subseteq PING..STREAM
  BY DEF PING, NTRIALS, TRIAL, SEPARATION, TIMEOUT, SAMPLERATE, STREAM
<1>3. CASE Ping(c) \/ TrialOutOfBounds(c) \/ Refuse(c)
  BY <1>3 DEF Ping, TrialOutOfBounds, Refuse
<1>4. CASE NTrials(c) \/ Separation(c) \/ Timeout(c) \/ SampleRate(c)
  <2>1. \A cmd \in PING..STREAM : WritePacket(cmd, 0, c.data) /= {}
    BY <1>1, FittingIsWritten
  <2> QED BY <1>2, <1>4, <2>1 DEF NTrials, Separation, Timeout, SampleRate
<1>5. CASE Trial(c)
  <2>1. ASSUME ~(c.id > NOBJECTS) PROVE FALSE
    <3>1. c.id \in 0..NOBJECTS
      BY <1>1, <2>1, ConstantsAssumption
    <3>2. WritePacket(TRIAL, c.id, c.data) /= {}
      BY <1>1, <1>2, <3>1, FittingIsWritten
    <3> QED BY <1>5, <3>2 DEF Trial
  <2> QED BY <1>5, <2>1 DEF Trial, StoredUnanswered
<1>6. CASE StreamStop(c) \/ StreamStart(c)
  <2>1. MODE_INIT \in 0..MaxData
    BY <1>1 DEF MODE_INIT
  <2>2. StreamStart(c) => MODE_STREAM \in 0..MaxData
    BY <1>1 DEF StreamStart, MODE_STREAM
  <2>3. \A data \in 0..MaxData : WritePacket(STREAM, 0, data) /= {}
    BY <1>1, <1>2, FittingIsWritten
  <2> QED BY <1>6, <2>1, <2>2, <2>3 DEF StreamStop, StreamStart
<1> QED BY <1>3, <1>4, <1>5, <1>6 DEF DoCommand

\* Whatever the computer sends, and whenever: a command without an answer has changed
\* nothing, or has stored an object that does not fit into a packet, and only that.
THEOREM SilentCommandsAreRefused == Spec => SilenceMeansRefused
<1>1. pc' = "mode" /\ out' = {} =>
         \A c \in Commands : DoCommand(c) =>
             UNCHANGED <<status, params, tasks>> \/ StoredUnanswered(c)
  BY SilentCommand
<1> QED BY <1>1, PTL DEF SilenceMeansRefused

(***************************************************************************)
(* The trials come to an end, but for the wait: a measure that every step  *)
(* of TestSequence lowers. That it is never negative rests on the bounds   *)
(* of the loop variable in the scan and in the flashes.                    *)
(***************************************************************************)
FlashCounted ==
    /\ pc = "flash" => j \in 1..FLASHES
    /\ pc = "dark" => j \in 1..(FLASHES - 1)

StepsAre ==
    /\ pc = "sequence" => StepsLeft = 2 * FLASHES + NOBJECTS + 4
    /\ pc = "wait" /\ elapsed => StepsLeft = 2 * FLASHES + 1
    /\ pc = "wait" /\ ~elapsed => StepsLeft = 2 * FLASHES + (NOBJECTS + 3)
    /\ pc = "others" => StepsLeft = 2 * FLASHES + NOBJECTS + 3 - j
    /\ pc = "tick" => StepsLeft = 2 * FLASHES + 2
    /\ pc = "feedback" => StepsLeft = 2 * FLASHES
    /\ pc = "flash" => StepsLeft = 2 * (FLASHES - j) + 1
    /\ pc = "dark" => StepsLeft = 2 * (FLASHES - j)
    /\ pc \in {"shown", "undefined"} => StepsLeft = 0

LEMMA StepsLeftIs == StepsAre
<1>1. pc = "sequence" => StepsLeft = 2 * FLASHES + NOBJECTS + 4
  BY DEF StepsLeft
<1>2. pc = "wait" /\ elapsed => StepsLeft = 2 * FLASHES + 1
  BY DEF StepsLeft
<1>2a. pc = "wait" /\ ~elapsed => StepsLeft = 2 * FLASHES + (NOBJECTS + 3)
  BY DEF StepsLeft
<1>3. pc = "others" => StepsLeft = 2 * FLASHES + NOBJECTS + 3 - j
  BY DEF StepsLeft
<1>4. pc = "tick" => StepsLeft = 2 * FLASHES + 2
  BY DEF StepsLeft
<1>5. pc = "feedback" => StepsLeft = 2 * FLASHES
  BY DEF StepsLeft
<1>6. pc = "flash" => StepsLeft = 2 * (FLASHES - j) + 1
  BY DEF StepsLeft
<1>7. pc = "dark" => StepsLeft = 2 * (FLASHES - j)
  BY DEF StepsLeft
<1>8. pc \in {"shown", "undefined"} => StepsLeft = 0
  BY DEF StepsLeft
<1> QED BY <1>1, <1>2, <1>2a, <1>3, <1>4, <1>5, <1>6, <1>7, <1>8 DEF StepsAre

LEMMA FlashStep == Basic /\ FlashCounted /\ [Next]_vars => FlashCounted'
<1> SUFFICES ASSUME Basic, FlashCounted, [Next]_vars PROVE FlashCounted'
  OBVIOUS
<1> USE DEF FlashCounted
<1>1. CASE pc' /= "flash" /\ pc' /= "dark"
  BY <1>1
<1>2. CASE pc' = pc /\ j' = j
  BY <1>2
<1>3. CASE Setup
  BY <1>1, <1>3 DEF Setup, InitRadio, RadioFails, ExpanderMissing, BeginExpanders,
                    SensorMoved, NextSensor, SensorsTested
<1>4. ASSUME NEW c \in Commands, DoCommand(c) PROVE pc' = "mode" \/ pc' = "undefined"
  BY <1>4 DEF DoCommand, Ping, NTrials, Trial, TrialOutOfBounds, Separation, Timeout,
              SampleRate, StreamStop, StreamStart, Refuse
<1>5. CASE Loop
  BY <1>1, <1>5 DEF Loop, InputAvailable, NoInput, NotStreaming, Streaming
<1>6. CASE BeginTrial \/ SequenceDone \/ TimedOut \/ CheckCommanded \/ OtherMoved
           \/ ScanOn \/ WaitTick \/ EndTrial
  BY <1>1, <1>6 DEF BeginTrial, SequenceDone, TimedOut, CheckCommanded, OtherMoved,
                    ScanOn, WaitTick, EndTrial
<1>7. CASE ShowVerdict
  BY <1>7, ConstantsAssumption DEF ShowVerdict
<1>8. CASE FlashOff
  BY <1>8, ConstantsAssumption DEF FlashOff
<1>9. CASE FlashOn
  BY <1>9, ConstantsAssumption DEF FlashOn
<1>10. CASE TimeoutElapses \/ UNCHANGED vars
  BY <1>2, <1>10 DEF TimeoutElapses, vars, locals
<1>11. ASSUME NEW b \in Sensors, NEW moving \in BOOLEAN, OnDataRecv(b, moving)
       PROVE  pc' = pc /\ j' = j
  BY <1>11 DEF OnDataRecv, locals
<1> QED BY <1>1, <1>2, <1>3, <1>4, <1>5, <1>6, <1>7, <1>8, <1>9, <1>10, <1>11
        DEF Next, Sketch, TestSequence

LEMMA FlashHolds == Spec => []FlashCounted
<1>1. Init => FlashCounted
  BY DEF Init, FlashCounted
<1> QED BY <1>1, FlashStep, BasicInvariant, PTL DEF Spec

LEMMA StepsBounded ==
    ASSUME Basic, FlashCounted, pc = "sequence" \/ InTrial
    PROVE  StepsLeft \in 0..(2 * FLASHES + NOBJECTS + 4)
<1>1. NOBJECTS \in Nat /\ FLASHES \in Nat
  BY ConstantsAssumption
<1>2. pc = "others" => j \in Int /\ j >= 1 /\ j <= NOBJECTS
  BY <1>1 DEF Basic, ScanOnObject, Objects
<1>3. pc = "flash" \/ pc = "dark" => j \in Int /\ j >= 1 /\ j <= FLASHES
  BY <1>1 DEF FlashCounted
<1>4. elapsed = TRUE \/ elapsed = FALSE
  BY DEF Basic, TypeOK
<1> QED BY <1>1, <1>2, <1>3, <1>4, StepsLeftIs
        DEF StepsAre, InTrial, WaitPlaces, VerdictPlaces

\* Each step of TestSequence is one ahead, or one round more of the wait.
LEMMA TrialAdvances ==
    ASSUME Basic, FlashCounted, StepsAre', TestSequence
    PROVE  /\ numberOfTrials' = numberOfTrials
           /\ \/ pc = "sequence" /\ pc' = "loop"
              \/ currentTrial < numberOfTrials + 1 /\ currentTrial' = currentTrial + 1
              \/ currentTrial' = currentTrial /\ StepsLeft' < StepsLeft
              \/ currentTrial' = currentTrial /\ pc = "tick" /\ ~elapsed
<1>0. /\ NOBJECTS \in Nat /\ FLASHES \in Nat /\ FLASHES > 0 /\ NOBJECTS > 0
      /\ elapsed \in BOOLEAN
  BY ConstantsAssumption DEF Basic, TypeOK
<1> USE <1>0, StepsLeftIs DEF StepsAre
<1>1. CASE BeginTrial
  <2>1. pc = "sequence" /\ pc' = "wait" /\ elapsed' \in BOOLEAN
    BY <1>1 DEF BeginTrial
  <2> QED BY <1>1, <2>1 DEF BeginTrial, TrialFrame, params
<1>2. CASE SequenceDone
  BY <1>2 DEF SequenceDone, TrialFrame, params
<1>3. CASE TimedOut
  BY <1>3 DEF TimedOut, WaitFrame, TrialFrame, params
<1>4. CASE CheckCommanded
  <2>1. pc = "wait" /\ ~elapsed /\ numberOfTrials' = numberOfTrials
        /\ currentTrial' = currentTrial
    BY <1>4 DEF CheckCommanded, WaitFrame, TrialFrame, params
  <2>2. pc' = "undefined" \/ pc' = "feedback" \/ (pc' = "others" /\ j' = 1)
    BY <1>4, Zenon DEF CheckCommanded
  <2> QED BY <2>1, <2>2
<1>5. CASE OtherMoved
  <2>1. j \in Int /\ j <= NOBJECTS
    BY <1>5 DEF OtherMoved, Basic, ScanOnObject, Objects
  <2> QED BY <1>5, <2>1 DEF OtherMoved, WaitFrame, TrialFrame, params
<1>6. CASE ScanOn
  <2>1. j \in Int /\ j <= NOBJECTS
    BY <1>6 DEF ScanOn, Basic, ScanOnObject, Objects
  <2> QED BY <1>6, <2>1 DEF ScanOn, WaitFrame, TrialFrame, params
<1>7. CASE WaitTick
  BY <1>7 DEF WaitTick, TrialFrame, params, locals
<1>8. CASE ShowVerdict
  BY <1>8 DEF ShowVerdict, FeedbackFrame, TrialFrame, params
<1>9. CASE FlashOff
  <2>1. j \in Int /\ j <= FLASHES
    BY <1>9 DEF FlashOff, FlashCounted
  <2> QED BY <1>9, <2>1 DEF FlashOff, FeedbackFrame, TrialFrame, params
<1>10. CASE FlashOn
  <2>1. j \in Int /\ j <= FLASHES
    BY <1>10 DEF FlashOn, FlashCounted
  <2> QED BY <1>10, <2>1 DEF FlashOn, FeedbackFrame, TrialFrame, params
<1>11. CASE EndTrial
  <2>1. currentTrial \in 1..numberOfTrials /\ numberOfTrials \in Int
    BY <1>11 DEF EndTrial, Basic, TypeOK, TrialExists, InTrial, VerdictPlaces, NOVALUE
  <2> QED BY <1>11, <2>1 DEF EndTrial, params
<1> QED BY <1>1, <1>2, <1>3, <1>4, <1>5, <1>6, <1>7, <1>8, <1>9, <1>10, <1>11
        DEF TestSequence

\* Nothing that happens beside TestSequence sets it back.
LEMMA BesideTrial ==
    ASSUME Basic, StepsAre', [Next]_vars, ~TestSequence, pc = "sequence" \/ InTrial
    PROVE  /\ numberOfTrials' = numberOfTrials /\ currentTrial' = currentTrial
           /\ StepsLeft' <= StepsLeft
           /\ elapsed => elapsed'
<1>0. /\ NOBJECTS \in Nat /\ FLASHES \in Nat /\ elapsed \in BOOLEAN /\ j \in Nat
      /\ pc \in {"sequence", "wait", "others", "tick", "feedback", "flash", "dark", "shown"}
  BY ConstantsAssumption DEF Basic, TypeOK, InTrial, WaitPlaces, VerdictPlaces
<1>1. /\ UNCHANGED <<pc, j, numberOfTrials, currentTrial>>
      /\ elapsed' = elapsed \/ elapsed' = TRUE
  <2>1. ~Setup
    BY <1>0 DEF Setup, InitRadio, RadioFails, ExpanderMissing, BeginExpanders,
                SensorMoved, NextSensor, SensorsTested
  <2>2. ~Loop
    BY <1>0 DEF Loop, InputAvailable, NoInput, NotStreaming, Streaming
  <2>3. ~ \E c \in Commands : DoCommand(c)
    BY <1>0 DEF DoCommand
  <2>4. ASSUME NEW b \in Sensors, NEW moving \in BOOLEAN, OnDataRecv(b, moving)
        PROVE  UNCHANGED <<pc, j, numberOfTrials, currentTrial, elapsed>>
    BY <2>4 DEF OnDataRecv, status, params, locals
  <2>5. CASE TimeoutElapses
    BY <2>5 DEF TimeoutElapses, status, params
  <2>6. CASE UNCHANGED vars
    BY <2>6 DEF vars, status, params, locals
  <2> QED BY <2>1, <2>2, <2>3, <2>4, <2>5, <2>6 DEF Next, Sketch
<1>2. StepsLeft' <= StepsLeft
  <2>1. CASE pc = "wait"
    BY <1>0, <1>1, <2>1, StepsLeftIs DEF StepsAre
  <2>2. CASE pc = "others"
    BY <1>0, <1>1, <2>2, StepsLeftIs DEF StepsAre
  <2>3. CASE pc \in {"flash", "dark"}
    BY <1>0, <1>1, <2>3, StepsLeftIs DEF StepsAre
  <2>4. CASE pc \in {"sequence", "tick", "feedback", "shown"}
    BY <1>0, <1>1, <2>4, StepsLeftIs DEF StepsAre
  <2> QED BY <1>0, <2>1, <2>2, <2>3, <2>4
<1> QED BY <1>1, <1>2

\* In a trial the timeout, once over, stays so.
LEMMA TimeStaysOver ==
    ASSUME TestSequence, InTrial, InTrial', elapsed
    PROVE  elapsed'
BY DEF TestSequence, BeginTrial, SequenceDone, TimedOut, CheckCommanded, OtherMoved,
       ScanOn, WaitTick, ShowVerdict, FlashOff, FlashOn, EndTrial, WaitFrame, FeedbackFrame,
       locals, InTrial, WaitPlaces, VerdictPlaces

\* For any host and any boards: nothing but the wait for a timeout holds the trials
\* up. With the clock that advances, this is why they end (TestSequence of
\* src/Reciver/Reciver.ino, lines 700 to 747).
THEOREM TrialsComeNearerTheirEnd == Spec => TrialsAdvance
<1>1. ASSUME Basic, FlashCounted, StepsAre', [Next]_vars, pc = "sequence" \/ InTrial
      PROVE  /\ StepsLeft \in 0..(2 * FLASHES + NOBJECTS + 4)
             /\ numberOfTrials' = numberOfTrials
             /\ TestSequence =>
                    \/ pc = "sequence" /\ pc' = "loop"
                    \/ currentTrial < numberOfTrials + 1 /\ currentTrial' = currentTrial + 1
                    \/ currentTrial' = currentTrial /\ StepsLeft' < StepsLeft
                    \/ currentTrial' = currentTrial /\ pc = "tick" /\ ~elapsed
             /\ ~TestSequence => currentTrial' = currentTrial /\ StepsLeft' <= StepsLeft
             /\ InTrial /\ elapsed /\ InTrial' => elapsed'
  BY <1>1, StepsBounded, TrialAdvances, BesideTrial, TimeStaysOver
<1>2. Basic /\ FlashCounted /\ StepsAre' /\ [Next]_vars
      => [pc = "sequence" \/ InTrial =>
             /\ StepsLeft \in 0..(2 * FLASHES + NOBJECTS + 4)
             /\ numberOfTrials' = numberOfTrials
             /\ TestSequence =>
                    \/ pc = "sequence" /\ pc' = "loop"
                    \/ currentTrial < numberOfTrials + 1 /\ currentTrial' = currentTrial + 1
                    \/ currentTrial' = currentTrial /\ StepsLeft' < StepsLeft
                    \/ currentTrial' = currentTrial /\ pc = "tick" /\ ~elapsed
             /\ ~TestSequence => currentTrial' = currentTrial /\ StepsLeft' <= StepsLeft
             /\ InTrial /\ elapsed /\ InTrial' => elapsed']_vars
  BY <1>1
<1> QED BY <1>2, StepsLeftIs, BasicInvariant, FlashHolds, PTL DEF Spec, TrialsAdvance

(***************************************************************************)
(* The sensor test. A board that sends nothing is never flagged, and the   *)
(* test does not get past its lamp.                                        *)
(***************************************************************************)
SilentUnflagged == \A b \in Boards \ Sensors : ~boards[b]

TestStopsAt(l) ==
    /\ radio => pc \in SetupPlaces \ {"setup"}
    /\ pc = "sensorTest" => j <= l
    /\ pc = "sensorSeen" => j < l

LEMMA SilentStep == TypeOK /\ SilentUnflagged /\ [Next]_vars => SilentUnflagged'
<1> SUFFICES ASSUME TypeOK, SilentUnflagged, [Next]_vars PROVE SilentUnflagged'
  OBVIOUS
<1>1. CASE \E b \in Sensors, moving \in BOOLEAN : OnDataRecv(b, moving)
  BY <1>1 DEF OnDataRecv, SilentUnflagged, TypeOK
<1>2. CASE UNCHANGED boards
  BY <1>2 DEF SilentUnflagged
<1>3. CASE Setup
  BY <1>2, <1>3 DEF Setup, InitRadio, RadioFails, ExpanderMissing, BeginExpanders,
                    SensorMoved, NextSensor, SensorsTested, SetupFrame
<1>4. CASE Loop
  BY <1>2, <1>4 DEF Loop, InputAvailable, NoInput, NotStreaming, Streaming, LoopFrame
<1>5. CASE \E c \in Commands : DoCommand(c)
  BY <1>2, <1>5 DEF DoCommand
<1>6. CASE TestSequence
  BY <1>2, <1>6 DEF TestSequence, BeginTrial, SequenceDone, TimedOut, CheckCommanded,
                    OtherMoved, ScanOn, WaitTick, ShowVerdict, FlashOff, FlashOn, EndTrial,
                    TrialFrame, WaitFrame, FeedbackFrame
<1>7. CASE TimeoutElapses \/ UNCHANGED vars
  BY <1>2, <1>7 DEF TimeoutElapses, vars
<1> QED BY <1>1, <1>3, <1>4, <1>5, <1>6, <1>7 DEF Next, Sketch

LEMMA TestStopsStep ==
    ASSUME NEW l \in Lamps, l \notin Sensors
    PROVE  TypeOK /\ SilentUnflagged /\ TestStopsAt(l) /\ [Next]_vars => TestStopsAt(l)'
<1> SUFFICES ASSUME TypeOK, SilentUnflagged, TestStopsAt(l), [Next]_vars
             PROVE  TestStopsAt(l)'
  OBVIOUS
<1>1. /\ l \in Nat /\ l <= NLAMPS /\ NLAMPS \in Nat /\ l \in Boards /\ j \in Nat
      /\ ~boards[l]
  BY ConstantsAssumption DEF TypeOK, SilentUnflagged, Lamps, Boards
<1> USE DEF TestStopsAt, SetupPlaces
<1>2. CASE Setup
  <2>1. CASE InitRadio \/ RadioFails \/ ExpanderMissing
    BY <2>1 DEF InitRadio, RadioFails, ExpanderMissing
  <2>2. CASE BeginExpanders
    BY <1>1, <2>2 DEF BeginExpanders, Lamps
  <2>3. CASE SensorMoved
    <3>1. j <= l /\ j' = j /\ boards[j]
      BY <2>3 DEF SensorMoved
    <3>2. j /= l
      BY <1>1, <3>1
    <3>3. j' < l
      BY <1>1, <3>1, <3>2
    <3> QED BY <2>3, <3>3 DEF SensorMoved
  <2>4. CASE NextSensor \/ SensorsTested
    BY <1>1, <2>4 DEF NextSensor, SensorsTested
  <2> QED BY <1>2, <2>1, <2>2, <2>3, <2>4 DEF Setup
<1>3. CASE Loop
  BY <1>3 DEF Loop, InputAvailable, NoInput, NotStreaming, Streaming, LoopFrame
<1>4. CASE \E c \in Commands : DoCommand(c)
  BY <1>4 DEF DoCommand, Ping, NTrials, Trial, TrialOutOfBounds, Separation, Timeout,
              SampleRate, StreamStop, StreamStart, Refuse
<1>5. CASE TestSequence
  <2>1. pc \notin SetupPlaces /\ radio' = radio
    BY <1>5 DEF TestSequence, BeginTrial, SequenceDone, TimedOut, CheckCommanded,
                OtherMoved, ScanOn, WaitTick, ShowVerdict, FlashOff, FlashOn, EndTrial,
                TrialFrame, WaitFrame, FeedbackFrame
  <2>2. pc' /= "sensorTest" /\ pc' /= "sensorSeen"
    BY <1>5 DEF TestSequence, BeginTrial, SequenceDone, TimedOut, CheckCommanded,
                OtherMoved, ScanOn, WaitTick, ShowVerdict, FlashOff, FlashOn, EndTrial
  <2> QED BY <2>1, <2>2
<1>6. CASE \E b \in Sensors, moving \in BOOLEAN : OnDataRecv(b, moving)
  BY <1>6 DEF OnDataRecv, locals
<1>7. CASE TimeoutElapses \/ UNCHANGED vars
  BY <1>7 DEF TimeoutElapses, vars, locals
<1> QED BY <1>2, <1>3, <1>4, <1>5, <1>6, <1>7 DEF Next, Sketch

\* One lamp whose board sends nothing is enough: with the radio up, the receiver never
\* leaves setup() and never hears the computer (sensor_test of src/Reciver/Reciver.ino,
\* lines 674 to 688, which waits for 12 boards whatever the experiment has).
THEOREM SilentBoardKeepsSetup ==
    ASSUME NEW l \in Lamps, l \notin Sensors
    PROVE  Spec => [](radio => pc \in SetupPlaces)
<1>1. Init => SilentUnflagged /\ TestStopsAt(l)
  BY DEF Init, SilentUnflagged, TestStopsAt, Boards
<1>2. TypeOK /\ SilentUnflagged /\ TestStopsAt(l) /\ [Next]_vars
      => SilentUnflagged' /\ TestStopsAt(l)'
  BY SilentStep, TestStopsStep
<1>3. TestStopsAt(l) => (radio => pc \in SetupPlaces)
  BY DEF TestStopsAt
<1> QED BY <1>1, <1>2, <1>3, TypeCorrect, PTL DEF Spec
=============================================================================
