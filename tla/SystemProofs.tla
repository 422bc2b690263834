---------------------------- MODULE SystemProofs ----------------------------
(***************************************************************************)
(* Theorems about System, for every number of boards and senders, every    *)
(* assignment of ids and all commands.                                     *)
(***************************************************************************)
EXTENDS System, ExperimentProofs, SequenceTheorems

LinkProofs == INSTANCE MotionLinkProofs WITH listening <- radio

(***************************************************************************)
(* What is proved of the parts holds of the whole: every step of the       *)
(* system is a step of Experiment or none, and of MotionLink or none.      *)
(***************************************************************************)
LEMMA SystemStepIsReceiverStep == SystemNext => [Next]_vars
<1> SUFFICES ASSUME SystemNext PROVE [Next]_vars
  OBVIOUS
<1>1. CASE Runs \/ Obeys \/ ClockRuns
  BY <1>1 DEF Runs, Obeys, ClockRuns, Next, Sketch
<1>2. ASSUME NEW s \in Senders, SensorBoard(s) \/ GivesUp(s) PROVE UNCHANGED vars
  BY <1>2 DEF SensorBoard, GivesUp
<1>3. ASSUME NEW s \in Senders, Arrives(s) PROVE Next
  <2>1. IdOf[s] \in Sensors /\ (Head(air[s]) = 1) \in BOOLEAN
    BY SystemAssumption
  <2> QED BY <1>3, <2>1 DEF Arrives, Next
<1> QED BY <1>1, <1>2, <1>3 DEF SystemNext

\* Every behaviour of the system is a behaviour of Experiment.
THEOREM SystemIsExperiment == SystemSpec => Spec
<1>1. SystemInit => Init
  BY DEF SystemInit
<1>2. [SystemNext]_systemVars => [Next]_vars
  BY SystemStepIsReceiverStep DEF systemVars
<1> QED BY <1>1, <1>2, PTL DEF SystemSpec, Spec

\* The sketch never writes boardsStruct, and it switches the radio on, never off.
LEMMA SketchKeepsBoards ==
    ASSUME Sketch \/ TimeoutElapses
    PROVE  boards' = boards /\ (radio' = radio \/ radio' = TRUE)
<1>1. CASE Setup
  BY <1>1 DEF Setup, InitRadio, RadioFails, ExpanderMissing, BeginExpanders, SensorMoved,
              NextSensor, SensorsTested, SetupFrame
<1>2. CASE Loop
  BY <1>2 DEF Loop, InputAvailable, NoInput, NotStreaming, Streaming, LoopFrame
<1>3. CASE \E c \in Commands : DoCommand(c)
  BY <1>3 DEF DoCommand
<1>4. CASE TestSequence
  BY <1>4 DEF TestSequence, BeginTrial, SequenceDone, TimedOut, CheckCommanded, OtherMoved,
              ScanOn, WaitTick, ShowVerdict, FlashOff, FlashOn, EndTrial, TrialFrame,
              WaitFrame, FeedbackFrame
<1>5. CASE TimeoutElapses
  BY <1>5 DEF TimeoutElapses
<1> QED BY <1>1, <1>2, <1>3, <1>4, <1>5 DEF Sketch

LEMMA SystemStepIsLinkStep == TypeOK /\ SystemNext => [Link!Next]_(Link!vars)
<1> SUFFICES ASSUME TypeOK, SystemNext PROVE [Link!Next]_(Link!vars)
  OBVIOUS
<1>1. CASE Runs \/ Obeys \/ ClockRuns
  <2>1. UNCHANGED sensors /\ boards' = boards /\ (radio' = radio \/ radio' = TRUE)
    BY <1>1, SketchKeepsBoards DEF Runs, Obeys, ClockRuns, Sketch
  <2>2. CASE radio' = radio
    BY <2>1, <2>2 DEF sensors, Link!vars, Link!sender, Link!receiver
  <2>3. CASE radio' /= radio
    BY <2>1, <2>3 DEF TypeOK, sensors, Link!Next, Link!ReceiverStart, Link!sender
  <2> QED BY <2>2, <2>3
<1>2. ASSUME NEW s \in Senders, SensorBoard(s) \/ GivesUp(s) \/ Arrives(s)
      PROVE  Link!Next
  BY <1>2 DEF SensorBoard, GivesUp, Arrives, Link!Next
<1> QED BY <1>1, <1>2 DEF SystemNext

\* Every behaviour of the system is a behaviour of MotionLink.
THEOREM SystemIsLink == SystemSpec => Link!Spec
<1>1. SystemInit => Link!Init
  BY DEF SystemInit
<1>2. TypeOK /\ [SystemNext]_systemVars => [Link!Next]_(Link!vars)
  <2>1. UNCHANGED systemVars => UNCHANGED Link!vars
    BY DEF systemVars, sensors, vars, Link!vars, Link!sender, Link!receiver
  <2> QED BY <2>1, SystemStepIsLinkStep
<1> QED BY <1>1, <1>2, SystemIsExperiment, TypeCorrect, PTL DEF SystemSpec, Link!Spec

(***************************************************************************)
(* The theorems of MotionLinkProofs speak of their own instance of         *)
(* MotionLink, which has the same definitions.                             *)
(***************************************************************************)
LEMMA SameInit == Link!Init => LinkProofs!Init
BY DEF Link!Init, LinkProofs!Init, Link!Boards, LinkProofs!Boards, Link!NOVALUE,
       LinkProofs!NOVALUE

LEMMA SameStep == [Link!Next]_(Link!vars) => [LinkProofs!Next]_(LinkProofs!vars)
BY DEF Link!Next, Link!vars, Link!sender, Link!receiver, Link!Boards, Link!NOVALUE,
       Link!InitRadio, Link!BeginSensor, Link!Calibrated, Link!SenderRestart, Link!Loop,
       Link!Send, Link!GiveUp, Link!OnDataRecv, Link!ReceiverStart,
       Link!ReceiverRestart,
       LinkProofs!Next, LinkProofs!vars, LinkProofs!sender, LinkProofs!receiver,
       LinkProofs!Boards, LinkProofs!NOVALUE, LinkProofs!InitRadio,
       LinkProofs!BeginSensor, LinkProofs!Calibrated, LinkProofs!SenderRestart,
       LinkProofs!Loop, LinkProofs!Send, LinkProofs!GiveUp,
       LinkProofs!OnDataRecv, LinkProofs!ReceiverStart, LinkProofs!ReceiverRestart

LEMMA LinkConstants ==
    /\ NBOARDS \in Nat \ {0}
    /\ IdOf \in [Senders -> LinkProofs!Boards]
    /\ MaxInFlight \in Nat \ {0}
BY ConstantsAssumption, SystemAssumption DEF Boards, LinkProofs!Boards

\* The receiver agrees with every sender of which no change is lost or on its way.
THEOREM SystemAgrees == SystemSpec => [](Link!TypeOK /\ Link!Agreement)
<1>1. SystemSpec => LinkProofs!Spec
  BY SameInit, SameStep, SystemIsLink, PTL DEF Link!Spec, LinkProofs!Spec
<1>2. LinkProofs!Spec => [](LinkProofs!Pending /\ LinkProofs!Agreement)
  BY LinkConstants, LinkProofs!ReceiverAgrees
<1>3. LinkProofs!Spec => []LinkProofs!TypeOK
  BY LinkConstants, LinkProofs!LinkTypeCorrect
<1>4. LinkProofs!Agreement => Link!Agreement
  BY DEF Link!Agreement, LinkProofs!Agreement, Link!Knows, LinkProofs!Knows,
         Link!Alone, LinkProofs!Alone
<1>5. LinkProofs!TypeOK => Link!TypeOK
  BY DEF Link!TypeOK, LinkProofs!TypeOK, Link!Boards, LinkProofs!Boards, Link!NOVALUE,
         LinkProofs!NOVALUE
<1> QED BY <1>1, <1>2, <1>3, <1>4, <1>5, PTL

(***************************************************************************)
(* The inductive invariant behind the two properties of the verdicts. A    *)
(* flag has a sender; while a trial waits, every flagged board and every   *)
(* board with a frame that reports a motion is a suspect; and a board held *)
(* in motion has been flagged ever since the cue.                          *)
(***************************************************************************)
FlagsHaveSenders == \A b \in Boards : boards[b] => b \in Sensors

FlaggedAreSuspects == \A b \in Boards : Waiting /\ boards[b] => b \in suspects

FramesAreSuspect ==
    \A s \in Senders : \A i \in 1..Len(air[s]) :
        Waiting /\ air[s][i] = 1 => IdOf[s] \in suspects

HeldAreSteady == Waiting \/ pc = "feedback" => held \subseteq steady

Watched ==
    /\ FlagsHaveSenders /\ FlaggedAreSuspects /\ FramesAreSuspect
    /\ VerdictsAreMotions /\ HeldAreSteady

\* What is known of both parts before and after a step.
Known == Basic /\ Link!TypeOK /\ Link!Agreement

LEMMA KnownHolds == SystemSpec => []Known
BY SystemIsExperiment, BasicInvariant, SystemAgrees, PTL DEF Known

LEMMA WatchedInit == SystemInit => Watched
BY DEF SystemInit, Init, Link!Init, Watched, FlagsHaveSenders, FlaggedAreSuspects,
       FramesAreSuspect, VerdictsAreMotions, HeldAreSteady, Waiting

\* A board that is known to be in motion is flagged.
LEMMA KnownAreFlagged == Known => KnownInMotion \subseteq Flagged
<1> SUFFICES ASSUME Known, NEW s \in Senders, Reported(s) PROVE IdOf[s] \in Flagged
  BY DEF KnownInMotion
<1>1. Link!Knows(s)
  BY DEF Known, Link!Agreement, Reported
<1>2. boards[IdOf[s]] /\ IdOf[s] \in Boards
  BY <1>1, SystemAssumption DEF Link!Knows, Reported
<1> QED BY <1>2 DEF Flagged

\* At the cue a flagged board is in motion or doubtful.
LEMMA FlaggedAtCue ==
    ASSUME Known, FlagsHaveSenders, NEW b \in Boards, boards[b]
    PROVE  b \in InMotion \cup Doubtful
<1>1. PICK s \in Senders : IdOf[s] = b
  BY SystemAssumption DEF FlagsHaveSenders
<1>2. CASE Uncertain(s)
  BY <1>1, <1>2 DEF Doubtful
<1>3. CASE ~Uncertain(s)
  <2>1. Link!Alone(s) /\ newest[s] = "sent" /\ air[s] = <<>>
    BY <1>1, <1>3 DEF Uncertain
  <2>2. boards[IdOf[s]] = (prev[s] = 1)
    BY <2>1 DEF Known, Link!Agreement, Link!Knows
  <2> QED BY <1>1, <2>2 DEF InMotion
<1> QED BY <1>2, <1>3

\* Only the cue leads into the wait, and only the wait into the feedback, by a look
\* at a flag or by the timeout.
LEMMA PlacesStep ==
    ASSUME Basic, Sketch \/ TimeoutElapses
    PROVE  /\ Waiting' => Waiting \/ BeginTrial
           /\ Waiting /\ Waiting' => steady' = steady
           /\ pc' = "feedback" =>
                  /\ Waiting /\ steady' = steady
                  /\ verdict' /= "timeout" =>
                         currentObject' \in Boards /\ boards[currentObject']
<1> USE DEF Waiting
<1>1. CASE Setup
  BY <1>1 DEF Setup, InitRadio, RadioFails, ExpanderMissing, BeginExpanders, SensorMoved,
              NextSensor, SensorsTested, SetupFrame
<1>2. CASE Loop
  BY <1>2 DEF Loop, InputAvailable, NoInput, NotStreaming, Streaming, LoopFrame
<1>3. CASE \E c \in Commands : DoCommand(c)
  BY <1>3 DEF DoCommand, Ping, NTrials, Trial, TrialOutOfBounds, Separation, Timeout,
              SampleRate, StreamStop, StreamStart, Refuse
<1>4. CASE BeginTrial
  BY <1>4 DEF BeginTrial
<1>5. CASE TimedOut \/ CheckCommanded
  BY <1>5 DEF TimedOut, CheckCommanded, WaitFrame, history
<1>6. CASE OtherMoved
  <2>1. j \in Boards
    BY <1>6, ConstantsAssumption DEF OtherMoved, Basic, ScanOnObject, Objects, Boards
  <2> QED BY <1>6, <2>1 DEF OtherMoved, WaitFrame, history
<1>7. CASE ScanOn \/ WaitTick
  BY <1>7 DEF ScanOn, WaitTick, WaitFrame, history
<1>8. CASE SequenceDone \/ ShowVerdict \/ FlashOff \/ FlashOn \/ EndTrial
  BY <1>8 DEF SequenceDone, ShowVerdict, FlashOff, FlashOn, EndTrial
<1>9. CASE TimeoutElapses
  BY <1>9 DEF TimeoutElapses, history
<1> QED BY <1>1, <1>2, <1>3, <1>4, <1>5, <1>6, <1>7, <1>8, <1>9 DEF Sketch, TestSequence

LEMMA ReceiverWatched ==
    ASSUME Watched, Known, Remember, Runs \/ Obeys \/ ClockRuns
    PROVE  Watched'
<1>1. /\ Basic
      /\ Sketch \/ TimeoutElapses
      /\ UNCHANGED sensors
  BY DEF Runs, Obeys, ClockRuns, Sketch, Known
<1>2. boards' = boards /\ air' = air /\ prev' = prev /\ InMotion' = InMotion
  BY <1>1, SketchKeepsBoards DEF sensors, InMotion
<1>3. FlagsHaveSenders'
  BY <1>2 DEF Watched, FlagsHaveSenders
<1>4. CASE BeginTrial
  <2>1. /\ suspects' = InMotion \cup Doubtful /\ held' = KnownInMotion
        /\ Waiting' /\ pc' /= "feedback" /\ steady' = Flagged
    BY <1>4 DEF BeginTrial, Remember, AtCue, Waiting
  <2>2. FlaggedAreSuspects'
    BY <1>2, <2>1, FlaggedAtCue DEF FlaggedAreSuspects, Watched
  <2>3. FramesAreSuspect'
    <3> SUFFICES ASSUME NEW s \in Senders, NEW i \in 1..Len(air[s])
                 PROVE  IdOf[s] \in Doubtful
      BY <1>2, <2>1 DEF FramesAreSuspect
    <3>1. air[s] \in Seq({0, 1})
      BY DEF Known, Link!TypeOK
    <3>2. air[s] /= <<>>
      BY <3>1, EmptySeq, LenProperties
    <3> QED BY <3>2 DEF Doubtful, Uncertain
  <2>4. HeldAreSteady'
    BY <2>1, KnownAreFlagged DEF HeldAreSteady
  <2>5. VerdictsAreMotions'
    BY <2>1 DEF VerdictsAreMotions
  <2> QED BY <1>3, <2>2, <2>3, <2>4, <2>5 DEF Watched
<1>5. CASE ~BeginTrial /\ Waiting
  <2>1. ~AtCue
    BY <1>5 DEF AtCue, Waiting
  <2>2. suspects \subseteq suspects' /\ held' \subseteq held
    BY <1>5, <2>1 DEF Remember, AtCue, Waiting
  <2>3. FlaggedAreSuspects'
    BY <1>2, <1>5, <2>2 DEF FlaggedAreSuspects, Watched
  <2>4. FramesAreSuspect'
    BY <1>2, <1>5, <2>2 DEF FramesAreSuspect, Watched
  <2>5. HeldAreSteady'
    BY <1>1, <1>5, <2>2, PlacesStep DEF HeldAreSteady, Watched
  <2>6. VerdictsAreMotions'
    BY <1>1, <1>5, <2>2, PlacesStep DEF VerdictsAreMotions, FlaggedAreSuspects, Watched
  <2> QED BY <1>3, <2>3, <2>4, <2>5, <2>6 DEF Watched
<1>6. CASE ~BeginTrial /\ ~Waiting
  <2>1. ~Waiting' /\ pc' /= "feedback"
    BY <1>1, <1>6, PlacesStep
  <2> QED BY <1>3, <2>1 DEF Watched, FlaggedAreSuspects, FramesAreSuspect, HeldAreSteady,
                            VerdictsAreMotions
<1> QED BY <1>4, <1>5, <1>6

\* What a sender does to its frames: those it adds say what it is.
LEMMA BoardFrames ==
    ASSUME Known, NEW s \in Senders, SensorBoard(s) \/ GivesUp(s)
    PROVE  \A r \in Senders : \A i \in 1..Len(air'[r]) :
               air'[r][i] = 1 => \/ \E k \in 1..Len(air[r]) : air[r][k] = 1
                                 \/ prev'[r] = 1
<1> SUFFICES ASSUME NEW r \in Senders, NEW i \in 1..Len(air'[r]), air'[r][i] = 1
             PROVE  \/ \E k \in 1..Len(air[r]) : air[r][k] = 1
                    \/ prev'[r] = 1
  OBVIOUS
<1>1. air[r] \in Seq({0, 1}) /\ air[s] \in Seq({0, 1})
  BY DEF Known, Link!TypeOK
<1>2. CASE air'[r] = air[r]
  BY <1>2
<1>3. ASSUME NEW m \in {0, 1}, Link!Loop(s, m), air'[r] /= air[r]
      PROVE  prev'[r] = 1 \/ \E k \in 1..Len(air[r]) : air[r][k] = 1
  <2>1. r = s /\ air'[r] = Append(air[r], m) /\ prev'[r] = m
    BY <1>3 DEF Link!Loop, Link!Send, Known, Link!TypeOK
  <2>2. CASE i = Len(air[r]) + 1
    BY <1>1, <2>1, <2>2
  <2>3. CASE i \in 1..Len(air[r])
    BY <1>1, <2>1, <2>3
  <2> QED BY <1>1, <2>1, <2>2, <2>3
<1>4. CASE Link!GiveUp(s)
  <2>1. CASE r = s
    <3>1. air[s] /= <<>> /\ air'[s] = Tail(air[s])
      BY <1>4 DEF Link!GiveUp, Known, Link!TypeOK
    <3>2. i + 1 \in 1..Len(air[s]) /\ air'[s][i] = air[s][i + 1]
      BY <1>1, <2>1, <3>1, HeadTailProperties, EmptySeq, LenProperties
    <3> QED BY <2>1, <3>2
  <2>2. CASE r /= s
    BY <1>2, <1>4, <2>2 DEF Link!GiveUp, Known, Link!TypeOK
  <2> QED BY <2>1, <2>2
<1>5. CASE Link!SenderRestart(s)
  <2>1. CASE r = s
    <3>1. air'[s] = <<>>
      BY <1>5 DEF Link!SenderRestart, Known, Link!TypeOK
    <3>2. Len(air'[s]) = 0
      BY <3>1
    <3> QED BY <2>1, <3>2
  <2>2. CASE r /= s
    BY <1>2, <1>5, <2>2 DEF Link!SenderRestart, Known, Link!TypeOK
  <2> QED BY <2>1, <2>2
<1>6. CASE Link!InitRadio(s) \/ Link!BeginSensor(s) \/ Link!Calibrated(s)
  BY <1>2, <1>6 DEF Link!InitRadio, Link!BeginSensor, Link!Calibrated
<1> QED BY <1>2, <1>3, <1>4, <1>5, <1>6 DEF SensorBoard, GivesUp

LEMMA BoardWatched ==
    ASSUME Watched, Known, Remember, NEW s \in Senders, SensorBoard(s) \/ GivesUp(s)
    PROVE  Watched'
<1>1. UNCHANGED vars
  BY DEF SensorBoard, GivesUp
<1>2. /\ pc' = pc /\ boards' = boards /\ steady' = steady
      /\ verdict' = verdict /\ currentObject' = currentObject
  BY <1>1 DEF vars, status, locals, history
<1>3. FlagsHaveSenders'
  BY <1>2 DEF Watched, FlagsHaveSenders
<1>4. CASE Waiting
  <2>1. suspects' = suspects \cup InMotion' /\ held' \subseteq held
    BY <1>2, <1>4 DEF Remember, AtCue, Waiting
  <2>2. FlaggedAreSuspects'
    BY <1>2, <1>4, <2>1 DEF FlaggedAreSuspects, Watched
  <2>3. FramesAreSuspect'
    <3> SUFFICES ASSUME NEW r \in Senders, NEW i \in 1..Len(air'[r]), air'[r][i] = 1
                 PROVE  IdOf[r] \in suspects'
      BY DEF FramesAreSuspect
    <3>1. CASE \E k \in 1..Len(air[r]) : air[r][k] = 1
      BY <1>4, <2>1, <3>1 DEF FramesAreSuspect, Watched
    <3>2. CASE prev'[r] = 1
      BY <2>1, <3>2 DEF InMotion
    <3> QED BY <3>1, <3>2, BoardFrames
  <2>4. HeldAreSteady' /\ VerdictsAreMotions'
    BY <1>2, <1>4, <2>1 DEF HeldAreSteady, VerdictsAreMotions, Watched, Waiting
  <2> QED BY <1>3, <2>2, <2>3, <2>4 DEF Watched
<1>5. CASE ~Waiting
  <2>1. suspects' = suspects /\ held' = held
    BY <1>2, <1>5 DEF Remember, AtCue, motions
  <2> QED BY <1>2, <1>3, <1>5, <2>1 DEF Watched, FlaggedAreSuspects, FramesAreSuspect,
                                   HeldAreSteady, VerdictsAreMotions, Waiting
<1> QED BY <1>4, <1>5

LEMMA ArrivalWatched ==
    ASSUME Watched, Known, Known', Remember, NEW s \in Senders, Arrives(s)
    PROVE  Watched'
<1>1. /\ OnDataRecv(IdOf[s], Head(air[s]) = 1)
      /\ air[s] /= <<>> /\ air[s] \in Seq({0, 1}) /\ IdOf[s] \in Boards
      /\ IdOf[s] \in Sensors
  BY SystemAssumption DEF Arrives, Known, Link!TypeOK
<1>2. /\ pc' = pc /\ verdict' = verdict /\ currentObject' = currentObject
      /\ boards' = [boards EXCEPT ![IdOf[s]] = (Head(air[s]) = 1)]
  BY <1>1 DEF OnDataRecv, status, locals
<1>3. boards \in [Boards -> BOOLEAN]
  BY DEF Known, Basic, TypeOK
<1>4. /\ air'[s] = Tail(air[s])
      /\ \A r \in Senders \ {s} : air'[r] = air[r]
  BY DEF Arrives, Link!OnDataRecv, Known, Link!TypeOK
<1>5. FlagsHaveSenders'
  BY <1>1, <1>2, <1>3 DEF Watched, FlagsHaveSenders
<1>6. CASE Waiting
  <2>1. suspects \subseteq suspects' /\ held' \subseteq held /\ held' \subseteq KnownInMotion'
    BY <1>2, <1>6 DEF Remember, AtCue, Waiting
  <2>2. Head(air[s]) = 1 => IdOf[s] \in suspects
    <3>1. Len(air[s]) \in Nat /\ Len(air[s]) > 0
      BY <1>1, EmptySeq, LenProperties
    <3>2. Head(air[s]) = air[s][1] /\ 1 \in 1..Len(air[s])
      BY <1>1, <3>1
    <3> QED BY <1>6, <3>2 DEF Watched, FramesAreSuspect
  <2>3. FlaggedAreSuspects'
    BY <1>2, <1>3, <1>6, <2>1, <2>2 DEF FlaggedAreSuspects, Watched
  <2>4. FramesAreSuspect'
    <3> SUFFICES ASSUME NEW r \in Senders, NEW i \in 1..Len(air'[r]), air'[r][i] = 1
                 PROVE  IdOf[r] \in suspects
      BY <2>1 DEF FramesAreSuspect
    <3>1. CASE r = s
      <4>1. air[s] /= <<>> /\ air[s] \in Seq({0, 1}) /\ i \in 1..Len(Tail(air[s]))
        BY <1>1, <1>4, <3>1
      <4>2. i + 1 \in 1..Len(air[s]) /\ Tail(air[s])[i] = air[s][i + 1]
        BY <4>1, HeadTailProperties, EmptySeq, LenProperties
      <4> QED BY <1>4, <1>6, <3>1, <4>2 DEF Watched, FramesAreSuspect
    <3>2. CASE r /= s
      BY <1>4, <1>6, <3>2 DEF Watched, FramesAreSuspect
    <3> QED BY <3>1, <3>2
  <2>5. HeldAreSteady'
    <3>1. (KnownInMotion \subseteq Flagged)'
      BY KnownAreFlagged, PTL
    <3>2. held' \subseteq Flagged'
      BY <2>1, <3>1
    <3>3. steady \cap Flagged' \subseteq steady'
      BY <1>1, <1>2, <1>3 DEF OnDataRecv, Flagged
    <3> QED BY <1>6, <2>1, <3>2, <3>3 DEF HeldAreSteady, Watched
  <2>6. VerdictsAreMotions'
    BY <1>2, <1>6 DEF VerdictsAreMotions, Waiting
  <2> QED BY <1>5, <2>3, <2>4, <2>5, <2>6 DEF Watched
<1>7. CASE ~Waiting
  <2>1. suspects' = suspects /\ held' = held /\ steady' = steady
    BY <1>1, <1>2, <1>7 DEF Remember, AtCue, motions, OnDataRecv
  <2> QED BY <1>2, <1>5, <1>7, <2>1 DEF Watched, FlaggedAreSuspects, FramesAreSuspect,
                                   HeldAreSteady, VerdictsAreMotions, Waiting
<1> QED BY <1>6, <1>7

LEMMA WatchedHolds == SystemSpec => []Watched
<1>1. Watched /\ Known /\ Known' /\ [SystemNext]_systemVars => Watched'
  <2> SUFFICES ASSUME Watched, Known, Known', [SystemNext]_systemVars PROVE Watched'
    OBVIOUS
  <2>1. CASE SystemNext
    BY <2>1, ReceiverWatched, BoardWatched, ArrivalWatched DEF SystemNext
  <2>2. CASE UNCHANGED systemVars
    BY <2>2 DEF systemVars, vars, status, locals, history, sensors, motions, Watched,
                FlagsHaveSenders, FlaggedAreSuspects, FramesAreSuspect, HeldAreSteady,
                VerdictsAreMotions, Waiting
  <2> QED BY <2>1, <2>2
<1> QED BY <1>1, WatchedInit, KnownHolds, PTL DEF SystemSpec

\* Every object a trial reports as moved did move since the cue, or was a board the
\* receiver may have been wrong about when the cue lit (lines 710 to 734): whatever
\* the boards, the losses on the radio, the restarts of boards and the commands.
THEOREM OnlyMotionsAreJudged == SystemSpec => []VerdictsAreMotions
<1>1. Watched => VerdictsAreMotions
  BY DEF Watched
<1> QED BY <1>1, WatchedHolds, PTL

\* A board that stays in motion through the wait, and is known to, is not overlooked.
THEOREM HeldBoardsAreAnswered == SystemSpec => []HeldIsAnswered
<1>1. Watched /\ SteadyIsSeen => HeldIsAnswered
  BY DEF Watched, HeldAreSteady, SteadyIsSeen, HeldIsAnswered
<1> QED BY <1>1, WatchedHolds, SystemIsExperiment, SteadyBoardsAreSeen, PTL

\* The whole system, whatever boards and radio do, implements the protocol of a trial
\* if the computer sends commands only where they are expected.
THEOREM SystemImplementsProtocol ==
    ASSUME CarefulHost, NOBJECTS <= NLAMPS
    PROVE  SystemSpec => ImplementsProtocol
BY SystemIsExperiment, ExperimentImplementsProtocol, PTL
=============================================================================
