------------------------------- MODULE System -------------------------------
(***************************************************************************)
(* The whole system: the receiver of Experiment with the sensor boards and *)
(* the radio of MotionLink in place of its environment. They share         *)
(* boardsStruct, and the receiver listens when its radio is up. It does    *)
(* not restart here: MotionLink has what a restart makes it forget.        *)
(***************************************************************************)
EXTENDS Experiment, Sequences

CONSTANTS Senders, IdOf, MaxInFlight

ASSUME SystemAssumption ==
    /\ IdOf \in [Senders -> Boards]
    /\ Sensors = {IdOf[s] : s \in Senders}
    /\ MaxInFlight \in Nat \ {0}

VARIABLES
    at, linked, prev, air, newest,
    suspects,   \* history: ids of boards that moved since the cue, or that the
                \* receiver may have been wrong about when it lit
    held        \* history: ids of boards in motion, and known to be, ever since it

Link == INSTANCE MotionLink WITH listening <- radio

sensors == <<at, linked, prev, air, newest>>
motions == <<suspects, held>>
systemVars == <<vars, sensors, motions>>

-----------------------------------------------------------------------------
(***************************************************************************)
(* Steps of the parts, and the one they take together.                     *)
(***************************************************************************)
Runs == (Setup \/ Loop \/ TestSequence) /\ UNCHANGED sensors
Obeys == (\E c \in Commands : DoCommand(c)) /\ UNCHANGED sensors
ClockRuns == TimeoutElapses /\ UNCHANGED sensors

SensorBoard(s) ==
    /\ \/ Link!InitRadio(s) \/ Link!BeginSensor(s) \/ Link!Calibrated(s)
       \/ Link!SenderRestart(s)
       \/ \E moving \in {0, 1} : Link!Loop(s, moving)
    /\ UNCHANGED vars

GivesUp(s) == Link!GiveUp(s) /\ UNCHANGED vars

Arrives(s) ==
    /\ air[s] /= <<>>
    /\ OnDataRecv(IdOf[s], Head(air[s]) = 1) /\ Link!OnDataRecv(s)

-----------------------------------------------------------------------------
(***************************************************************************)
(* What is remembered of the boards themselves from the cue of a trial,    *)
(* through its wait, to the beginning of its feedback.                     *)
(***************************************************************************)
InMotion == {IdOf[s] : s \in {r \in Senders : prev[r] = 1}}

\* Its only sender is in motion, and the receiver has been told.
Reported(s) == Link!Alone(s) /\ prev[s] = 1 /\ newest[s] = "sent" /\ air[s] = <<>>
KnownInMotion == {IdOf[s] : s \in {r \in Senders : Reported(r)}}

\* A frame is on its way; the board is flagged and its last change was lost, or it
\* has restarted; or two boards share the id.
Uncertain(s) ==
    \/ air[s] /= <<>> \/ ~Link!Alone(s)
    \/ newest[s] /= "sent" /\ boards[IdOf[s]]
Doubtful == {IdOf[s] : s \in {r \in Senders : Uncertain(r)}}

AtCue == pc = "sequence" /\ pc' = "wait"

Remember ==
    CASE AtCue -> suspects' = InMotion \cup Doubtful /\ held' = KnownInMotion
      [] Waiting ->
             suspects' = suspects \cup InMotion' /\ held' = held \cap KnownInMotion'
      [] pc = "feedback" /\ pc' /= "feedback" -> suspects' = {} /\ held' = {}
      [] OTHER -> UNCHANGED motions

SystemInit == Init /\ Link!Init /\ suspects = {} /\ held = {}

SystemNext ==
    /\ \/ Runs \/ Obeys \/ ClockRuns
       \/ \E s \in Senders : SensorBoard(s) \/ Arrives(s) \/ GivesUp(s)
    /\ Remember

SystemSpec == SystemInit /\ [][SystemNext]_systemVars

(***************************************************************************)
(* Fairness: of the sketch as in Experiment, of the radio as in MotionLink *)
(* (a sender repeats a frame a bounded number of times). The clock may     *)
(* stand still.                                                            *)
(***************************************************************************)
FairSystem ==
    /\ SystemSpec
    /\ WF_systemVars(Runs /\ Remember)
    /\ \A s \in Senders : WF_systemVars((Arrives(s) \/ GivesUp(s)) /\ Remember)

-----------------------------------------------------------------------------
(***************************************************************************)
(* Properties.                                                             *)
(***************************************************************************)
\* A verdict is about a motion: the object it reports moved since the cue, unless
\* the receiver was mistaken or about to be told of it when the cue lit (lines 712
\* to 725 of Reciver.ino look at flags of any age).
VerdictsAreMotions ==
    pc = "feedback" /\ verdict /= "timeout" => currentObject \in suspects

\* A board that is in motion all through the wait, and whose motion has arrived, is
\* not overlooked: as the commanded one it is answered correct, and any object ends
\* a trial before its timeout.
HeldIsAnswered ==
    pc = "feedback" =>
        /\ verdict = "other" => Commanded \notin held
        /\ verdict = "timeout" /\ Unhurried => (Objects \cup {Commanded}) \cap held = {}

\* A motion ends the trial whether or not there is a timeout, unless it stops first
\* or its frame is lost.
MotionEndsTrial ==
    \A s \in Senders :
        (pc \in WaitPlaces /\ IdOf[s] \in Objects /\ prev[s] = 1 /\ newest[s] = "sent")
        ~> (pc \notin WaitPlaces \/ prev[s] /= 1 \/ newest[s] /= "sent")
=============================================================================
