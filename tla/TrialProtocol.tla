---------------------------- MODULE TrialProtocol ----------------------------
(***************************************************************************)
(* What an experiment promises to the subject and to the computer: trials  *)
(* follow one another from the first; each cues one object, comes to one   *)
(* verdict on a board that is moving at that moment, shows the verdict on  *)
(* the lamp of the cued object and ends with the lamp off.                 *)
(***************************************************************************)
EXTENDS Integers

CONSTANTS Boards, Objects

VARIABLES
    phase,   \* off, rest (between two trials), cue, or the verdict of a trial
    trial,   \* the number of the trial, 0 when the experiment is off
    box,     \* the cued object, 0 between trials
    light,   \* the colour of its lamp
    report,  \* the object reported to the computer
    moving,  \* moving[b]: board b is known to move
    powered  \* the lamps work

protocolVars == <<phase, trial, box, light, report, moving, powered>>

Shows(colour) == light' = IF powered THEN colour ELSE "off"

ProtocolInit ==
    /\ phase = "off" /\ trial = 0 /\ box = 0 /\ light = "off" /\ report = 0
    /\ moving = [b \in Boards |-> FALSE] /\ powered = FALSE

PowerUp ==
    /\ phase = "off" /\ powered' = TRUE
    /\ UNCHANGED <<phase, trial, box, light, report, moving>>

Start ==
    /\ phase \in {"off", "rest"}
    /\ phase' = "rest" /\ trial' = 1 /\ report' = 0
    /\ UNCHANGED <<box, light, moving, powered>>

Stop ==
    /\ phase = "rest"
    /\ phase' = "off" /\ trial' = 0 /\ report' = 0
    /\ UNCHANGED <<box, light, moving, powered>>

Cue ==
    /\ phase = "rest"
    /\ phase' = "cue" /\ box' \in Objects /\ Shows("blue")
    /\ UNCHANGED <<trial, report, moving, powered>>

\* While it waits, the experiment may drop the report of the trial before.
Forget ==
    /\ phase = "cue" /\ report' = 0
    /\ UNCHANGED <<phase, trial, box, light, moving, powered>>

Judge(verdict) == phase = "cue" /\ phase' = verdict

Correct == Judge("correct") /\ moving[box] /\ report' = box

Other == Judge("other") /\ \E o \in Objects \ {box} : moving[o] /\ report' = o

TimeOut == Judge("timeout") /\ report' = report

Verdict ==
    /\ Correct \/ Other \/ TimeOut
    /\ UNCHANGED <<trial, box, light, moving, powered>>

\* Green for the right object, red for a timeout, flashing red for another one.
Feedback ==
    /\ \/ phase = "correct" /\ Shows("green")
       \/ phase = "timeout" /\ Shows("red")
       \/ phase = "other" /\ (Shows("red") \/ (light /= "blue" /\ light' = "off"))
    /\ UNCHANGED <<phase, trial, box, report, moving, powered>>

EndOfTrial ==
    /\ phase \in {"correct", "timeout", "other"}
    /\ powered => light = CASE phase = "correct" -> "green"
                            [] phase = "timeout" -> "red"
                            [] phase = "other" -> "off"
    /\ phase' = "rest" /\ trial' = trial + 1 /\ box' = 0 /\ light' = "off"
    /\ UNCHANGED <<report, moving, powered>>

Moves(b) ==
    /\ \E m \in BOOLEAN : moving' = [moving EXCEPT ![b] = m]
    /\ UNCHANGED <<phase, trial, box, light, report, powered>>

ProtocolNext ==
    \/ PowerUp \/ Start \/ Stop \/ Cue \/ Forget \/ Verdict \/ Feedback \/ EndOfTrial
    \/ \E b \in Boards : Moves(b)

Protocol == ProtocolInit /\ [][ProtocolNext]_protocolVars
=============================================================================
