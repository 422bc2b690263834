------------------------------ MODULE MotionLink ------------------------------
(***************************************************************************)
(* The way of a motion from the sensor boards to the receiver: setup() and *)
(* loop() of src/Sender/Sender.ino, the radio between, and OnDataRecv() of *)
(* src/Reciver/Reciver.ino. A board sends its state when it has changed,   *)
(* and once: whether the frame has arrived is printed and forgotten.       *)
(*                                                                         *)
(* A reading is over the threshold or not (Calibration has the threshold). *)
(* A definition marked "Slip" is not part of the model: it is the one      *)
(* below it with a plausible mistake, which some property must notice.     *)
(***************************************************************************)
EXTENDS Integers, Sequences

CONSTANTS
    Senders,
    IdOf,        \* the id a sender takes from its MAC address; 0 if unknown
    NBOARDS,     \* length of boardsStruct
    MaxInFlight  \* frames the radio of a sender holds

NOVALUE == -1
Boards == 0..(NBOARDS - 1)

ASSUME LinkAssumption ==
    /\ NBOARDS \in Nat \ {0}
    /\ IdOf \in [Senders -> Boards]
    /\ MaxInFlight \in Nat \ {0}

VARIABLES
    at,         \* the place sender s has reached
    linked,     \* its ESP-NOW is up
    prev,       \* its previousMovingState
    air,        \* its frames that have neither arrived nor been given up
    newest,     \* history: what became of its last change
    listening,  \* the receiver has registered OnDataRecv
    boards      \* boardsStruct[b].isMoving of the receiver

sender == <<at, linked, prev>>
receiver == <<listening, boards>>
vars == <<sender, air, newest, receiver>>

-----------------------------------------------------------------------------
(***************************************************************************)
(* A sender. setup() returns early when ESP-NOW fails, and loop() runs all *)
(* the same; it stops for ever when there is no accelerometer.             *)
(***************************************************************************)
InitRadio(s) ==
    /\ at[s] = "setup"
    /\ \E up \in BOOLEAN :
           /\ linked' = [linked EXCEPT ![s] = up]
           /\ at' = [at EXCEPT ![s] = IF up THEN "sensor" ELSE "loop"]
    /\ UNCHANGED <<prev, air, newest, receiver>>

BeginSensor(s) ==
    /\ at[s] = "sensor"
    /\ \E found \in BOOLEAN : at' = [at EXCEPT ![s] = IF found THEN "calibration" ELSE "stuck"]
    /\ UNCHANGED <<linked, prev, air, newest, receiver>>

Calibrated(s) ==
    /\ at[s] = "calibration"
    /\ at' = [at EXCEPT ![s] = "loop"]
    /\ UNCHANGED <<linked, prev, air, newest, receiver>>

\* esp_now_send takes the frame, or refuses it: it is down, or its queue is full.
Send(s, moving) ==
    \/ /\ linked[s] /\ Len(air[s]) < MaxInFlight
       /\ air' = [air EXCEPT ![s] = Append(@, moving)]
       /\ newest' = [newest EXCEPT ![s] = "sent"]
    \/ /\ ~linked[s] \/ Len(air[s]) = MaxInFlight
       /\ newest' = [newest EXCEPT ![s] = "lost"]
       /\ UNCHANGED air

\* Slip: the frame is sent before the new state is entered in it.
LoopSendsOld(s, moving) ==
    /\ at[s] = "loop" /\ moving /= prev[s]
    /\ Send(s, IF prev[s] = NOVALUE THEN 0 ELSE prev[s])
    /\ prev' = [prev EXCEPT ![s] = moving]
    /\ UNCHANGED <<at, linked, receiver>>

\* The state is remembered as sent whatever esp_now_send returns.
Loop(s, moving) ==
    /\ at[s] = "loop" /\ moving /= prev[s]
    /\ Send(s, moving)
    /\ prev' = [prev EXCEPT ![s] = moving]
    /\ UNCHANGED <<at, linked, receiver>>

\* A board loses its power, with it what its radio holds, and comes back.
SenderRestart(s) ==
    /\ at[s] /= "setup"
    /\ at' = [at EXCEPT ![s] = "setup"]
    /\ linked' = [linked EXCEPT ![s] = FALSE]
    /\ prev' = [prev EXCEPT ![s] = NOVALUE]
    /\ air' = [air EXCEPT ![s] = <<>>]
    /\ newest' = [newest EXCEPT ![s] = "none"]
    /\ UNCHANGED receiver

-----------------------------------------------------------------------------
(***************************************************************************)
(* The radio and the receiver. Frames of one sender keep their order; a    *)
(* frame that is not acknowledged in time is given up.                     *)
(***************************************************************************)
GiveUp(s) ==
    /\ air[s] /= <<>>
    /\ air' = [air EXCEPT ![s] = Tail(@)]
    /\ newest' = IF Len(air[s]) = 1 THEN [newest EXCEPT ![s] = "lost"] ELSE newest
    /\ UNCHANGED <<sender, receiver>>

\* Slip: boardsStruct is indexed from 0.
OnDataRecvShifted(s) ==
    /\ listening /\ air[s] /= <<>>
    /\ boards' = [boards EXCEPT ![IdOf[s] - 1] = (Head(air[s]) = 1)]
    /\ air' = [air EXCEPT ![s] = Tail(@)]
    /\ UNCHANGED <<sender, newest, listening>>

OnDataRecv(s) ==
    /\ listening /\ air[s] /= <<>>
    /\ boards' = [boards EXCEPT ![IdOf[s]] = (Head(air[s]) = 1)]
    /\ air' = [air EXCEPT ![s] = Tail(@)]
    /\ UNCHANGED <<sender, newest, listening>>

ReceiverStart ==
    /\ ~listening /\ listening' = TRUE
    /\ UNCHANGED <<sender, air, newest, boards>>

\* The receiver forgets every board; what had arrived is lost.
ReceiverRestart ==
    /\ listening /\ listening' = FALSE
    /\ boards' = [b \in Boards |-> FALSE]
    /\ newest' = [s \in Senders |->
                     IF newest[s] = "sent" /\ air[s] = <<>> THEN "lost" ELSE newest[s]]
    /\ UNCHANGED <<sender, air>>

-----------------------------------------------------------------------------
Init ==
    /\ at = [s \in Senders |-> "setup"]
    /\ linked = [s \in Senders |-> FALSE]
    /\ prev = [s \in Senders |-> NOVALUE]
    /\ air = [s \in Senders |-> <<>>]
    /\ newest = [s \in Senders |-> "none"]
    /\ listening = FALSE
    /\ boards = [b \in Boards |-> FALSE]

Next ==
    \/ \E s \in Senders :
           \/ InitRadio(s) \/ BeginSensor(s) \/ Calibrated(s) \/ SenderRestart(s)
           \/ \E moving \in {0, 1} : Loop(s, moving)
           \/ GiveUp(s) \/ OnDataRecv(s)
    \/ ReceiverStart \/ ReceiverRestart

Spec == Init /\ [][Next]_vars

\* Fairness. The radio repeats a frame a bounded number of times: sooner or later
\* each has arrived or is given up. Nothing need move, restart or succeed.
FairSpec == Spec /\ \A s \in Senders : WF_vars(OnDataRecv(s) \/ GiveUp(s))

-----------------------------------------------------------------------------
(***************************************************************************)
(* Properties.                                                             *)
(***************************************************************************)
TypeOK ==
    /\ at \in [Senders -> {"setup", "sensor", "stuck", "calibration", "loop"}]
    /\ linked \in [Senders -> BOOLEAN]
    /\ prev \in [Senders -> {NOVALUE, 0, 1}]
    /\ air \in [Senders -> Seq({0, 1})]
    /\ newest \in [Senders -> {"none", "sent", "lost"}]
    /\ listening \in BOOLEAN
    /\ boards \in [Boards -> BOOLEAN]

\* No other sender takes the id of s. Boards that are not in the list of MAC
\* addresses (Sender.ino, lines 128 to 141) share id 0.
Alone(s) == \A r \in Senders : IdOf[r] = IdOf[s] => r = s

\* The receiver knows the state the sender remembers, unless a frame is on its way
\* or the last change is lost: then nothing repeats it (lines 164 to 170).
Knows(s) == boards[IdOf[s]] = (prev[s] = 1)

Agreement ==
    \A s \in Senders : Alone(s) /\ newest[s] = "sent" /\ air[s] = <<>> => Knows(s)

\* The inductive form: the newest frame on its way carries the state remembered.
Pending ==
    \A s \in Senders :
        newest[s] = "sent" /\ air[s] /= <<>> => air[s][Len(air[s])] = prev[s]

\* Each change that is sent becomes known, unless it is lost or superseded: the
\* receiver cannot stay behind with nothing gone wrong.
ChangesArrive ==
    \A s \in Senders : \A m \in {0, 1} :
        Alone(s) =>
            ((newest[s] = "sent" /\ prev[s] = m)
             ~> (Knows(s) \/ newest[s] /= "sent" \/ prev[s] /= m))
=============================================================================
