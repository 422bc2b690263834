---------------------------- MODULE Accelerometer ----------------------------
(***************************************************************************)
(* A whole sensor board of which the radio is up: the accelerometer and    *)
(* its driver, libraries/Adafruit_MPU6050/Adafruit_MPU6050.cpp, under the  *)
(* calibration and the test of Calibration. Each transfer of the I2C bus   *)
(* may fail. The driver looks at no result but those of its first two:     *)
(* begin() returns true, getEvent() returns true, a register that could    *)
(* not be read is all ones, and data that could not be read are whatever   *)
(* the stack held.                                                         *)
(*                                                                         *)
(* The chip has one range, 2 g: it starts with it and no write changes it. *)
(* Low, High and the readings of Calibration are its true accelerations.   *)
(*                                                                         *)
(* A definition marked "Slip" is not part of the model: it is the one      *)
(* below it with a plausible mistake, which some property must notice.     *)
(***************************************************************************)
EXTENDS Calibration

CONSTANTS
    Accelerations,  \* the true accelerations of the board
    Garbage,        \* what the uninitialized buffer may hold
    SelfTestBias,   \* what the self-test adds to an acceleration
    MaxTries        \* attempts to find the chip

\* A range that could not be read is taken for 16 g, eight times the true one.
Misread == 8

ASSUME AccelerometerAssumption ==
    /\ Accelerations \subseteq Int /\ Garbage \subseteq Int
    /\ SelfTestBias \in Int
    /\ MaxTries \in Nat \ {0}
    /\ \A a \in Accelerations : {a, a + SelfTestBias} \subseteq Readings
    /\ \A a \in Accelerations : {Misread * a, Misread * (a + SelfTestBias)} \subseteq Readings
    /\ 0 \in Readings /\ \A g \in Garbage : {g, Misread * g} \subseteq Readings

VARIABLES
    place,      \* how far setup() and the driver have come
    tries,      \* the attempts to find the chip that have failed
    asleep, resetting, selfTest,  \* the chip: bits of two of its registers
    truth,      \* history: the acceleration when it was last read
    good,       \* history: that reading was transferred, data and range
    honest,     \* history: so was every one of the calibration, at rest
    woken       \* history: the chip took the command to wake up

chip == <<asleep, resetting, selfTest>>
driver == <<place, tries>>
reading == <<truth, good, honest>>
boardVars == <<vars, driver, chip, reading, woken>>

-----------------------------------------------------------------------------
(***************************************************************************)
(* begin() of the driver and the set-up that the sketch adds.              *)
(***************************************************************************)
SetupFrame == UNCHANGED <<vars, reading>>

\* Slip: the last attempt is not counted.
ProbeOnceMore ==
    /\ place = "probe"
    /\ \/ place' = "identify" /\ UNCHANGED tries
       \/ /\ tries' = tries + 1
          /\ place' = IF tries < MaxTries THEN "probe" ELSE "stuck"
    /\ UNCHANGED <<chip, woken>> /\ SetupFrame

Probe ==
    /\ place = "probe"
    /\ \/ place' = "identify" /\ UNCHANGED tries
       \/ /\ tries' = tries + 1
          /\ place' = IF tries + 1 < MaxTries THEN "probe" ELSE "stuck"
    /\ UNCHANGED <<chip, woken>> /\ SetupFrame

Identify ==
    /\ place = "identify"
    /\ place' \in {"reset", "stuck"}
    /\ UNCHANGED <<tries, chip, woken>> /\ SetupFrame

\* Whatever was read before it, a write that arrives has the bit of the reset.
Reset ==
    /\ place = "reset"
    /\ place' = "await" /\ resetting' \in {resetting, TRUE}
    /\ UNCHANGED <<tries, asleep, selfTest, woken>> /\ SetupFrame

\* The chip is done; it sleeps.
ResetDone ==
    /\ resetting
    /\ resetting' = FALSE /\ asleep' = TRUE /\ selfTest' = FALSE
    /\ UNCHANGED <<driver, woken>> /\ SetupFrame

\* Slip: the loop waits for the wrong value of the bit.
AwaitResetInverted ==
    /\ place = "await" /\ resetting
    /\ place' = "configure"
    /\ UNCHANGED <<tries, chip, woken>> /\ SetupFrame

\* Slip: the driver does not wait for the chip.
AwaitResetNot ==
    /\ place = "await"
    /\ place' = "configure"
    /\ UNCHANGED <<tries, chip, woken>> /\ SetupFrame

\* The bit is read until it is 0. A failed read returns 1, and the loop reads again.
AwaitReset ==
    /\ place = "await"
    /\ \E bit \in {TRUE, resetting} : place' = IF bit THEN "await" ELSE "configure"
    /\ UNCHANGED <<tries, chip, woken>> /\ SetupFrame

\* The range is set by the driver, and again by the sketch: with a failed read the
\* bits of the self-test, next to those of the range, are written as ones.
SetAccelerometerRange ==
    /\ place \in {"configure", "range"}
    /\ place' = IF place = "configure" THEN "wake" ELSE "ready"
    /\ selfTest' \in {selfTest, TRUE}
    /\ UNCHANGED <<tries, asleep, resetting, woken>> /\ SetupFrame

Wake ==
    /\ place = "wake"
    /\ place' = "range"
    /\ \/ asleep' = FALSE /\ woken' = TRUE
       \/ UNCHANGED <<asleep, woken>>
    /\ UNCHANGED <<tries, resetting, selfTest>> /\ SetupFrame

-----------------------------------------------------------------------------
(***************************************************************************)
(* getEvent(), called by calibration() and loop().                         *)
(***************************************************************************)
\* What the data registers hold at acceleration a. Asleep they keep their reset value.
Sensed(a) == IF asleep THEN 0 ELSE IF selfTest THEN a + SelfTestBias ELSE a

\* The values of a reading of which some transfer fails.
Spoilt(a) == {Misread * Sensed(a)} \cup Garbage \cup {Misread * g : g \in Garbage}

GetEvent(a, v, ok) ==
    /\ place = "ready"
    /\ v \in IF ok THEN {Sensed(a)} ELSE Spoilt(a)
    /\ \/ (Sample(v) \/ SetThreshold(v)) /\ honest' = (honest /\ ok /\ a \in Rest)
       \/ Read(v) /\ UNCHANGED honest
    /\ truth' = a /\ good' = ok
    /\ UNCHANGED <<driver, chip, woken>>

\* A sketch that starts anew finds the chip as its last run has left it.
BoardInit ==
    /\ Init
    /\ place = "probe" /\ tries = 0
    /\ asleep \in BOOLEAN /\ resetting = FALSE /\ selfTest \in BOOLEAN
    /\ truth = Low /\ good = TRUE /\ honest = TRUE /\ woken = FALSE

Begin ==
    \/ Probe \/ Identify \/ Reset \/ AwaitReset \/ SetAccelerometerRange \/ Wake

BoardNext ==
    \/ Begin \/ ResetDone
    \/ \E a \in Accelerations, ok \in BOOLEAN :
           \E v \in IF ok THEN {Sensed(a)} ELSE Spoilt(a) : GetEvent(a, v, ok)

BoardSpec == BoardInit /\ [][BoardNext]_boardVars

(***************************************************************************)
(* Fairness. The sketch runs, and the chip completes its reset. A read of  *)
(* the reset bit that fails leaves everything as it was, and what is fair  *)
(* are the steps of Begin that change something: so some later read is     *)
(* taken to succeed. Were all of them to fail, the driver would read the   *)
(* bit for ever.                                                           *)
(***************************************************************************)
FairBoard == BoardSpec /\ WF_boardVars(Begin) /\ WF_boardVars(ResetDone)

-----------------------------------------------------------------------------
(***************************************************************************)
(* Properties.                                                             *)
(***************************************************************************)
\* Whatever has failed while the chip was set up, a board whose calibration was read
\* at rest takes no rest for a motion: neither sleep nor self-test, nor a range it
\* could not set, can raise an alarm (lines 105 to 141 of the driver, 217 to 228 of
\* Sender.ino).
TrueRestIsQuiet == honest /\ good /\ truth \in Rest => moving = 0

\* Such a board hears a strong pull as soon as it reads it, unless the one command
\* that wakes the chip was lost (line 124 of the driver); in particular no reset is
\* still to come that puts the chip to sleep again (lines 156 to 160).
TruePullIsHeard ==
    pc = "loop" /\ honest /\ woken /\ good /\ Strong(truth) => moving = 1

\* begin() ends (lines 81 to 89 and 158 to 160): with a chip, or without one.
SetupEnds == (place = "probe") ~> (place \in {"ready", "stuck"})

\* Every variable has its type; the chip is looked for MaxTries times at most.
BoardTypeOK ==
    /\ place \in {"probe", "identify", "reset", "await", "configure", "wake", "range",
                  "ready", "stuck"}
    /\ tries \in 0..MaxTries
    /\ asleep \in BOOLEAN /\ resetting \in BOOLEAN /\ selfTest \in BOOLEAN
    /\ truth \in Accelerations \cup {Low} /\ good \in BOOLEAN /\ honest \in BOOLEAN
    /\ woken \in BOOLEAN
=============================================================================
