------------------------------ MODULE Calibration ------------------------------
(***************************************************************************)
(* How a sensor board learns what rest is: calibration() and the test of   *)
(* loop() in src/Sender/Sender.ino. A reading is an integer on one axis in *)
(* place of three floating-point numbers, and its magnitude its distance   *)
(* from the average of the calibration. Distances are multiplied by        *)
(* numSamples, so that no average need be rounded.                         *)
(*                                                                         *)
(* A definition marked "Slip" is not part of the model: it is the one      *)
(* below it with a plausible mistake, which some property must notice.     *)
(***************************************************************************)
EXTENDS Integers

CONSTANTS
    numSamples,  \* readings of the calibration
    MARGIN,      \* what the threshold adds to the last deviation
    Readings,    \* what the accelerometer may return
    Low, High    \* what it returns at rest in the orientation it is calibrated in

ASSUME CalibrationAssumption ==
    /\ numSamples \in Nat \ {0}
    /\ MARGIN \in Nat
    /\ Readings \subseteq Int
    /\ Low \in Int /\ High \in Int /\ Low <= High
    /\ High - Low <= MARGIN

Rest == Low..High

VARIABLES
    pc,
    i, sum,     \* the readings taken, and their sum
    threshold,
    moving,     \* myData.isMoving
    last,       \* history: the reading it was computed from
    calm        \* history: every reading of the calibration was one of rest

vars == <<pc, i, sum, threshold, moving, last, calm>>

\* numSamples times the distance of a reading from the average.
Deviation(a) == LET d == numSamples * a - sum IN IF d < 0 THEN -d ELSE d

Sample(a) ==
    /\ pc = "calibration" /\ i < numSamples
    /\ sum' = sum + a /\ i' = i + 1
    /\ calm' = (calm /\ a \in Rest)
    /\ UNCHANGED <<pc, threshold, moving, last>>

\* Slip: the margin is missing.
SetThresholdBare(a) ==
    /\ pc = "calibration" /\ i = numSamples
    /\ threshold' = Deviation(a)
    /\ calm' = (calm /\ a \in Rest)
    /\ pc' = "loop"
    /\ UNCHANGED <<i, sum, moving, last>>

\* Slip: the average is not subtracted.
SetThresholdRaw(a) ==
    /\ pc = "calibration" /\ i = numSamples
    /\ threshold' = numSamples * a + numSamples * MARGIN
    /\ calm' = (calm /\ a \in Rest)
    /\ pc' = "loop"
    /\ UNCHANGED <<i, sum, moving, last>>

\* One more reading decides how far the threshold lies from the average.
SetThreshold(a) ==
    /\ pc = "calibration" /\ i = numSamples
    /\ threshold' = Deviation(a) + numSamples * MARGIN
    /\ calm' = (calm /\ a \in Rest)
    /\ pc' = "loop"
    /\ UNCHANGED <<i, sum, moving, last>>

Read(a) ==
    /\ pc = "loop"
    /\ moving' = IF Deviation(a) > threshold THEN 1 ELSE 0
    /\ last' = a
    /\ UNCHANGED <<pc, i, sum, threshold, calm>>

Init ==
    /\ pc = "calibration" /\ i = 0 /\ sum = 0 /\ threshold = 0
    /\ moving = 0 /\ last = Low /\ calm = TRUE

Next == \E a \in Readings : Sample(a) \/ SetThreshold(a) \/ Read(a)

Spec == Init /\ [][Next]_vars

-----------------------------------------------------------------------------
(***************************************************************************)
(* Properties.                                                             *)
(***************************************************************************)
\* A board that was calibrated at rest does not take rest for a motion, whichever
\* readings of rest the average and the threshold come from (lines 217 to 228).
QuietAtRest == calm /\ last \in Rest => moving = 0

\* It does report a pull that exceeds rest by the margin and twice the noise: the
\* last deviation cannot have raised the threshold further.
Strong(a) == a - High > High - Low + MARGIN \/ Low - a > High - Low + MARGIN

PullIsSeen == pc = "loop" /\ calm /\ Strong(last) => moving = 1

\* The inductive form: while the board is calm, the average lies in the range of
\* rest and the threshold between the margin and the margin with the noise.
Learned ==
    /\ i \in 0..numSamples /\ moving \in {0, 1}
    /\ sum \in Int /\ threshold \in Int /\ last \in Int
    /\ pc \in {"calibration", "loop"}
    /\ pc = "loop" => i = numSamples
    /\ calm => i * Low <= sum /\ sum <= i * High
    /\ calm /\ pc = "loop" =>
           /\ numSamples * MARGIN <= threshold
           /\ threshold <= numSamples * (MARGIN + High - Low)
           /\ moving = 1 <=> Deviation(last) > threshold
    /\ pc = "calibration" => moving = 0 /\ last = Low
=============================================================================
