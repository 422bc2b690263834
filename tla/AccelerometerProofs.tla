------------------------- MODULE AccelerometerProofs -------------------------
(***************************************************************************)
(* Proofs about Accelerometer: for any accelerations, garbage and bias of  *)
(* the self-test, any number of samples and of attempts, and any failures; *)
(* the theorems about Calibration first, for any noise at rest that does   *)
(* not exceed the margin.                                                  *)
(***************************************************************************)
EXTENDS Accelerometer, TLAPS

-----------------------------------------------------------------------------
(***************************************************************************)
(* The calibration and the motion test by themselves.                      *)
(***************************************************************************)

\* Multiplication by a natural number keeps the order.
LEMMA Scaled ==
    ASSUME NEW n \in Nat, NEW a \in Int, NEW b \in Int, a <= b
    PROVE  n * a \in Int /\ n * b \in Int /\ n * a <= n * b
  OBVIOUS

\* How far a value lies from an average between lo and hi, if it lies there itself,
\* and if it lies far outside.
LEMMA DeviationBounds ==
    ASSUME NEW lo \in Int, NEW hi \in Int,
           numSamples * lo <= sum, sum <= numSamples * hi, sum \in Int, NEW a \in Int
    PROVE  /\ Deviation(a) \in Int
           /\ a \in lo..hi => Deviation(a) >= 0 /\ Deviation(a) <= numSamples * (hi - lo)
           /\ (a - hi > hi - lo + MARGIN \/ lo - a > hi - lo + MARGIN) =>
                  Deviation(a) > numSamples * (MARGIN + hi - lo)
<1>0. numSamples \in Nat /\ numSamples > 0 /\ MARGIN \in Nat
  BY CalibrationAssumption
<1>1. Deviation(a) \in Int
  BY <1>0 DEF Deviation
<1>2. ASSUME a \in lo..hi
      PROVE  Deviation(a) >= 0 /\ Deviation(a) <= numSamples * (hi - lo)
  <2>1. numSamples * lo <= numSamples * a /\ numSamples * a <= numSamples * hi
    BY <1>0, <1>2, Scaled
  <2>2. numSamples * (hi - lo) = numSamples * hi - numSamples * lo
    BY <1>0
  <2> QED
    BY <1>0, <2>1, <2>2 DEF Deviation
<1>3. CASE a - hi > hi - lo + MARGIN
  <2>1. a >= hi + (hi - lo + MARGIN) + 1
    BY <1>0, <1>3
  <2>2. numSamples * (hi + (hi - lo + MARGIN) + 1) <= numSamples * a
    BY <1>0, <2>1, Scaled
  <2>3. numSamples * (hi + (hi - lo + MARGIN) + 1)
            = numSamples * hi + numSamples * (MARGIN + hi - lo) + numSamples
    BY <1>0
  <2>4. Deviation(a) > numSamples * (MARGIN + hi - lo)
    BY <1>0, <2>2, <2>3 DEF Deviation
  <2> QED
    BY <1>1, <1>2, <2>4
<1>4. CASE lo - a > hi - lo + MARGIN
  <2>1. a <= lo - (hi - lo + MARGIN) - 1
    BY <1>0, <1>4
  <2>2. numSamples * a <= numSamples * (lo - (hi - lo + MARGIN) - 1)
    BY <1>0, <2>1, Scaled
  <2>3. numSamples * (lo - (hi - lo + MARGIN) - 1)
            = numSamples * lo - numSamples * (MARGIN + hi - lo) - numSamples
    BY <1>0
  <2>4. Deviation(a) > numSamples * (MARGIN + hi - lo)
    BY <1>0, <2>2, <2>3 DEF Deviation
  <2> QED
    BY <1>1, <1>2, <2>4
<1> QED
  BY <1>1, <1>2, <1>3, <1>4

\* The same for readings of rest and for strong pulls.
LEMMA DeviationFacts ==
    ASSUME numSamples * Low <= sum, sum <= numSamples * High, sum \in Int, NEW a \in Int
    PROVE  /\ Deviation(a) \in Int
           /\ a \in Rest => Deviation(a) >= 0 /\ Deviation(a) <= numSamples * (High - Low)
           /\ Strong(a) => Deviation(a) > numSamples * (MARGIN + High - Low)
<1>1. Low \in Int /\ High \in Int
  BY CalibrationAssumption
<1> QED
  BY <1>1, DeviationBounds DEF Rest, Strong

LEMMA LearnedInit == Init => Learned
<1> SUFFICES ASSUME Init PROVE Learned
  OBVIOUS
<1>1. numSamples \in Nat /\ Low \in Int /\ High \in Int
  BY CalibrationAssumption
<1>2. i * Low = 0 /\ i * High = 0
  BY <1>1 DEF Init
<1>3. i = 0 /\ moving = 0 /\ sum = 0 /\ threshold = 0 /\ last = Low /\ pc = "calibration"
  BY DEF Init
<1> QED
  BY <1>1, <1>2, <1>3 DEF Learned

LEMMA LearnedStep == Learned /\ [Next]_vars => Learned'
<1> SUFFICES ASSUME Learned, [Next]_vars PROVE Learned'
  OBVIOUS
<1>0. /\ numSamples \in Nat /\ numSamples > 0 /\ MARGIN \in Nat
      /\ Low \in Int /\ High \in Int /\ Low <= High /\ High - Low <= MARGIN
      /\ Readings \subseteq Int
  BY CalibrationAssumption
<1>1. ASSUME NEW a \in Readings, Sample(a)
      PROVE  Learned'
  <2>1. /\ pc = "calibration" /\ i \in 0..(numSamples - 1) /\ sum \in Int /\ a \in Int
        /\ sum' = sum + a /\ i' = i + 1 /\ calm' = (calm /\ a \in Rest)
        /\ pc' = pc /\ threshold' = threshold /\ moving' = moving /\ last' = last
    BY <1>0, <1>1 DEF Sample, Learned
  <2>2. ASSUME calm'
        PROVE  i' * Low <= sum' /\ sum' <= i' * High
    <3>0. calm /\ a \in Rest
      BY <2>1, <2>2, Zenon
    <3>1. i * Low <= sum /\ sum <= i * High /\ Low <= a /\ a <= High
      BY <1>0, <2>1, <3>0 DEF Learned, Rest
    <3>2. (i + 1) * Low = i * Low + Low /\ (i + 1) * High = i * High + High
      BY <1>0, <2>1
    <3>3. i * Low \in Int /\ i * High \in Int
      BY <1>0, <2>1
    <3> QED
      BY <1>0, <2>1, <3>1, <3>2, <3>3
  <2> QED
    BY <1>0, <2>1, <2>2 DEF Learned
<1>2. ASSUME NEW a \in Readings, SetThreshold(a)
      PROVE  Learned'
  <2>1. /\ pc = "calibration" /\ i = numSamples /\ sum \in Int /\ a \in Int
        /\ threshold' = Deviation(a) + numSamples * MARGIN
        /\ calm' = (calm /\ a \in Rest) /\ pc' = "loop"
        /\ i' = i /\ sum' = sum /\ moving' = moving /\ last' = last
        /\ moving = 0 /\ last = Low /\ numSamples * MARGIN \in Int
    BY <1>0, <1>2 DEF SetThreshold, Learned
  <2>2. Deviation(a) \in Int
    BY <1>0, <2>1 DEF Deviation
  <2>3. ASSUME calm'
        PROVE  /\ numSamples * Low <= sum /\ sum <= numSamples * High
               /\ numSamples * MARGIN <= threshold'
               /\ threshold' <= numSamples * (MARGIN + High - Low)
               /\ ~(Deviation(Low) > threshold')
    <3>1. numSamples * Low <= sum /\ sum <= numSamples * High /\ a \in Rest
      BY <2>1, <2>3 DEF Learned
    <3>2. Deviation(a) >= 0 /\ Deviation(a) <= numSamples * (High - Low)
      BY <2>1, <3>1, DeviationFacts
    <3>3. numSamples * (MARGIN + High - Low) = numSamples * MARGIN + numSamples * (High - Low)
      BY <1>0
    <3>4. Low \in Rest
      BY <1>0 DEF Rest
    <3>5. Deviation(Low) \in Int /\ Deviation(Low) <= numSamples * (High - Low)
      BY <1>0, <2>1, <3>1, <3>4, DeviationFacts
    <3>6. numSamples * (High - Low) <= numSamples * MARGIN /\ numSamples * (High - Low) \in Int
      BY <1>0, Scaled
    <3> QED
      BY <1>0, <2>1, <2>2, <3>1, <3>2, <3>3, <3>5, <3>6
  <2>4. Deviation(last)' = Deviation(Low)
    BY <2>1 DEF Deviation
  <2> QED
    BY <1>0, <2>1, <2>2, <2>3, <2>4 DEF Learned
<1>3. ASSUME NEW a \in Readings, Read(a)
      PROVE  Learned'
  <2>1. Deviation(last)' = Deviation(a)
    BY <1>3 DEF Read, Deviation
  <2>2. moving' \in {0, 1} /\ (moving' = 1 <=> Deviation(last)' > threshold')
    BY <1>3, <2>1 DEF Read
  <2>3. /\ pc = "loop" /\ last' \in Int
        /\ UNCHANGED <<pc, i, sum, threshold, calm>>
    BY <1>0, <1>3 DEF Read
  <2> QED
    BY <2>2, <2>3 DEF Learned
<1>4. CASE UNCHANGED vars
  BY <1>4 DEF Learned, vars, Deviation
<1> QED
  BY <1>1, <1>2, <1>3, <1>4 DEF Next

\* What a calm board has learned bounds its average and its threshold for ever.
THEOREM CalibrationLearns == Spec => []Learned
  BY LearnedInit, LearnedStep, PTL DEF Spec

\* A board calibrated at rest stays quiet at rest.
THEOREM CalmBoardIsQuiet == Spec => []QuietAtRest
<1>1. Learned => QuietAtRest
  <2> SUFFICES ASSUME Learned, calm, last \in Rest, moving /= 0 PROVE FALSE
    BY DEF QuietAtRest
  <2>0. /\ numSamples \in Nat /\ MARGIN \in Nat /\ Low \in Int /\ High \in Int
        /\ High - Low <= MARGIN
    BY CalibrationAssumption
  <2>1. /\ pc = "loop" /\ i = numSamples /\ sum \in Int /\ last \in Int /\ threshold \in Int
        /\ numSamples * Low <= sum /\ sum <= numSamples * High
        /\ numSamples * MARGIN <= threshold /\ Deviation(last) > threshold
    BY DEF Learned
  <2>2. Deviation(last) \in Int /\ Deviation(last) <= numSamples * (High - Low)
    BY <2>1, DeviationFacts
  <2>3. numSamples * (High - Low) <= numSamples * MARGIN
        /\ numSamples * (High - Low) \in Int /\ numSamples * MARGIN \in Int
    BY <2>0, Scaled
  <2> QED
    BY <2>1, <2>2, <2>3
<1> QED
  BY <1>1, CalibrationLearns, PTL

\* A board calibrated at rest does not miss a strong pull.
THEOREM StrongPullIsSeen == Spec => []PullIsSeen
<1>1. Learned => PullIsSeen
  <2> SUFFICES ASSUME Learned, pc = "loop", calm, Strong(last) PROVE moving = 1
    BY DEF PullIsSeen
  <2>1. /\ i = numSamples /\ sum \in Int /\ last \in Int /\ threshold \in Int
        /\ numSamples * Low <= sum /\ sum <= numSamples * High
        /\ threshold <= numSamples * (MARGIN + High - Low)
        /\ moving = 1 <=> Deviation(last) > threshold
    BY DEF Learned
  <2>2. Deviation(last) \in Int /\ Deviation(last) > numSamples * (MARGIN + High - Low)
    BY <2>1, DeviationFacts
  <2>3. numSamples * (MARGIN + High - Low) \in Int
    BY CalibrationAssumption
  <2>4. Deviation(last) > threshold
    BY <2>1, <2>2, <2>3
  <2> QED
    BY <2>1, <2>4
<1> QED
  BY <1>1, CalibrationLearns, PTL

-----------------------------------------------------------------------------
(***************************************************************************)
(* The board with its driver.                                              *)
(***************************************************************************)

\* The theorems about Calibration hold of the whole board: what the driver returns
\* is a reading.
LEMMA SpoiltAreReadings ==
    ASSUME NEW a \in Accelerations, NEW v \in {Sensed(a)} \cup Spoilt(a)
    PROVE  v \in Readings
<1>1. Sensed(a) \in {0, a, a + SelfTestBias}
  BY DEF Sensed
<1>2. Misread * 0 = 0
  BY DEF Misread
<1>3. {Sensed(a), Misread * Sensed(a)} \subseteq Readings
  BY <1>1, <1>2, AccelerometerAssumption
<1>4. \A g \in Garbage : {g, Misread * g} \subseteq Readings
  BY AccelerometerAssumption
<1> QED BY <1>3, <1>4 DEF Spoilt

LEMMA BoardStepIsCalibrationStep == [BoardNext]_boardVars => [Next]_vars
<1> SUFFICES ASSUME [BoardNext]_boardVars PROVE [Next]_vars
  OBVIOUS
<1>1. CASE Begin \/ ResetDone
  BY <1>1 DEF Begin, Probe, Identify, Reset, AwaitReset, SetAccelerometerRange, Wake,
              ResetDone, SetupFrame
<1>2. ASSUME NEW a \in Accelerations, NEW ok \in BOOLEAN,
             NEW v \in IF ok THEN {Sensed(a)} ELSE Spoilt(a), GetEvent(a, v, ok)
      PROVE  Next
  <2>1. v \in Readings
    BY SpoiltAreReadings
  <2> QED BY <1>2, <2>1 DEF GetEvent, Next
<1>3. CASE UNCHANGED boardVars
  BY <1>3 DEF boardVars
<1> QED BY <1>1, <1>2, <1>3 DEF BoardNext

\* Every behaviour of the board is one of Calibration.
THEOREM BoardIsCalibration == BoardSpec => Spec
<1>1. BoardInit => Init
  BY DEF BoardInit
<1> QED BY <1>1, BoardStepIsCalibrationStep, PTL DEF BoardSpec, Spec

(***************************************************************************)
(* The inductive invariant. Once the board is ready the chip changes no    *)
(* more; until then nothing has been read. What an honest calibration has  *)
(* learned lies between the least and the greatest value the chip, as it   *)
(* has been set up, returns at rest.                                       *)
(***************************************************************************)
Least == Sensed(Low)
Greatest == Sensed(High)

ChipSettled ==
    /\ resetting => place = "await"
    /\ woken => place \in {"range", "ready"} /\ ~asleep

NothingRead ==
    place /= "ready" =>
        pc = "calibration" /\ i = 0 /\ sum = 0 /\ truth = Low /\ honest /\ good

Typed ==
    /\ i \in 0..numSamples /\ sum \in Int /\ threshold \in Int /\ truth \in Int
    /\ moving \in {0, 1}
    /\ \/ pc = "calibration" /\ moving = 0
       \/ pc = "loop" /\ i = numSamples

HonestLearned ==
    honest =>
        /\ i * Least <= sum /\ sum <= i * Greatest
        /\ pc = "loop" =>
               /\ numSamples * MARGIN <= threshold
               /\ threshold <= numSamples * (MARGIN + Greatest - Least)
               /\ good => (moving = 1 <=> Deviation(Sensed(truth)) > threshold)

BoardLearned == ChipSettled /\ NothingRead /\ Typed /\ HonestLearned

LEMMA SensedFacts ==
    /\ \A a \in Int : Sensed(a) \in Int
    /\ \A a \in Rest : Sensed(a) \in Least..Greatest
    /\ Least \in Int /\ Greatest \in Int
    /\ Least <= Greatest /\ Greatest - Least <= High - Low /\ High - Low <= MARGIN
BY CalibrationAssumption, AccelerometerAssumption DEF Sensed, Least, Greatest, Rest

LEMMA BoundsAreInt == Least \in Int /\ Greatest \in Int
BY SensedFacts

LEMMA BoundsStayInt == (Least \in Int /\ Greatest \in Int)'
BY BoundsAreInt, PTL

LEMMA NoneOfInt == ASSUME NEW x \in Int PROVE 0 * x = 0
OBVIOUS

LEMMA BoardLearnedInit == BoardInit => BoardLearned
<1> SUFFICES ASSUME BoardInit PROVE BoardLearned
  OBVIOUS
<1>1. /\ i = 0 /\ sum = 0 /\ threshold = 0 /\ moving = 0 /\ pc = "calibration"
      /\ place = "probe" /\ ~resetting /\ ~woken /\ truth = Low /\ honest /\ good
  BY DEF BoardInit, Init
<1>2. numSamples \in Nat /\ Low \in Int
  BY CalibrationAssumption
<1>3. 0 * Least = 0 /\ 0 * Greatest = 0
  BY BoundsAreInt, NoneOfInt
<1>4. ChipSettled /\ NothingRead
  BY <1>1, Zenon DEF ChipSettled, NothingRead
<1>5. Typed
  BY <1>1, <1>2 DEF Typed
<1>6. HonestLearned
  BY <1>1, <1>3 DEF HonestLearned
<1> QED BY <1>4, <1>5, <1>6 DEF BoardLearned

\* The driver and the chip change nothing that is learned, and the chip nothing once
\* the board is ready.
LEMMA DriverStep == BoardLearned /\ (Begin \/ ResetDone) => BoardLearned'
<1> SUFFICES ASSUME BoardLearned, Begin \/ ResetDone PROVE BoardLearned'
  OBVIOUS
<1>1. UNCHANGED <<pc, i, sum, threshold, moving, truth, good, honest>>
  BY DEF Begin, Probe, Identify, Reset, AwaitReset, SetAccelerometerRange, Wake,
         ResetDone, SetupFrame, vars, reading
<1>2. ChipSettled'
  <2>0. ChipSettled
    BY DEF BoardLearned
  <2>1. ASSUME UNCHANGED <<resetting, asleep, woken>>, place /= "await",
               place' \in {"range", "ready"} \/ ~woken
        PROVE  ChipSettled'
    BY <2>0, <2>1, Zenon DEF ChipSettled
  <2>2. CASE Probe \/ Identify \/ SetAccelerometerRange
    <3>1. UNCHANGED <<resetting, asleep, woken>>
      BY <2>2, Zenon DEF Probe, Identify, SetAccelerometerRange, chip
    <3>2. place /= "await"
      BY <2>2 DEF Probe, Identify, SetAccelerometerRange
    <3>3. place' \in {"range", "ready"} \/ ~woken
      BY <2>0, <2>2 DEF Probe, Identify, SetAccelerometerRange, ChipSettled
    <3> QED BY <2>1, <3>1, <3>2, <3>3
  <2>3. CASE Reset
    <3>1. place = "reset" /\ place' = "await" /\ woken' = woken
      BY <2>3 DEF Reset
    <3>2. ~woken
      BY <2>0, <3>1 DEF ChipSettled
    <3> QED BY <3>1, <3>2, Zenon DEF ChipSettled
  <2>4. CASE AwaitReset
    <3>0. place = "await"
      BY <2>4 DEF AwaitReset
    <3>1. place' = "await" \/ (place' = "configure" /\ ~resetting)
      BY <2>4, Zenon DEF AwaitReset
    <3>2. woken' = woken /\ resetting' = resetting
      BY <2>4, Zenon DEF AwaitReset, chip
    <3>3. ~woken
      BY <2>0, <3>0 DEF ChipSettled
    <3> QED BY <3>1, <3>2, <3>3, Zenon DEF ChipSettled
  <2>5. CASE Wake
    BY <2>0, <2>5 DEF ChipSettled, Wake
  <2>6. CASE ResetDone
    BY <2>0, <2>6 DEF ChipSettled, ResetDone, driver
  <2> QED BY <2>2, <2>3, <2>4, <2>5, <2>6 DEF Begin
<1>3. place /= "ready"
  BY DEF BoardLearned, ChipSettled, Begin, Probe, Identify, Reset, AwaitReset,
         SetAccelerometerRange, Wake, ResetDone
<1>4. pc = "calibration" /\ i = 0 /\ sum = 0 /\ truth = Low /\ honest /\ good
  BY <1>3 DEF BoardLearned, NothingRead
<1>5. Least' \in Int /\ Greatest' \in Int
  BY BoundsStayInt
<1>6. 0 * Least' = 0 /\ 0 * Greatest' = 0
  BY <1>5, NoneOfInt
<1>7. HonestLearned'
  BY <1>1, <1>4, <1>6 DEF HonestLearned
<1>8. Typed' /\ NothingRead'
  BY <1>1, <1>4 DEF BoardLearned, Typed, NothingRead
<1> QED BY <1>2, <1>7, <1>8 DEF BoardLearned

LEMMA ReadingStep ==
    ASSUME BoardLearned, NEW a \in Accelerations, NEW ok \in BOOLEAN,
           NEW v \in IF ok THEN {Sensed(a)} ELSE Spoilt(a), GetEvent(a, v, ok)
    PROVE  BoardLearned'
<1>1. /\ place = "ready" /\ place' = place /\ ~resetting
      /\ truth' = a /\ good' = ok /\ ok \in BOOLEAN
      /\ UNCHANGED <<asleep, resetting, selfTest, woken>>
  BY DEF GetEvent, driver, chip, BoardLearned, ChipSettled
<1>2. v \in Int /\ a \in Int
  BY SpoiltAreReadings, CalibrationAssumption, AccelerometerAssumption
<1>3. /\ \A x : Sensed(x)' = Sensed(x)
      /\ Least' = Least /\ Greatest' = Greatest
  BY <1>1 DEF Sensed, Least, Greatest
<1>4. /\ numSamples \in Nat /\ numSamples > 0 /\ MARGIN \in Nat
      /\ i \in 0..numSamples /\ sum \in Int /\ threshold \in Int
  BY CalibrationAssumption DEF BoardLearned, Typed
<1>5. ChipSettled' /\ NothingRead'
  BY <1>1 DEF BoardLearned, ChipSettled, NothingRead
<1>6. ASSUME honest', ~Read(v)
      PROVE  honest /\ ok /\ v = Sensed(a) /\ v \in Least..Greatest
  <2>1. honest' = (honest /\ ok /\ a \in Rest)
    BY <1>6 DEF GetEvent
  <2>2. honest /\ ok /\ a \in Rest
    BY <1>6, <2>1, Zenon
  <2> QED BY <2>2, SensedFacts
<1>7. CASE Sample(v)
  <2>1. /\ pc = "calibration" /\ i \in 0..(numSamples - 1) /\ ~Read(v)
        /\ sum' = sum + v /\ i' = i + 1
        /\ pc' = pc /\ threshold' = threshold /\ moving' = moving
    BY <1>4, <1>7 DEF Sample, Read
  <2>2. Typed'
    BY <1>1, <1>2, <1>4, <2>1 DEF BoardLearned, Typed
  <2>3. ASSUME honest'
        PROVE  i' * Least <= sum' /\ sum' <= i' * Greatest
    <3>1. i * Least <= sum /\ sum <= i * Greatest /\ Least <= v /\ v <= Greatest
      BY <1>2, <1>6, <2>1, <2>3, SensedFacts DEF BoardLearned, HonestLearned
    <3>2. /\ (i + 1) * Least = i * Least + Least /\ (i + 1) * Greatest = i * Greatest + Greatest
          /\ i * Least \in Int /\ i * Greatest \in Int
      BY <1>4, SensedFacts
    <3> QED BY <1>2, <1>4, <2>1, <3>1, <3>2, SensedFacts
  <2>4. HonestLearned'
    BY <1>3, <2>1, <2>3 DEF HonestLearned
  <2> QED BY <1>5, <2>2, <2>4 DEF BoardLearned
<1>8. CASE SetThreshold(v)
  <2>1. /\ pc = "calibration" /\ i = numSamples /\ ~Read(v) /\ moving = 0
        /\ threshold' = Deviation(v) + numSamples * MARGIN /\ pc' = "loop"
        /\ i' = i /\ sum' = sum /\ moving' = moving
    BY <1>8 DEF SetThreshold, Read, BoardLearned, Typed
  <2>2. Deviation(v) \in Int /\ numSamples * MARGIN \in Int
    BY <1>2, <1>4 DEF Deviation
  <2>3. Typed'
    BY <1>1, <1>2, <1>4, <2>1, <2>2 DEF Typed
  <2>4. Deviation(v)' = Deviation(v)
    BY <2>1 DEF Deviation
  <2>5. ASSUME honest'
        PROVE  /\ i' * Least <= sum' /\ sum' <= i' * Greatest
               /\ numSamples * MARGIN <= threshold'
               /\ threshold' <= numSamples * (MARGIN + Greatest - Least)
               /\ ~(Deviation(v) > threshold') /\ v = Sensed(a)
    <3>1. /\ numSamples * Least <= sum /\ sum <= numSamples * Greatest
          /\ v \in Least..Greatest /\ v = Sensed(a)
      BY <1>6, <2>1, <2>5 DEF BoardLearned, HonestLearned
    <3>2. Deviation(v) >= 0 /\ Deviation(v) <= numSamples * (Greatest - Least)
      BY <1>2, <1>4, <3>1, DeviationBounds, SensedFacts
    <3>3. numSamples * (MARGIN + Greatest - Least)
              = numSamples * MARGIN + numSamples * (Greatest - Least)
      BY <1>4, SensedFacts
    <3>4. numSamples * (Greatest - Least) \in Int /\ numSamples * MARGIN >= 0
      BY <1>4, SensedFacts
    <3> QED BY <2>1, <2>2, <3>1, <3>2, <3>3, <3>4
  <2>6. HonestLearned'
    BY <1>1, <1>3, <2>1, <2>4, <2>5 DEF HonestLearned
  <2> QED BY <1>5, <2>3, <2>6 DEF BoardLearned
<1>9. CASE Read(v)
  <2>1. /\ pc = "loop" /\ i = numSamples
        /\ moving' = IF Deviation(v) > threshold THEN 1 ELSE 0
        /\ honest' = honest /\ UNCHANGED <<pc, i, sum, threshold>>
    BY <1>9 DEF Read, Sample, SetThreshold, GetEvent, BoardLearned, Typed
  <2>2. Typed'
    BY <1>1, <1>2, <1>4, <2>1 DEF Typed
  <2>3. good' => Deviation(Sensed(truth))' = Deviation(v)
    BY <1>1, <1>3, <2>1 DEF Deviation
  <2>4. HonestLearned'
    BY <1>3, <2>1, <2>3 DEF BoardLearned, HonestLearned
  <2> QED BY <1>5, <2>2, <2>4 DEF BoardLearned
<1> QED BY <1>7, <1>8, <1>9 DEF GetEvent

LEMMA BoardLearnedHolds == BoardSpec => []BoardLearned
<1>1. BoardLearned /\ [BoardNext]_boardVars => BoardLearned'
  <2>1. BoardLearned /\ UNCHANGED boardVars => BoardLearned'
    BY DEF BoardLearned, ChipSettled, NothingRead, Typed, HonestLearned, Least, Greatest,
           Sensed, Deviation, boardVars, vars, driver, chip, reading
  <2> QED BY <2>1, DriverStep, ReadingStep DEF BoardNext
<1> QED BY <1>1, BoardLearnedInit, PTL DEF BoardSpec

\* What rest is taken for, whatever has failed while the chip was set up.
THEOREM RestIsQuiet == BoardSpec => []TrueRestIsQuiet
<1>1. BoardLearned => TrueRestIsQuiet
  <2> SUFFICES ASSUME BoardLearned, honest, good, truth \in Rest, moving /= 0 PROVE FALSE
    BY DEF TrueRestIsQuiet
  <2>1. /\ pc = "loop" /\ i = numSamples /\ sum \in Int /\ threshold \in Int
        /\ moving = 1 /\ truth \in Int
    BY DEF BoardLearned, Typed
  <2>2. /\ numSamples * Least <= sum /\ sum <= numSamples * Greatest
        /\ numSamples * MARGIN <= threshold /\ Deviation(Sensed(truth)) > threshold
    BY <2>1 DEF BoardLearned, HonestLearned
  <2>3. /\ Deviation(Sensed(truth)) \in Int
        /\ Deviation(Sensed(truth)) <= numSamples * (Greatest - Least)
    BY <2>1, <2>2, DeviationBounds, SensedFacts
  <2>4. numSamples \in Nat /\ MARGIN \in Nat
    BY CalibrationAssumption
  <2>5. /\ Low \in Int /\ High \in Int /\ Greatest - Least \in Int
        /\ Greatest - Least <= MARGIN
    BY CalibrationAssumption, SensedFacts
  <2>6. /\ numSamples * (Greatest - Least) <= numSamples * MARGIN
        /\ numSamples * (Greatest - Least) \in Int /\ numSamples * MARGIN \in Int
    BY <2>4, <2>5, Scaled
  <2> QED BY <2>1, <2>2, <2>3, <2>6
<1> QED BY <1>1, BoardLearnedHolds, PTL

\* What a strong pull is taken for, unless the chip was never woken.
THEOREM PullIsHeard == BoardSpec => []TruePullIsHeard
<1>1. BoardLearned => TruePullIsHeard
  <2> SUFFICES ASSUME BoardLearned, pc = "loop", honest, woken, good, Strong(truth)
               PROVE  moving = 1
    BY DEF TruePullIsHeard
  <2>1. /\ i = numSamples /\ sum \in Int /\ threshold \in Int /\ truth \in Int /\ ~asleep
    BY DEF BoardLearned, Typed, ChipSettled
  <2>2. /\ numSamples * Least <= sum /\ sum <= numSamples * Greatest
        /\ threshold <= numSamples * (MARGIN + Greatest - Least)
        /\ moving = 1 <=> Deviation(Sensed(truth)) > threshold
    BY <2>1 DEF BoardLearned, HonestLearned
  <2>3. \/ Sensed(truth) - Greatest > Greatest - Least + MARGIN
        \/ Least - Sensed(truth) > Greatest - Least + MARGIN
    BY <2>1, CalibrationAssumption, AccelerometerAssumption
       DEF Strong, Sensed, Least, Greatest
  <2>4. /\ Deviation(Sensed(truth)) \in Int
        /\ Deviation(Sensed(truth)) > numSamples * (MARGIN + Greatest - Least)
    BY <2>1, <2>2, <2>3, DeviationBounds, SensedFacts
  <2>5. numSamples * (MARGIN + Greatest - Least) \in Int
    BY CalibrationAssumption, SensedFacts
  <2> QED BY <2>1, <2>2, <2>4, <2>5
<1> QED BY <1>1, BoardLearnedHolds, PTL

TriesLeft == place = "probe" => tries < MaxTries

\* Whatever transfers fail, every variable of the board has its type; and begin()
\* gives the chip up after MaxTries attempts (lines 81 to 89 of the driver).
THEOREM BoardTyped == BoardSpec => []BoardTypeOK
<1>1. BoardInit => BoardTypeOK /\ TriesLeft
  <2>1. MaxTries \in Nat /\ 0 < MaxTries
    BY AccelerometerAssumption
  <2>2. BoardInit => tries \in 0..MaxTries /\ TriesLeft
    BY <2>1 DEF BoardInit, TriesLeft
  <2>3. BoardInit => /\ resetting \in BOOLEAN /\ good \in BOOLEAN /\ honest \in BOOLEAN
                     /\ woken \in BOOLEAN
    BY DEF BoardInit
  <2> QED BY <2>2, <2>3 DEF BoardInit, BoardTypeOK
<1>2. BoardTypeOK /\ TriesLeft /\ [BoardNext]_boardVars => BoardTypeOK' /\ TriesLeft'
  <2> SUFFICES ASSUME BoardTypeOK, TriesLeft, [BoardNext]_boardVars
               PROVE  BoardTypeOK' /\ TriesLeft'
    OBVIOUS
  <2>1. CASE Probe
    BY <2>1, AccelerometerAssumption DEF Probe, SetupFrame, chip, reading, BoardTypeOK, TriesLeft
  <2>2. CASE Identify \/ Reset \/ AwaitReset \/ SetAccelerometerRange \/ Wake
    BY <2>2 DEF Identify, Reset, AwaitReset, SetAccelerometerRange, Wake, SetupFrame, chip,
                reading, BoardTypeOK, TriesLeft
  <2>3. CASE ResetDone
    BY <2>3 DEF ResetDone, SetupFrame, driver, reading, BoardTypeOK, TriesLeft
  <2>4. ASSUME NEW a \in Accelerations, NEW ok \in BOOLEAN, NEW v, GetEvent(a, v, ok)
        PROVE  BoardTypeOK' /\ TriesLeft'
    <3>1. honest' \in BOOLEAN
      BY <2>4 DEF GetEvent, BoardTypeOK
    <3> QED BY <2>4, <3>1 DEF GetEvent, driver, chip, BoardTypeOK, TriesLeft
  <2>5. CASE UNCHANGED boardVars
    BY <2>5 DEF boardVars, driver, chip, reading, BoardTypeOK, TriesLeft
  <2> QED BY <2>1, <2>2, <2>3, <2>4, <2>5 DEF BoardNext, Begin
<1> QED BY <1>1, <1>2, PTL DEF BoardSpec
=============================================================================
