-------------------------------- MODULE Lamps --------------------------------
(***************************************************************************)
(* The lamps of the receiver: setBoardColor() and RGB_reset() of           *)
(* src/Reciver/Reciver.ino, pin by pin over the driver of the AW9523       *)
(* expanders. A pin is written by reading the output register of its port, *)
(* changing a bit and writing it back; the driver looks at neither result, *)
(* and a read that fails returns all ones.                                 *)
(*                                                                         *)
(* A register is the set of pins of which the bit is 1. The sketch is the  *)
(* only user of the bus, so one digitalWrite() or pinMode() is one step.   *)
(*                                                                         *)
(* A definition marked "Slip" is not part of the model: it is the one      *)
(* below it with a plausible mistake, which some property must notice.     *)
(***************************************************************************)
EXTENDS Integers

CONSTANTS
    NCHIPS,    \* expanders
    NLAMPS,
    Chip,      \* the expander of a lamp
    Pin,       \* its pins, of each primary colour
    PowerUp,   \* what the output registers may hold after a reset
    MaxFaults  \* bound: transfers that fail

Chips == 1..NCHIPS
Lamps == 1..NLAMPS
Primary == {"red", "green", "blue"}
Colours == {"off"} \cup Primary
Pins == 0..15
Port(p) == {q \in Pins : q \div 8 = p \div 8}
Ports == Chips \X {0, 1}
PortOf(x, p) == <<x, p \div 8>>

ASSUME LampsAssumption ==
    /\ NCHIPS \in Nat \ {0} /\ NLAMPS \in Nat \ {0} /\ MaxFaults \in Nat
    /\ PowerUp \subseteq SUBSET Pins
    /\ Chip \in [Lamps -> Chips] /\ Pin \in [Lamps -> [Primary -> Pins]]
    /\ \A l, m \in Lamps : \A a, b \in Primary :
           Chip[l] = Chip[m] /\ Pin[l][a] = Pin[m][b] => l = m /\ a = b

VARIABLES
    pc,
    i, c,      \* the pin and the expander a loop has reached
    output,    \* output registers
    input,     \* direction registers
    gpio,      \* mode registers: a pin that is not in them dims a lamp
    pushPull,  \* the bit of the control register that lets port 0 drive
    lamp,      \* the arguments of setBoardColor
    panel,     \* history: the colours asked for, with the call that runs
    before,    \* history: the colours asked for before that call
    told,      \* history: the last value each pin was given
    stale,     \* history: ports not yet known to hold what they were told
    failed,    \* history: ports of which a transfer failed since the last reset began
    lame,      \* history: ports of which a transfer that counts failed in set-up
    faults

loop == <<pc, i, c>>
setting == <<input, gpio, pushPull>>
history == <<panel, before, told, stale, failed, lame>>
vars == <<loop, output, setting, lamp, history, faults>>

AllOff == [l \in Lamps |-> "off"]
Parts(colour) == IF colour = "off" THEN {} ELSE {colour}

-----------------------------------------------------------------------------
(***************************************************************************)
(* Transfers. How a read-modify-write goes: "ok", or its read or its write *)
(* is not acknowledged.                                                    *)
(***************************************************************************)
Ways == {"ok", "noRead", "noWrite"}

Fails(how) ==
    /\ how /= "ok" => faults < MaxFaults
    /\ faults' = IF how = "ok" THEN faults ELSE faults + 1

\* Adafruit_BusIO_RegisterBits::write with one bit.
WriteBit(reg, x, p, high, how) ==
    LET read == IF how = "noRead" THEN Port(p) ELSE reg[x] \cap Port(p) IN
    IF how = "noWrite" THEN reg
    ELSE [reg EXCEPT ![x] = (@ \ Port(p)) \cup (read \ {p}) \cup {q \in {p} : high}]

\* digitalWrite: the sketch is not told whether it has worked.
DigitalWrite(x, p, high) ==
    \E how \in Ways :
        /\ Fails(how)
        /\ output' = WriteBit(output, x, p, high, how)
        /\ told' = [told EXCEPT ![x] = IF high THEN @ \cup {p} ELSE @ \ {p}]
        /\ failed' = IF how = "ok" THEN failed ELSE failed \cup {PortOf(x, p)}

\* The inner step of a loop over all pins, and for each over all expanders.
LoopOn == IF c < NCHIPS THEN c' = c + 1 /\ i' = i ELSE c' = 1 /\ i' = i + 1
LastPin == i = 15 /\ c = NCHIPS

-----------------------------------------------------------------------------
(***************************************************************************)
(* SystemSetup(): begin() of each expander, and pinMode() of each pin.     *)
(***************************************************************************)
SetupFrame == UNCHANGED <<lamp, panel, before, told, stale, failed>>

\* No answer, no reset, or not the chip: the sketch stops.
ExpanderMissing ==
    /\ pc = "begin" /\ pc' = "stuck"
    /\ UNCHANGED <<i, c, output, setting, lame, faults>> /\ SetupFrame

\* What configureDirection() makes of a direction register, the failing write
\* ending it, and openDrainPort0() of a bit that is 0 after a reset. Neither
\* result is looked at. A failed read sets the bit as well as it should.
ConfigureDirection == {Pins, {}, Port(0)}

Lost(direction, drives) ==
    (IF direction = Pins THEN 0 ELSE 1) + (IF drives THEN 0 ELSE 1)

Begin ==
    /\ pc = "begin"
    /\ \E high \in PowerUp : output' = [output EXCEPT ![c] = high]
    /\ \E direction \in ConfigureDirection, drives \in BOOLEAN :
           /\ faults + Lost(direction, drives) <= MaxFaults
           /\ faults' = faults + Lost(direction, drives)
           /\ input' = [input EXCEPT ![c] = direction]
           /\ gpio' = [gpio EXCEPT ![c] = Pins]
           /\ pushPull' = [pushPull EXCEPT ![c] = drives]
           /\ lame' = IF drives THEN lame ELSE lame \cup {<<c, 0>>}
    /\ IF c < NCHIPS THEN c' = c + 1 /\ pc' = pc ELSE c' = 1 /\ pc' = "pinMode"
    /\ UNCHANGED i /\ SetupFrame

\* pinMode(i, OUTPUT). The mode bit is 1 before, whatever becomes of its write.
PinMode ==
    /\ pc = "pinMode"
    /\ \E how \in Ways :
           /\ Fails(how)
           /\ input' = WriteBit(input, c, i, FALSE, how)
           /\ lame' = IF how = "ok" THEN lame ELSE lame \cup {PortOf(c, i)}
    /\ \E how \in Ways : gpio' = WriteBit(gpio, c, i, TRUE, how)
    /\ IF LastPin THEN pc' = "idle" /\ c' = 1 /\ i' = 0 ELSE pc' = pc /\ LoopOn
    /\ UNCHANGED <<output, pushPull>> /\ SetupFrame

-----------------------------------------------------------------------------
(***************************************************************************)
(* setBoardColor() and RGB_reset(). The receiver never lights two lamps:   *)
(* LampsFollowTrial of Experiment.                                         *)
(***************************************************************************)
CallFrame == UNCHANGED <<setting, lame>>

SetBoardColor(l, colour) ==
    /\ pc = "idle" /\ \A m \in Lamps \ {l} : panel[m] = "off"
    /\ pc' = "red" /\ lamp' = l
    /\ panel' = [panel EXCEPT ![l] = colour] /\ before' = panel
    /\ UNCHANGED <<i, c, output, told, stale, failed, faults>> /\ CallFrame

\* Red, then green, then blue.
After(colour) ==
    CASE colour = "red" -> "green" [] colour = "green" -> "blue" [] OTHER -> "idle"

WriteColour ==
    /\ pc \in Primary
    /\ DigitalWrite(Chip[lamp], Pin[lamp][pc], panel[lamp] = pc)
    /\ pc' = After(pc)
    /\ before' = IF pc = "blue" THEN panel ELSE before
    /\ UNCHANGED <<i, c, lamp, panel, stale>> /\ CallFrame

RGBReset ==
    /\ pc = "idle" /\ pc' = "reset"
    /\ panel' = AllOff /\ before' = panel
    /\ stale' = stale \cup failed /\ failed' = {}
    /\ UNCHANGED <<i, c, output, told, lamp, faults>> /\ CallFrame

\* Slip: the loop ends before pin 15.
ResetPinShort ==
    /\ pc = "reset"
    /\ DigitalWrite(c, i, FALSE)
    /\ IF i = 14 /\ c = NCHIPS
       THEN pc' = "idle" /\ c' = 1 /\ i' = 0 /\ stale' = {} /\ before' = panel
       ELSE pc' = pc /\ LoopOn /\ UNCHANGED <<stale, before>>
    /\ UNCHANGED <<panel, lamp>> /\ CallFrame

ResetPin ==
    /\ pc = "reset"
    /\ DigitalWrite(c, i, FALSE)
    /\ IF LastPin
       THEN pc' = "idle" /\ c' = 1 /\ i' = 0 /\ stale' = {} /\ before' = panel
       ELSE pc' = pc /\ LoopOn /\ UNCHANGED <<stale, before>>
    /\ UNCHANGED <<panel, lamp>> /\ CallFrame

-----------------------------------------------------------------------------
Init ==
    /\ pc = "begin" /\ i = 0 /\ c = 1
    /\ output = [x \in Chips |-> {}] /\ input = [x \in Chips |-> {}]
    /\ gpio = [x \in Chips |-> Pins] /\ pushPull = [x \in Chips |-> FALSE]
    /\ lamp = 1 /\ panel = AllOff /\ before = AllOff
    /\ told = [x \in Chips |-> {}]
    /\ stale = Ports /\ failed = {} /\ lame = {} /\ faults = 0

Next ==
    \/ ExpanderMissing \/ Begin \/ PinMode
    \/ \E l \in Lamps, colour \in Primary : SetBoardColor(l, colour)
    \/ WriteColour \/ RGBReset \/ ResetPin

Spec == Init /\ [][Next]_vars

-----------------------------------------------------------------------------
(***************************************************************************)
(* Properties.                                                             *)
(***************************************************************************)
SetupPlaces == {"begin", "pinMode", "stuck"}

TypeOK ==
    /\ pc \in SetupPlaces \cup {"idle", "reset"} \cup Primary
    /\ i \in Pins /\ c \in Chips
    /\ output \in [Chips -> SUBSET Pins] /\ input \in [Chips -> SUBSET Pins]
    /\ gpio \in [Chips -> SUBSET Pins] /\ pushPull \in [Chips -> BOOLEAN]
    /\ lamp \in Lamps
    /\ panel \in [Lamps -> Colours] /\ before \in [Lamps -> Colours]
    /\ told \in [Chips -> SUBSET Pins]
    /\ stale \subseteq Ports /\ failed \subseteq Ports /\ lame \subseteq Ports
    /\ faults \in 0..MaxFaults

\* Pin p of expander x gives light.
Driven(x, p) ==
    /\ p \in output[x] /\ p \notin input[x] /\ p \in gpio[x]
    /\ p < 8 => pushPull[x]

Shown(l) == {a \in Primary : Driven(Chip[l], Pin[l][a])}

\* No transfer to a port of lamp l failed since the last whole reset, or in set-up
\* so that it cannot be made good.
Sound(l) ==
    \A a \in Primary : PortOf(Chip[l], Pin[l][a]) \notin stale \cup failed \cup lame

\* A lamp shows what it was told, whatever has failed on other ports, or on its own
\* before the last whole reset; while a call runs, nothing that neither the colour
\* before nor the new one has (lines 690 to 698 and 803 to 817).
LampsTrue ==
    pc \notin SetupPlaces => \A l \in Lamps : Sound(l) =>
        /\ pc = "idle" => Shown(l) = Parts(panel[l])
        /\ Shown(l) \subseteq Parts(panel[l]) \cup Parts(before[l])
=============================================================================
