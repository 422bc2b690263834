----------------------------- MODULE LampsProofs -----------------------------
(***************************************************************************)
(* The lamps show what they were told, for any number of expanders, lamps  *)
(* and failing transfers, and any wiring in which no two lamps share a     *)
(* pin. The inductive invariant follows a value from the sketch to the     *)
(* light in three parts: what a pin was told is what the panel says        *)
(* (ToldPanel), a register holds what it was told (Held), and the settings *)
(* let the register drive the lamp (Settled).                              *)
(***************************************************************************)
EXTENDS Lamps, TLAPS

\* The loop over pins and expanders has dealt with pin p of expander x.
Passed(x, p) == p < i \/ (p = i /\ x < c)

\* The call has written primary a.
Written(a) ==
    \/ a = "red" /\ pc \in {"green", "blue"}
    \/ a = "green" /\ pc = "blue"

IsTold(l, a) == Pin[l][a] \in told[Chip[l]]

ToldPanel ==
    /\ pc \in SetupPlaces => \A x \in Chips : told[x] = {}
    /\ pc \in SetupPlaces => panel = AllOff
    /\ pc \in SetupPlaces \cup {"idle"} => before = panel
    /\ pc = "idle" => \A l \in Lamps, a \in Primary : IsTold(l, a) <=> a = panel[l]
    /\ pc \in Primary => \A l \in Lamps, a \in Primary :
           IsTold(l, a) <=> a = IF l = lamp /\ ~Written(a) THEN before[l] ELSE panel[l]
    /\ pc \in Primary => \A l \in Lamps \ {lamp} : before[l] = panel[l]
    /\ pc = "reset" => panel = AllOff
    /\ pc = "reset" => \A l \in Lamps, a \in Primary : IsTold(l, a) => a = before[l]
    /\ pc = "reset" => \A x \in Chips, p \in Pins : Passed(x, p) => p \notin told[x]

Held ==
    /\ \A x \in Chips, p \in Pins :
           PortOf(x, p) \notin stale \cup failed => (p \in output[x] <=> p \in told[x])
    /\ pc = "reset" => \A x \in Chips, p \in Pins :
           Passed(x, p) /\ PortOf(x, p) \notin failed => p \notin output[x]

Settled ==
    /\ \A x \in Chips : gpio[x] = Pins
    /\ \A x \in Chips :
           pc \notin {"begin", "stuck"} \/ (pc = "begin" /\ x < c) => pushPull[x] \/ PortOf(x, 0) \in lame
    /\ pc \notin {"begin", "stuck"} => \A x \in Chips, p \in Pins :
           (pc = "pinMode" => Passed(x, p)) /\ PortOf(x, p) \notin lame => p \notin input[x]

AtStart ==
    /\ pc \notin {"begin", "pinMode", "reset", "stuck"} => i = 0 /\ c = 1
    /\ pc = "begin" => i = 0
    /\ pc \in SetupPlaces => stale = Ports

IInv == TypeOK /\ AtStart /\ ToldPanel /\ Held /\ Settled

-----------------------------------------------------------------------------
(***************************************************************************)
(* Transfers.                                                              *)
(***************************************************************************)
\* A port has its eight pins, and a pin one port.
LEMMA PinFacts ==
    /\ \A p \in Pins : p \div 8 \in {0, 1} /\ (p < 8 <=> p \div 8 = 0)
    /\ \A p, q \in Pins : q \in Port(p) <=> q \div 8 = p \div 8
    BY DEF Pins, Port

\* A read-modify-write (Adafruit_BusIO_Register.cpp, lines 323 to 336) leaves every
\* other port alone; when it works it changes the one bit.
LEMMA WriteBitEffect ==
    ASSUME NEW reg \in [Chips -> SUBSET Pins], NEW x \in Chips, NEW p \in Pins,
           NEW high \in BOOLEAN, NEW how \in Ways
    PROVE  /\ WriteBit(reg, x, p, high, how) \in [Chips -> SUBSET Pins]
           /\ \A y \in Chips, q \in Pins : PortOf(y, q) /= PortOf(x, p) =>
                  (q \in WriteBit(reg, x, p, high, how)[y] <=> q \in reg[y])
           /\ how = "ok" => \A y \in Chips, q \in Pins :
                  q \in WriteBit(reg, x, p, high, how)[y] <=>
                      IF y = x /\ q = p THEN high ELSE q \in reg[y]
  <1> DEFINE read == IF how = "noRead" THEN Port(p) ELSE reg[x] \cap Port(p)
             new == (reg[x] \ Port(p)) \cup (read \ {p}) \cup {q \in {p} : high}
  <1>1. WriteBit(reg, x, p, high, how) =
            IF how = "noWrite" THEN reg ELSE [reg EXCEPT ![x] = new]
    BY DEF WriteBit
  <1>2. new \subseteq Pins /\ Port(p) \subseteq Pins
    BY DEF Port
  <1>3. \A q \in Pins : q \div 8 /= p \div 8 => (q \in new <=> q \in reg[x])
    BY PinFacts
  <1>4. how = "ok" => \A q \in Pins : q \in new <=> IF q = p THEN high ELSE q \in reg[x]
    BY PinFacts
  <1> HIDE DEF new
  <1> QED
    BY <1>1, <1>2, <1>3, <1>4 DEF PortOf, Ways

\* What digitalWrite() does to a port, and what it remembers.
LEMMA DigitalWriteEffect ==
    ASSUME TypeOK, NEW x \in Chips, NEW p \in Pins, NEW high \in BOOLEAN,
           DigitalWrite(x, p, high)
    PROVE  /\ output' \in [Chips -> SUBSET Pins] /\ told' \in [Chips -> SUBSET Pins]
           /\ failed' \subseteq Ports /\ faults' \in 0..MaxFaults
           /\ failed \subseteq failed'
           /\ \A y \in Chips, q \in Pins : PortOf(y, q) \notin failed' =>
                  (q \in output'[y] <=> IF y = x /\ q = p THEN high ELSE q \in output[y])
           /\ \A y \in Chips, q \in Pins :
                  q \in told'[y] <=> IF y = x /\ q = p THEN high ELSE q \in told[y]
  <1>1. PICK how \in Ways :
            /\ Fails(how)
            /\ output' = WriteBit(output, x, p, high, how)
            /\ told' = [told EXCEPT ![x] = IF high THEN @ \cup {p} ELSE @ \ {p}]
            /\ failed' = IF how = "ok" THEN failed ELSE failed \cup {PortOf(x, p)}
    BY DEF DigitalWrite
  <1>2. PortOf(x, p) \in Ports
    BY PinFacts DEF PortOf, Ports
  <1>3. faults' \in 0..MaxFaults
    BY <1>1, LampsAssumption DEF TypeOK, Fails
  <1>4. /\ output' \in [Chips -> SUBSET Pins]
        /\ \A y \in Chips, q \in Pins : PortOf(y, q) \notin failed' =>
               (q \in output'[y] <=> IF y = x /\ q = p THEN high ELSE q \in output[y])
    <2>1. output \in [Chips -> SUBSET Pins]
      BY DEF TypeOK
    <2>2. CASE how = "ok"
      BY <1>1, <2>1, <2>2, WriteBitEffect
    <2>3. CASE how /= "ok"
      <3>1. PortOf(x, p) \in failed'
        BY <1>1, <2>3
      <3>2. \A y \in Chips, q \in Pins :
                PortOf(y, q) \notin failed' => PortOf(y, q) /= PortOf(x, p)
        BY <3>1
      <3>3. output' \in [Chips -> SUBSET Pins] /\ \A y \in Chips, q \in Pins :
                PortOf(y, q) /= PortOf(x, p) => (q \in output'[y] <=> q \in output[y])
        BY <1>1, <2>1, WriteBitEffect
      <3>4. \A y \in Chips, q \in Pins :
                PortOf(y, q) /= PortOf(x, p) => ~(y = x /\ q = p)
        OBVIOUS
      <3> QED BY <3>2, <3>3, <3>4
    <2> QED BY <2>2, <2>3
  <1>5. /\ told' \in [Chips -> SUBSET Pins]
        /\ \A y \in Chips, q \in Pins :
               q \in told'[y] <=> IF y = x /\ q = p THEN high ELSE q \in told[y]
    BY <1>1 DEF TypeOK
  <1>6. failed' \subseteq Ports /\ failed \subseteq failed'
    BY <1>1, <1>2 DEF TypeOK
  <1> QED
    BY <1>3, <1>4, <1>5, <1>6

\* The loop: the pin that is dealt with joins those that were, and nothing else.
LEMMA LoopPasses ==
    ASSUME i \in Pins, c \in Chips, ~LastPin, LoopOn
    PROVE  /\ i' \in Pins /\ c' \in Chips
           /\ \A x \in Chips, p \in Pins :
                  Passed(x, p)' <=> Passed(x, p) \/ (p = i /\ x = c)
    BY LampsAssumption DEF Pins, Chips, LastPin, LoopOn, Passed

\* At the last pin all others have been dealt with.
LEMMA LastPinPasses ==
    ASSUME LastPin
    PROVE  \A x \in Chips, p \in Pins : Passed(x, p) \/ (p = i /\ x = c)
    BY LampsAssumption DEF Pins, Chips, LastPin, Passed

-----------------------------------------------------------------------------
(***************************************************************************)
(* The invariant.                                                          *)
(***************************************************************************)
LEMMA InitHolds == Init => IInv
  <1> SUFFICES ASSUME Init PROVE IInv
    OBVIOUS
  <1> USE LampsAssumption DEF Init
  <1>1. TypeOK
    BY DEF TypeOK, SetupPlaces, Pins, Chips, Lamps, AllOff, Colours, Primary
  <1>2. AtStart /\ ToldPanel
    BY DEF AtStart, ToldPanel, SetupPlaces, Primary
  <1>3. Held
    BY PinFacts DEF Held, PortOf, Ports
  <1>4. Settled
    BY DEF Settled, Chips
  <1> QED BY <1>1, <1>2, <1>3, <1>4 DEF IInv

\* Set-up tells no pin anything, and every port is stale throughout.
LEMMA SetupKeepsTold ==
    ASSUME IInv, pc \in SetupPlaces, SetupFrame, output' \in [Chips -> SUBSET Pins],
           pc' \in SetupPlaces \cup {"idle"}
    PROVE  ToldPanel' /\ Held'
  <1>1. ToldPanel'
    <2>1. /\ \A x \in Chips : told'[x] = {}
          /\ panel' = AllOff /\ before' = AllOff
      BY DEF IInv, ToldPanel, SetupFrame
    <2>2. \A l \in Lamps, a \in Primary : ~IsTold(l, a)' /\ a /= panel'[l]
      BY <2>1, LampsAssumption DEF IsTold, AllOff, Primary
    <2> QED
      BY <2>1, <2>2 DEF ToldPanel, SetupPlaces, Primary
  <1>2. stale' = Ports
    BY DEF IInv, AtStart, SetupFrame
  <1> QED
    BY <1>1, <1>2, PinFacts DEF Held, PortOf, Ports, SetupPlaces

\* begin() of an expander.
LEMMA BeginStep ==
    ASSUME IInv, Begin
    PROVE  IInv'
  <1> USE LampsAssumption
  <1>1. PICK direction \in ConfigureDirection, drives \in BOOLEAN :
            /\ faults + Lost(direction, drives) <= MaxFaults
            /\ faults' = faults + Lost(direction, drives)
            /\ input' = [input EXCEPT ![c] = direction]
            /\ gpio' = [gpio EXCEPT ![c] = Pins]
            /\ pushPull' = [pushPull EXCEPT ![c] = drives]
            /\ lame' = IF drives THEN lame ELSE lame \cup {<<c, 0>>}
    BY DEF Begin, IInv, TypeOK
  <1>2. /\ pc = "begin" /\ i = 0 /\ i' = i /\ c \in Chips
        /\ IF c < NCHIPS THEN c' = c + 1 /\ pc' = pc ELSE c' = 1 /\ pc' = "pinMode"
    BY DEF Begin, IInv, TypeOK, AtStart
  <1>3. c' \in Chips
    BY <1>2 DEF Chips
  <1>4. TypeOK'
    <2>1. direction \subseteq Pins
      BY <1>1 DEF ConfigureDirection, Port
    <2>2. output' \in [Chips -> SUBSET Pins]
      BY DEF Begin, IInv, TypeOK
    <2>3. faults' \in 0..MaxFaults
      <3>1. Lost(direction, drives) \in 0..2
        BY DEF Lost
      <3> QED BY <1>1, <3>1 DEF IInv, TypeOK
    <2>4. lame' \subseteq Ports
      BY <1>1, <1>2 DEF IInv, TypeOK, Ports
    <2>5. input' \in [Chips -> SUBSET Pins] /\ gpio' \in [Chips -> SUBSET Pins]
          /\ pushPull' \in [Chips -> BOOLEAN]
      BY <1>1, <2>1 DEF IInv, TypeOK
    <2> QED
      BY <1>2, <1>3, <2>2, <2>3, <2>4, <2>5
      DEF Begin, SetupFrame, IInv, TypeOK, SetupPlaces
  <1>5. AtStart'
    BY <1>2 DEF Begin, SetupFrame, IInv, AtStart, SetupPlaces
  <1>6. ToldPanel' /\ Held'
    BY <1>2, <1>4, SetupKeepsTold DEF Begin, TypeOK, SetupPlaces
  <1>7. Settled'
    <2>1. PortOf(c, 0) = <<c, 0>>
      BY DEF PortOf
    <2>2. \A x \in Chips : gpio'[x] = Pins
      BY <1>1 DEF IInv, TypeOK, Settled
    <2>3. \A x \in Chips : x < c \/ x = c => pushPull'[x] \/ PortOf(x, 0) \in lame'
      BY <1>1, <1>2, <2>1 DEF IInv, TypeOK, Settled
    <2>4. \A x \in Chips : pc' = "begin" /\ x < c' => x < c \/ x = c
      BY <1>2 DEF Chips
    <2>5. \A x \in Chips : pc' = "pinMode" => x < c \/ x = c
      BY <1>2 DEF Chips
    <2>6. pc' = "pinMode" => \A x \in Chips, p \in Pins : ~Passed(x, p)'
      BY <1>2 DEF Passed, Chips, Pins
    <2> QED
      BY <1>2, <2>2, <2>3, <2>4, <2>5, <2>6 DEF Settled
  <1> QED BY <1>4, <1>5, <1>6, <1>7 DEF IInv

\* pinMode() of a pin.
LEMMA PinModeStep ==
    ASSUME IInv, PinMode
    PROVE  IInv'
  <1> USE LampsAssumption
  <1>1. PICK how \in Ways :
            /\ Fails(how)
            /\ input' = WriteBit(input, c, i, FALSE, how)
            /\ lame' = IF how = "ok" THEN lame ELSE lame \cup {PortOf(c, i)}
    BY DEF PinMode
  <1>2. PICK also \in Ways : gpio' = WriteBit(gpio, c, i, TRUE, also)
    BY DEF PinMode
  <1>3. /\ pc = "pinMode" /\ i \in Pins /\ c \in Chips
        /\ \/ LastPin /\ pc' = "idle" /\ c' = 1 /\ i' = 0
           \/ ~LastPin /\ pc' = "pinMode" /\ LoopOn
    BY DEF PinMode, IInv, TypeOK
  <1>4. i' \in Pins /\ c' \in Chips
    BY <1>3, LoopPasses DEF Pins, Chips
  <1>5. input' \in [Chips -> SUBSET Pins]
    BY <1>1, <1>3, WriteBitEffect DEF IInv, TypeOK
  <1>6. \A x \in Chips : gpio'[x] = Pins
    <2>1. gpio \in [Chips -> SUBSET Pins] /\ \A x \in Chips : gpio[x] = Pins
      BY DEF IInv, TypeOK, Settled
    <2>2. Port(i) \subseteq Pins
      BY DEF Port
    <2> QED
      BY <1>2, <1>3, <2>1, <2>2 DEF WriteBit
  <1>7. TypeOK'
    <2>1. gpio' \in [Chips -> SUBSET Pins]
      BY <1>2, <1>3, WriteBitEffect DEF IInv, TypeOK
    <2>2. faults' \in 0..MaxFaults
      BY <1>1 DEF Fails, IInv, TypeOK
    <2>3. PortOf(c, i) \in Ports
      BY <1>3, PinFacts DEF PortOf, Ports
    <2>4. lame' \subseteq Ports
      BY <1>1, <2>3 DEF IInv, TypeOK
    <2> QED
      BY <1>3, <1>4, <1>5, <2>1, <2>2, <2>4
      DEF PinMode, SetupFrame, IInv, TypeOK, SetupPlaces
  <1>8. AtStart'
    BY <1>3 DEF PinMode, SetupFrame, IInv, AtStart, SetupPlaces
  <1>9. ToldPanel' /\ Held'
    BY <1>3, <1>7, SetupKeepsTold DEF PinMode, TypeOK, SetupPlaces
  <1>10. Settled'
    <2>1. lame \subseteq lame'
      BY <1>1
    <2>2. \A x \in Chips : pushPull'[x] \/ PortOf(x, 0) \in lame'
      BY <1>3, <2>1 DEF PinMode, IInv, Settled
    <2>3. \A x \in Chips, p \in Pins :
              (Passed(x, p) \/ (p = i /\ x = c)) /\ PortOf(x, p) \notin lame' => p \notin input'[x]
      <3>1. SUFFICES ASSUME NEW x \in Chips, NEW p \in Pins, PortOf(x, p) \notin lame',
                            Passed(x, p) \/ (p = i /\ x = c)
                     PROVE  p \notin input'[x]
        OBVIOUS
      <3>2. ~(p = i /\ x = c) => p \notin input[x]
        BY <1>3, <2>1, <3>1 DEF IInv, Settled
      <3>3. CASE how = "ok"
        <4>1. p \in input'[x] <=> IF x = c /\ p = i THEN FALSE ELSE p \in input[x]
          BY <1>1, <1>3, <3>3, WriteBitEffect DEF IInv, TypeOK
        <4> QED BY <3>2, <4>1
      <3>4. CASE how /= "ok"
        <4>1. PortOf(x, p) /= PortOf(c, i)
          BY <1>1, <3>1, <3>4
        <4>2. p \in input'[x] <=> p \in input[x]
          BY <1>1, <1>3, <4>1, WriteBitEffect DEF IInv, TypeOK
        <4> QED BY <3>2, <4>1, <4>2
      <3> QED BY <3>3, <3>4
    <2>4. CASE LastPin
      BY <1>3, <1>6, <2>2, <2>3, <2>4, LastPinPasses DEF Settled
    <2>5. CASE ~LastPin
      BY <1>3, <1>6, <2>2, <2>3, <2>5, LoopPasses DEF Settled
    <2> QED BY <2>4, <2>5
  <1> QED BY <1>7, <1>8, <1>9, <1>10 DEF IInv

\* setBoardColor() begins: nothing is written yet.
LEMMA SetBoardColorStep ==
    ASSUME IInv, NEW l \in Lamps, NEW colour \in Primary, SetBoardColor(l, colour)
    PROVE  IInv'
  <1> USE LampsAssumption DEF SetBoardColor, CallFrame, setting
  <1>1. TypeOK'
    BY DEF IInv, TypeOK, Colours, Primary, history
  <1>2. AtStart' /\ Held' /\ Settled'
    BY DEF IInv, AtStart, Held, Settled, SetupPlaces, Passed, PortOf
  <1>3. ToldPanel'
    <2>1. \A m \in Lamps, a \in Primary : IsTold(m, a)' <=> a = panel[m]
      BY DEF IInv, ToldPanel, IsTold
    <2>2. \A a \in Primary : ~Written(a)'
      BY DEF Written
    <2>3. \A m \in Lamps \ {l} : panel'[m] = panel[m]
      BY DEF IInv, TypeOK
    <2> QED
      BY <2>1, <2>2, <2>3 DEF ToldPanel, SetupPlaces, Primary
  <1> QED BY <1>1, <1>2, <1>3 DEF IInv

\* One of its three writes. No other lamp has the pin.
LEMMA WriteColourStep ==
    ASSUME IInv, WriteColour
    PROVE  IInv'
  <1> USE LampsAssumption
  <1> DEFINE x == Chip[lamp]
             p == Pin[lamp][pc]
             high == panel[lamp] = pc
  <1>1. x \in Chips /\ p \in Pins /\ high \in BOOLEAN /\ pc \in Primary /\ lamp \in Lamps
    BY DEF WriteColour, IInv, TypeOK
  <1>2. DigitalWrite(x, p, high)
    BY DEF WriteColour
  <1> HIDE DEF x, p, high
  <1>3. /\ output' \in [Chips -> SUBSET Pins] /\ told' \in [Chips -> SUBSET Pins]
        /\ failed' \subseteq Ports /\ faults' \in 0..MaxFaults
        /\ failed \subseteq failed'
    BY <1>1, <1>2, DigitalWriteEffect DEF IInv
  <1>4. \A y \in Chips, q \in Pins : PortOf(y, q) \notin failed' =>
            (q \in output'[y] <=> IF y = x /\ q = p THEN high ELSE q \in output[y])
    BY <1>1, <1>2, DigitalWriteEffect DEF IInv
  <1>5. \A y \in Chips, q \in Pins :
            q \in told'[y] <=> IF y = x /\ q = p THEN high ELSE q \in told[y]
    BY <1>1, <1>2, DigitalWriteEffect DEF IInv
  <1> USE DEF x, p, high
  <1>6. pc' = After(pc) /\ pc' \in Primary \cup {"idle"}
    BY <1>1 DEF WriteColour, After, Primary
  <1>7. TypeOK'
    BY <1>1, <1>3, <1>6 DEF WriteColour, CallFrame, setting, IInv, TypeOK
  <1>8. AtStart' /\ Settled'
    BY <1>1, <1>6 DEF WriteColour, CallFrame, setting, IInv, AtStart, Settled, SetupPlaces,
                      Primary, Passed, PortOf
  <1>9. Held'
    <2> HIDE DEF x, p, high
    <2>1. SUFFICES ASSUME NEW y \in Chips, NEW q \in Pins,
                          PortOf(y, q) \notin stale \cup failed'
                   PROVE  q \in output'[y] <=> q \in told'[y]
      BY <1>6 DEF WriteColour, Held, PortOf, Primary
    <2>2. PortOf(y, q) \notin stale \cup failed
      BY <1>3, <2>1
    <2>3. q \in output[y] <=> q \in told[y]
      BY <2>2 DEF IInv, Held
    <2> QED
      BY <1>4, <1>5, <2>1, <2>3
  <1>10. ToldPanel'
    <2>1. \A m \in Lamps, a \in Primary :
              IsTold(m, a)' <=> IF m = lamp /\ a = pc THEN high ELSE IsTold(m, a)
      <3>1. \A m \in Lamps, a \in Primary : Chip[m] \in Chips /\ Pin[m][a] \in Pins
        OBVIOUS
      <3>2. \A m \in Lamps, a \in Primary :
                (Chip[m] = x /\ Pin[m][a] = p) <=> (m = lamp /\ a = pc)
        BY <1>1
      <3> HIDE DEF x, p, high
      <3> QED BY <1>5, <3>1, <3>2 DEF IsTold
    <2>2. \A m \in Lamps, a \in Primary :
              IsTold(m, a) <=> a = IF m = lamp /\ ~Written(a) THEN before[m] ELSE panel[m]
      BY <1>1 DEF IInv, ToldPanel
    <2>3. \A m \in Lamps, a \in Primary :
              IsTold(m, a)' <=> a = IF m = lamp /\ ~Written(a) /\ a /= pc
                                    THEN before[m] ELSE panel[m]
      BY <2>1, <2>2
    <2>4. \A m \in Lamps \ {lamp} : before[m] = panel[m]
      BY <1>1 DEF IInv, ToldPanel
    <2>5. panel' = panel /\ lamp' = lamp
      BY DEF WriteColour
    <2>6. CASE pc = "blue"
      <3>1. pc' = "idle" /\ before' = panel
        BY <1>6, <2>6 DEF WriteColour, After
      <3>2. \A a \in Primary : Written(a) \/ a = pc
        BY <2>6 DEF Written, Primary
      <3> QED BY <2>3, <2>5, <3>1, <3>2 DEF ToldPanel, SetupPlaces, Primary
    <2>7. CASE pc /= "blue"
      <3>1. pc' \in Primary /\ before' = before
        BY <1>1, <1>6, <2>7 DEF WriteColour, After, Primary
      <3>2. \A a \in Primary : Written(a)' <=> Written(a) \/ a = pc
        BY <1>1, <1>6, <2>7 DEF Written, After, Primary
      <3>3. \A m \in Lamps, a \in Primary :
                IsTold(m, a)' <=> a = IF m = lamp /\ ~Written(a)'
                                      THEN before[m] ELSE panel[m]
        BY <2>3, <3>2
      <3>4. pc' \notin SetupPlaces \cup {"idle", "reset"}
        BY <3>1 DEF SetupPlaces, Primary
      <3> QED BY <2>4, <2>5, <3>1, <3>3, <3>4 DEF ToldPanel
    <2> QED BY <2>6, <2>7
  <1> QED BY <1>7, <1>8, <1>9, <1>10 DEF IInv

\* RGB_reset() begins.
LEMMA RGBResetStep ==
    ASSUME IInv, RGBReset
    PROVE  IInv'
  <1> USE LampsAssumption DEF RGBReset, CallFrame, setting
  <1>1. TypeOK'
    BY DEF IInv, TypeOK, AllOff, Colours
  <1>2. i = 0 /\ c = 1 /\ \A x \in Chips, p \in Pins : ~Passed(x, p)'
    BY DEF IInv, AtStart, Passed, Chips, Pins
  <1>3. AtStart' /\ Settled'
    BY DEF IInv, AtStart, Settled, SetupPlaces, PortOf
  <1>4. Held'
    BY <1>2 DEF IInv, Held, PortOf
  <1>5. ToldPanel'
    <2>1. \A m \in Lamps, a \in Primary : IsTold(m, a)' <=> a = panel[m]
      BY DEF IInv, ToldPanel, IsTold
    <2> QED
      BY <1>2, <2>1 DEF ToldPanel, SetupPlaces, Primary
  <1> QED BY <1>1, <1>3, <1>4, <1>5 DEF IInv

\* One of its writes; after the last, every port that did not fail is dark.
LEMMA ResetPinStep ==
    ASSUME IInv, ResetPin
    PROVE  IInv'
  <1> USE LampsAssumption
  <1>1. pc = "reset" /\ i \in Pins /\ c \in Chips /\ DigitalWrite(c, i, FALSE)
    BY DEF ResetPin, IInv, TypeOK
  <1>2. /\ output' \in [Chips -> SUBSET Pins] /\ told' \in [Chips -> SUBSET Pins]
        /\ failed' \subseteq Ports /\ faults' \in 0..MaxFaults
        /\ failed \subseteq failed'
    BY <1>1, DigitalWriteEffect DEF IInv
  <1>3. \A y \in Chips, q \in Pins : PortOf(y, q) \notin failed' =>
            (q \in output'[y] <=> ~(y = c /\ q = i) /\ q \in output[y])
    BY <1>1, DigitalWriteEffect DEF IInv
  <1>4. \A y \in Chips, q \in Pins :
            q \in told'[y] <=> ~(y = c /\ q = i) /\ q \in told[y]
    BY <1>1, DigitalWriteEffect DEF IInv
  <1>5. \A y \in Chips, q \in Pins : Passed(y, q) \/ (q = i /\ y = c) =>
            /\ q \notin told'[y]
            /\ PortOf(y, q) \notin failed' => q \notin output'[y]
    <2>1. \A y \in Chips, q \in Pins : Passed(y, q) =>
              /\ q \notin told[y]
              /\ PortOf(y, q) \notin failed => q \notin output[y]
      BY <1>1 DEF IInv, ToldPanel, Held
    <2> QED BY <1>2, <1>3, <1>4, <2>1
  <1>6. \A y \in Chips, q \in Pins : PortOf(y, q) \notin stale \cup failed' =>
            (q \in output'[y] <=> q \in told'[y])
    <2>1. \A y \in Chips, q \in Pins : PortOf(y, q) \notin stale \cup failed' =>
              (q \in output[y] <=> q \in told[y])
      BY <1>2 DEF IInv, Held
    <2> QED BY <1>3, <1>4, <2>1
  <1>7. \A l \in Lamps, a \in Primary : IsTold(l, a)' => IsTold(l, a)
    BY <1>4 DEF IsTold
  <1>8. panel = AllOff /\ panel' = panel /\ lamp' = lamp
    BY <1>1 DEF ResetPin, IInv, ToldPanel
  <1>9. CASE LastPin
    <2>1. pc' = "idle" /\ c' = 1 /\ i' = 0 /\ stale' = {} /\ before' = panel
      BY <1>9 DEF ResetPin
    <2>2. TypeOK'
      <3>1. i' \in Pins /\ c' \in Chips
        BY <2>1 DEF Pins, Chips
      <3> QED BY <1>2, <1>8, <2>1, <3>1 DEF ResetPin, CallFrame, setting, IInv, TypeOK
    <2>3. AtStart' /\ Settled'
      BY <1>1, <2>1 DEF ResetPin, CallFrame, setting, IInv, AtStart, Settled, SetupPlaces, PortOf
    <2>4. \A y \in Chips, q \in Pins :
              q \notin told'[y] /\ (PortOf(y, q) \notin failed' => q \notin output'[y])
      BY <1>5, <1>9, LastPinPasses
    <2>5. Held'
      BY <2>1, <2>4 DEF Held, PortOf
    <2>6. ToldPanel'
      <3>1. \A l \in Lamps, a \in Primary : ~IsTold(l, a)' /\ a /= panel'[l]
        BY <1>8, <2>4 DEF IsTold, AllOff, Primary
      <3> QED BY <2>1, <1>8, <3>1 DEF ToldPanel, SetupPlaces, Primary
    <2> QED BY <2>2, <2>3, <2>5, <2>6 DEF IInv
  <1>10. CASE ~LastPin
    <2>1. pc' = "reset" /\ stale' = stale /\ before' = before /\ LoopOn
      BY <1>1, <1>10 DEF ResetPin
    <2>2. /\ i' \in Pins /\ c' \in Chips
          /\ \A x \in Chips, p \in Pins : Passed(x, p)' <=> Passed(x, p) \/ (p = i /\ x = c)
      BY <1>1, <1>10, <2>1, LoopPasses
    <2>3. TypeOK'
      BY <1>2, <1>8, <2>1, <2>2 DEF ResetPin, CallFrame, setting, IInv, TypeOK
    <2>4. AtStart' /\ Settled'
      BY <1>1, <2>1 DEF ResetPin, CallFrame, setting, IInv, AtStart, Settled, SetupPlaces, PortOf
    <2>5. Held'
      BY <1>5, <1>6, <2>1, <2>2 DEF Held, PortOf
    <2>6. ToldPanel'
      <3>1. \A l \in Lamps, a \in Primary : IsTold(l, a)' => a = before'[l]
        BY <1>1, <1>7, <2>1 DEF IInv, ToldPanel
      <3> QED BY <1>5, <1>8, <2>1, <2>2, <3>1 DEF ToldPanel, SetupPlaces, Primary
    <2> QED BY <2>3, <2>4, <2>5, <2>6 DEF IInv
  <1> QED BY <1>9, <1>10

\* The sketch stops when an expander is missing, or does nothing.
LEMMA IdleSteps ==
    ASSUME IInv, ExpanderMissing \/ UNCHANGED vars
    PROVE  IInv'
  <1> USE DEF IInv, TypeOK, AtStart, ToldPanel, Held, Settled, IsTold, Written, Passed, PortOf
  <1>1. CASE ExpanderMissing
    <2>1. output' \in [Chips -> SUBSET Pins] /\ pc' = "stuck" /\ pc = "begin"
      BY <1>1 DEF ExpanderMissing
    <2>2. ToldPanel' /\ Held'
      BY <1>1, <2>1, SetupKeepsTold DEF ExpanderMissing, SetupPlaces
    <2> QED
      BY <1>1, <2>2 DEF ExpanderMissing, SetupFrame, SetupPlaces, setting
  <1>2. CASE UNCHANGED vars
    BY <1>2 DEF vars, loop, setting, history
  <1> QED BY <1>1, <1>2

LEMMA InvariantKept == IInv /\ [Next]_vars => IInv'
    BY BeginStep, PinModeStep, SetBoardColorStep, WriteColourStep, RGBResetStep,
       ResetPinStep, IdleSteps DEF Next

LEMMA InvariantHolds == Spec => []IInv
    BY InitHolds, InvariantKept, PTL DEF Spec

-----------------------------------------------------------------------------
(***************************************************************************)
(* The theorems.                                                           *)
(***************************************************************************)
\* A register that holds what it was told drives the lamp with it.
LEMMA LampsFollow == IInv => LampsTrue
  <1> USE LampsAssumption
  <1>1. SUFFICES ASSUME IInv, pc \notin SetupPlaces, NEW l \in Lamps, Sound(l)
                 PROVE  /\ pc = "idle" => Shown(l) = Parts(panel[l])
                        /\ Shown(l) \subseteq Parts(panel[l]) \cup Parts(before[l])
    BY DEF LampsTrue
  <1>2. ASSUME NEW a \in Primary
        PROVE  a \in Shown(l) <=> IsTold(l, a)
    <2>1. Chip[l] \in Chips /\ Pin[l][a] \in Pins
      OBVIOUS
    <2>2. /\ PortOf(Chip[l], Pin[l][a]) \notin stale \cup failed
          /\ PortOf(Chip[l], Pin[l][a]) \notin lame
      BY <1>1 DEF Sound
    <2>3. Pin[l][a] < 8 => PortOf(Chip[l], 0) = PortOf(Chip[l], Pin[l][a])
      BY <2>1, PinFacts DEF PortOf, Pins
    <2>4. /\ Pin[l][a] \notin input[Chip[l]] /\ Pin[l][a] \in gpio[Chip[l]]
          /\ Pin[l][a] < 8 => pushPull[Chip[l]]
      BY <1>1, <2>1, <2>2, <2>3 DEF IInv, Settled, SetupPlaces
    <2>5. Pin[l][a] \in output[Chip[l]] <=> Pin[l][a] \in told[Chip[l]]
      BY <1>1, <2>1, <2>2 DEF IInv, Held
    <2> QED
      BY <2>4, <2>5 DEF Shown, Driven, IsTold
  <1>3. Shown(l) \subseteq Primary
    BY DEF Shown
  <1>4. /\ panel[l] \in Colours /\ before[l] \in Colours
        /\ Parts(panel[l]) = {a \in Primary : a = panel[l]}
        /\ Parts(before[l]) = {a \in Primary : a = before[l]}
    BY <1>1 DEF IInv, TypeOK, Parts, Colours, Primary
  <1>5. pc \in {"idle", "reset"} \cup Primary
    BY <1>1 DEF IInv, TypeOK
  <1>6. CASE pc = "idle"
    BY <1>1, <1>2, <1>3, <1>4, <1>6 DEF IInv, ToldPanel
  <1>7. CASE pc \in Primary
    <2>1. \A a \in Primary : IsTold(l, a) => a = panel[l] \/ a = before[l]
      BY <1>1, <1>7 DEF IInv, ToldPanel
    <2>2. pc /= "idle"
      BY <1>7 DEF Primary
    <2> QED BY <1>2, <1>3, <1>4, <2>1, <2>2
  <1>8. CASE pc = "reset"
    BY <1>1, <1>2, <1>3, <1>4, <1>8 DEF IInv, ToldPanel
  <1> QED BY <1>5, <1>6, <1>7, <1>8

\* A lamp shows what it was told, however many transfers fail on other ports, or
\* failed on its own before the last whole RGB_reset() (lines 690 to 698, 803 to 817).
THEOREM LampsShowWhatTheyWereTold == Spec => []LampsTrue
    BY InvariantHolds, LampsFollow, PTL

\* Every register stays a set of pins, and every loop within its bounds.
THEOREM LampsTyped == Spec => []TypeOK
  <1>1. IInv => TypeOK
    BY DEF IInv
  <1> QED BY <1>1, InvariantHolds, PTL
=============================================================================
