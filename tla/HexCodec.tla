------------------------------- MODULE HexCodec -------------------------------
(***************************************************************************)
(* The characters of a packet: WritePacket() and IntToHexString(), which   *)
(* make them, and the end of ReadCommand() with HexStringToInt(), which    *)
(* reads them, in src/Reciver/Reciver.ino. The computer uses the same      *)
(* format, so what the one writes the other must read. A hexadecimal       *)
(* character is its value; Framing has the bytes around the characters.    *)
(*                                                                         *)
(* IntToHexString counts the digits with floating-point logarithms, makes  *)
(* an array of as many bytes, and has sprintf write the digits and a NUL   *)
(* into it. Whether the quotient of the logarithms of a power of 16 comes  *)
(* out below its exponent, and whether there is a byte for the NUL, depend *)
(* on the build: on Misjudged and on Spare.                                *)
(*                                                                         *)
(* A definition marked "Slip" is not part of the model: it is the one      *)
(* below it with a plausible mistake, which some property must notice.     *)
(***************************************************************************)
EXTENDS Integers, Sequences

CONSTANTS
    NOBJECTS,
    Ids, Values, \* the object ids and data WritePacket may be called with
    Misjudged,   \* the powers of 16 whose quotient is below their exponent
    Spare        \* bytes the allocator may add to those asked for

PING == 0
STREAM == 9

\* The values of a uint of 32 bits, and of an int.
UInt == {n \in Nat : n \div 16 < 268435456}
Int32 == {n \in Int : -134217728 <= n \div 16 /\ n \div 16 < 134217728}

\* The smallest number with k digits.
Power == <<1, 16, 256, 4096, 65536, 1048576, 16777216, 268435456>>

ASSUME CodecAssumption ==
    /\ NOBJECTS \in 1..15
    /\ Ids \subseteq Int
    /\ Values \subseteq Int32
    /\ Misjudged \subseteq {Power[k] : k \in 2..8}
    /\ Spare \subseteq Nat

VARIABLES
    given,   \* the arguments of WritePacket
    line,    \* the characters between STX and ETX, <<>> when none are written
    read,    \* the packet ReadCommand makes of them
    heap     \* "spoilt" by a NUL behind an array, or the "reset" it has led to

vars == <<given, line, read, heap>>

NoPacket == [cmd |-> -1, id |-> -1, data |-> -1]

-----------------------------------------------------------------------------
\* sprintf("%X"): the digits, the most significant first, no zero before them.
Hex[n \in UInt] == IF n < 16 THEN <<n>> ELSE Append(Hex[n \div 16], n % 16)

\* How many digits there are. A negative int is a uint of eight.
Length(n) ==
    IF n < 0 THEN 8
    ELSE IF n = 0 THEN 1 ELSE CHOOSE k \in 1..8 : Power[k] <= n /\ n \div 16 < Power[k]

\* hs.size: floor(log(n) / log(16)) + 1.
Size(n) == IF n \in Misjudged THEN Length(n) - 1 ELSE Length(n)

\* hs.hex as far as the size tells.
IntToHexString(n) == SubSeq(Hex[n], 1, Size(n))

\* sprintf writes past an array of Size(n) bytes to which the allocator has added some.
Overruns(n, spare) == Length(n) + 1 > Size(n) + spare

\* strtoul(str, 0, 16).
HexStringToInt(characters) ==
    LET value[k \in 0..Len(characters)] ==
            IF k = 0 THEN 0 ELSE 16 * value[k - 1] + characters[k]
    IN  value[Len(characters)]

\* Slip: the data stands at the left of its field.
DataFieldLeft(hex) == hex \o [k \in 1..(4 - Len(hex)) |-> 0]

\* command[3] to command[6]: the data at the right, "0" where it does not reach.
DataField(hex) == [k \in 1..(4 - Len(hex)) |-> 0] \o hex

Valid(cmd, id) == cmd \in PING..STREAM /\ id \in 0..NOBJECTS

(***************************************************************************)
(* The conversions of a valid packet. Behind an array lies memory of the   *)
(* allocator: what is written there changes no digit that is read later,   *)
(* but whether the program then goes on is left open: it may reset.        *)
(***************************************************************************)
Convert(cmd, id, data) ==
    \E c, i, d \in Spare :
        heap' \in IF Overruns(cmd, c) \/ Overruns(id, i) \/ Overruns(data, d)
                  THEN {"spoilt", "reset"} ELSE {heap}

\* Slip: the data may have a digit too many.
WritePacketWide(cmd, id, data) ==
    /\ given = NoPacket
    /\ given' = [cmd |-> cmd, id |-> id, data |-> data]
    /\ IF Valid(cmd, id) THEN Convert(cmd, id, data) ELSE UNCHANGED heap
    /\ line' = IF /\ Valid(cmd, id) /\ heap' /= "reset"
                  /\ Size(cmd) <= 1 /\ Size(id) <= 1 /\ Size(data) <= 5
               THEN IntToHexString(cmd) \o IntToHexString(id)
                        \o DataField(IntToHexString(data))
               ELSE <<>>
    /\ UNCHANGED read

WritePacket(cmd, id, data) ==
    /\ given = NoPacket
    /\ given' = [cmd |-> cmd, id |-> id, data |-> data]
    /\ IF Valid(cmd, id) THEN Convert(cmd, id, data) ELSE UNCHANGED heap
    /\ line' = IF /\ Valid(cmd, id) /\ heap' /= "reset"
                  /\ Size(cmd) <= 1 /\ Size(id) <= 1 /\ Size(data) <= 4
               THEN IntToHexString(cmd) \o IntToHexString(id)
                        \o DataField(IntToHexString(data))
               ELSE <<>>
    /\ UNCHANGED read

\* The conversions at the end of ReadCommand.
ReadCommand ==
    /\ line /= <<>>
    /\ read' = [cmd |-> HexStringToInt(SubSeq(line, 1, 1)),
                id |-> HexStringToInt(SubSeq(line, 2, 2)),
                data |-> HexStringToInt(SubSeq(line, 3, 6))]
    /\ UNCHANGED <<given, line, heap>>

Init == given = NoPacket /\ line = <<>> /\ read = NoPacket /\ heap = "sound"

Next ==
    \/ \E cmd \in -1..(STREAM + 1), id \in Ids, data \in Values : WritePacket(cmd, id, data)
    \/ ReadCommand

Spec == Init /\ [][Next]_vars

-----------------------------------------------------------------------------
(***************************************************************************)
(* Properties.                                                             *)
(***************************************************************************)
\* A misjudged power of 16 loses its last digit, a zero.
AsWritten(data) == IF data \in Misjudged THEN data \div 16 ELSE data

\* Four characters have room for what is written of the data.
Fits(data) == data >= 0 /\ AsWritten(data) < 65536

\* Unless the board resets, a packet that is written is read back as it was given, at
\* every number of digits, but for a power of 16 that the logarithms misjudge, which
\* is read as a sixteenth (lines 250 to 264 and 343 to 354).
ReadsBack ==
    /\ read \in {NoPacket, [given EXCEPT !.data = AsWritten(@)]}
    /\ line /= <<>> => Len(line) = 6

\* Refused is what has no place in a packet, negative data among it, and nothing else,
\* unless the board resets first (lines 215 to 232).
RefusedExactly ==
    given /= NoPacket /\ heap /= "reset" =>
        (line = <<>> <=> ~(/\ given.cmd \in PING..STREAM
                           /\ given.id \in 0..NOBJECTS
                           /\ Fits(given.data)))
=============================================================================
