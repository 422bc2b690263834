------------------------------- MODULE Framing -------------------------------
(***************************************************************************)
(* How packets of the computer are found in the bytes of the serial line:  *)
(* ReadCommand() of src/Reciver/Reciver.ino, the test of loop() that calls *)
(* it, a line that loses bytes and a receive buffer that overflows while   *)
(* the trials run.                                                         *)
(*                                                                         *)
(* A packet is STX, DIGITS characters (6 in the code) and ETX. A byte is   *)
(* its place in what the computer sends, from which packet and character   *)
(* follow; HexCodec has what the characters mean.                          *)
(*                                                                         *)
(* A definition marked "Slip" is not part of the model: it is the one      *)
(* below it with a plausible mistake, which some property must notice.     *)
(***************************************************************************)
EXTENDS Integers, Sequences

CONSTANTS
    DIGITS,   \* characters between STX and ETX
    NPACKETS, \* packets the computer sends
    BUFFER,   \* bytes the receive buffer of the serial port holds
    MaxLost   \* bound on the bytes the line loses

ASSUME FramingAssumption ==
    /\ DIGITS \in Nat \ {0}
    /\ NPACKETS \in Nat
    /\ BUFFER \in Nat /\ BUFFER > DIGITS
    /\ MaxLost \in Nat

PacketLength == DIGITS + 2
Total == NPACKETS * PacketLength

IsSTX(byte) == byte % PacketLength = 0
IsETX(byte) == byte % PacketLength = PacketLength - 1

\* The characters of packet n, counted from 1.
PacketSent(n) == [k \in 1..DIGITS |-> (n - 1) * PacketLength + k]

VARIABLES
    pc,
    sent,      \* bytes the computer has sent
    rx,        \* the receive buffer
    lost,      \* history: bytes lost on the line or by overflow
    accepted   \* history: the characters DoCommand was given, in order

vars == <<pc, sent, rx, lost, accepted>>

-----------------------------------------------------------------------------
(***************************************************************************)
(* The line. A byte that finds the buffer full is dropped.                 *)
(***************************************************************************)
ByteArrives ==
    /\ sent < Total /\ sent' = sent + 1
    /\ IF Len(rx) < BUFFER THEN rx' = Append(rx, sent) /\ UNCHANGED lost
                           ELSE lost' = lost + 1 /\ UNCHANGED rx
    /\ UNCHANGED <<pc, accepted>>

ByteLost ==
    /\ sent < Total /\ sent' = sent + 1
    /\ lost < MaxLost /\ lost' = lost + 1
    /\ UNCHANGED <<pc, rx, accepted>>

-----------------------------------------------------------------------------
(***************************************************************************)
(* The receiver.                                                           *)
(***************************************************************************)
\* loop(): ReadCommand is called when there is a byte.
Enter ==
    /\ pc = "loop" /\ rx /= <<>>
    /\ pc' = "hunt"
    /\ UNCHANGED <<sent, rx, lost, accepted>>

\* Bytes up to the next STX are dropped.
Hunt ==
    /\ pc = "hunt" /\ rx /= <<>>
    /\ rx' = Tail(rx)
    /\ pc' = IF IsSTX(Head(rx)) THEN "packet" ELSE "hunt"
    /\ UNCHANGED <<sent, lost, accepted>>

\* DoCommand, after which the trials may run and nothing is read.
Accept(characters) ==
    /\ accepted' = Append(accepted, characters)
    /\ pc' \in {"loop", "trials"}

\* Slip: the wait counts the STX, which has been read.
PacketInWithSTX == Len(rx) >= DIGITS + 2

\* The wait for a full packet: the characters and the ETX.
PacketIn == Len(rx) >= DIGITS + 1

\* Slip: the last byte is not tested.
ReadPacketUnchecked ==
    /\ pc = "packet" /\ PacketIn
    /\ rx' = SubSeq(rx, DIGITS + 2, Len(rx))
    /\ Accept(SubSeq(rx, 1, DIGITS))
    /\ UNCHANGED <<sent, lost>>

\* Slip: a bad packet empties the buffer.
ReadPacketFlushes ==
    /\ pc = "packet" /\ PacketIn
    /\ IF IsETX(rx[DIGITS + 1])
       THEN Accept(SubSeq(rx, 1, DIGITS)) /\ rx' = SubSeq(rx, DIGITS + 2, Len(rx))
       ELSE pc' = "hunt" /\ rx' = <<>> /\ UNCHANGED accepted
    /\ UNCHANGED <<sent, lost>>

\* Slip: the last byte is looked at and left in the buffer.
ReadPacketPeeks ==
    /\ pc = "packet" /\ PacketIn
    /\ rx' = SubSeq(rx, DIGITS + 1, Len(rx))
    /\ IF IsETX(rx[DIGITS + 1]) THEN Accept(SubSeq(rx, 1, DIGITS))
                                ELSE pc' = "hunt" /\ UNCHANGED accepted
    /\ UNCHANGED <<sent, lost>>

\* A bad packet is dropped as far as it was read, its successor's STX included.
ReadPacket ==
    /\ pc = "packet" /\ PacketIn
    /\ rx' = SubSeq(rx, DIGITS + 2, Len(rx))
    /\ IF IsETX(rx[DIGITS + 1]) THEN Accept(SubSeq(rx, 1, DIGITS))
                                ELSE pc' = "hunt" /\ UNCHANGED accepted
    /\ UNCHANGED <<sent, lost>>

TrialsEnd ==
    /\ pc = "trials" /\ pc' = "loop"
    /\ UNCHANGED <<sent, rx, lost, accepted>>

-----------------------------------------------------------------------------
Init == pc = "loop" /\ sent = 0 /\ rx = <<>> /\ lost = 0 /\ accepted = <<>>

Receiver == Enter \/ Hunt \/ ReadPacket \/ TrialsEnd

Next == ByteArrives \/ ByteLost \/ Receiver

Spec == Init /\ [][Next]_vars

\* Fairness. The computer sends what it has to send, and the sketch does not stop;
\* that the trials end is TrialsFinish of Experiment.
FairSpec == Spec /\ WF_vars(ByteArrives) /\ WF_vars(Receiver)

-----------------------------------------------------------------------------
(***************************************************************************)
(* Properties.                                                             *)
(***************************************************************************)
Numbers == [i \in 1..Len(accepted) |-> accepted[i][1] \div PacketLength + 1]

\* No packet is put together from two: two neighbours make one only when all that
\* stands between them and as many characters are lost. Nor is one accepted twice
\* or before its predecessor (lines 288 to 319).
OnlyPacketsSent ==
    lost < DIGITS + 2 =>
        /\ \A i \in 1..Len(accepted) : accepted[i] = PacketSent(Numbers[i])
        /\ \A i \in 2..Len(accepted) : Numbers[i - 1] < Numbers[i]

\* A lost byte costs two packets at most: the one it is missing from and the one
\* of which the STX was read in its place.
LossIsBounded ==
    lost < DIGITS + 2 /\ accepted /= <<>> =>
        Numbers[Len(accepted)] - Len(accepted) <= 2 * lost

\* Without loss the packets are accepted in turn and none is skipped: all that has
\* been read is accepted packets, and the first byte of the one being read
\* (lines 288 to 328).
NothingSkipped ==
    lost = 0 =>
        /\ \A i \in 1..Len(accepted) : accepted[i] = PacketSent(i)
        /\ sent - Len(rx) = Len(accepted) * PacketLength + (IF pc = "packet" THEN 1 ELSE 0)

\* ReadCommand waits for a byte that has not come, or loop() finds none.
Waiting == \/ pc = "packet" /\ ~PacketIn
           \/ pc \in {"loop", "hunt"} /\ rx = <<>>

\* Without loss the receiver does not wait in vain: if it waits when the computer
\* has sent everything, every packet has reached DoCommand, and none stands half
\* read in the buffer (lines 288 to 303).
NeverWaitsInVain ==
    lost = 0 /\ sent = Total /\ Waiting => Len(accepted) = NPACKETS

\* Without loss every packet reaches DoCommand.
AllAccepted == (lost = 0) ~> (lost > 0 \/ Len(accepted) = NPACKETS)
=============================================================================
