------------------------------- MODULE MCLamps -------------------------------
(***************************************************************************)
(* The three expanders and twelve lamps of the receiver, with the pins of  *)
(* src/Reciver/Reciver.ino, lines 571 to 585.                              *)
(***************************************************************************)
EXTENDS Lamps

RGB(r, g, b) == [red |-> r, green |-> g, blue |-> b]

MCPin == <<
    RGB(1, 2, 3), RGB(4, 5, 6), RGB(7, 8, 9), RGB(10, 11, 12),
    RGB(0, 1, 2), RGB(3, 4, 5), RGB(6, 7, 8), RGB(14, 15, 13),
    RGB(0, 1, 9), RGB(3, 4, 5), RGB(6, 7, 8), RGB(15, 13, 14) >>

MCChip == [l \in 1..12 |-> 1 + (l - 1) \div 4]

\* The expanders may come up with every lamp lit.
MCPowerUp == {Pins}
=============================================================================
