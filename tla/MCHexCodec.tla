----------------------------- MODULE MCHexCodec -----------------------------
(***************************************************************************)
(* Ids on both sides of the range, and data around every change of the     *)
(* number of digits, negative ones too. Of the powers of 16 that are       *)
(* misjudged one has a place anyway, one only because of it, and one not   *)
(* even so; the others are exact. The allocator may add nothing to an      *)
(* array, or one byte or three.                                            *)
(***************************************************************************)
EXTENDS HexCodec

MCIds == {-1, 0, 1, 9, 10, 11, 12, 15, 16}

MCValues ==
    0..40 \cup 250..260 \cup 4090..4100 \cup 65530..65540
    \cup {1048575, 1048576, 268435455, 268435456, 2147483647}
    \cup {-1, -16, -65536, -2147483647 - 1}

MCMisjudged == {4096, 65536, 1048576}

MCSpare == {0, 1, 3}
=============================================================================
