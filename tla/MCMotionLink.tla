---------------------------- MODULE MCMotionLink ----------------------------
(***************************************************************************)
(* Three sensor boards for TLC: one with an id of its own, and two that    *)
(* are not in the list of MAC addresses and share id 0.                    *)
(***************************************************************************)
EXTENDS MotionLink

CONSTANTS Known, Stray1, Stray2

MCIdOf == [s \in {Known, Stray1, Stray2} |-> IF s = Known THEN 1 ELSE 0]
=============================================================================
