--------------------------- MODULE MCAccelerometer ---------------------------
(***************************************************************************)
(* Two samples of an axis that reads 9 to 11 (m/s^2) at rest, pulls in     *)
(* both directions, and a self-test that looks like one.                   *)
(***************************************************************************)
EXTENDS Accelerometer

MCAccelerations == {2, 9, 11, 20}
MCGarbage == {90}
MCReadings ==
    UNION {{a, a + SelfTestBias, 8 * a, 8 * (a + SelfTestBias)} : a \in MCAccelerations}
    \cup {0} \cup MCGarbage \cup {8 * g : g \in MCGarbage}
=============================================================================
