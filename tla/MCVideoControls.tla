--------------------------- MODULE MCVideoControls ---------------------------
(***************************************************************************)
(* VideoControls with words of 4, 11 and 12 bits and a sensor of 40 by 30. *)
(* Controls do not depend on each other but for zoom, pan and tilt, so the *)
(* host uses at most MaxTouched of them in one behaviour.                  *)
(***************************************************************************)
EXTENDS VideoControls, FiniteSets

CONSTANT MaxTouched

FewControls == Cardinality(DOMAIN asked) <= MaxTouched

MCValues == {0, 1, 15, 16, 409, 410, 1000, 2047, 4095}
MCMagnifications == {40, 99, 100, 101, 103, 250, 798, 1000, 2000}
MCAngles == {-36, -7, 0, 5, 36, 50}
=============================================================================
