------------------------------ MODULE MCStrips ------------------------------
(***************************************************************************)
(* Strips for TLC: two colours, one rotation and one scale, two wheels.    *)
(***************************************************************************)
EXTENDS Strips, TLC

CONSTANTS Triad, Ramp

MCNames == {Triad, Ramp}
MCRotations == {Triad}

\* Colours and wheels are never compared but for equality.
MCSymmetry == Permutations(Hex) \cup Permutations(Space)
=============================================================================
