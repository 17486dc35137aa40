----------------------------- MODULE MCReadOnly -----------------------------
(* ReadOnly for TLC: channels of six levels, five rows of the palette, OkLab  *)
(* values on both sides of each rounding and cutoff, and every gamut with     *)
(* three widths over seven lightnesses.                                       *)
EXTENDS ReadOnly

MCNeutral == {c \in Hex : Span(c) <= 1}
MCSamples == {0, 2, 4, 6}
MCGamuts == [0..6 -> {0, 2, 5}]
MCMeasured == [l : {0, 5204, 5205, 10000}, c : {0, 199, 200, 2255}, h : {-179, -10, 19, 20, 50, 180}]
MCRatios == {10000, 29999, 30000, 44999, 45000, 69999, 70000, 210000}

\* black, red, lime, navy, tan
MCEntries == {[hex |-> 1, name |-> 1, feel |-> 0], [hex |-> 5, name |-> 4, feel |-> 10628258],
              [hex |-> 3, name |-> 2, feel |-> 50866295], [hex |-> 2, name |-> 3, feel |-> 90271188],
              [hex |-> 4, name |-> 5, feel |-> 20786064]}
=============================================================================
