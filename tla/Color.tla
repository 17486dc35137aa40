-------------------------------- MODULE Color --------------------------------
(* The arithmetic of internal/color in whole numbers, where it is exact or is *)
(* cut to whole numbers anyway: the packed sort key, the HSL wheel, the       *)
(* contrast levels, and the search for a colour that sRGB can show.  What     *)
(* OkLab's matrices and roots return is an input.                             *)
EXTENDS Integers

CONSTANTS Full,     \* a channel of a colour is 0..Full
          Neutral,  \* the colours with an OkLab chroma below neutralChroma
          Fine,     \* lightness and chroma of the gamut search are 0..Fine
          neutralCut, \* neutralChroma on the scale 0..Fine
          gamutSteps, \* halvings of a search (20 in the code)
          Samples   \* the lightnesses that fitToSRGB samples

Channel == 0..Full
Hex == [r : Channel, g : Channel, b : Channel]

Greatest(c) == IF c.r >= c.g /\ c.r >= c.b THEN c.r ELSE IF c.g >= c.b THEN c.g ELSE c.b
Least(c) == IF c.r <= c.g /\ c.r <= c.b THEN c.r ELSE IF c.g <= c.b THEN c.g ELSE c.b
Span(c) == Greatest(c) - Least(c)

ASSUME ColorAssumption ==
  /\ Full \in Nat \ {0}
  /\ {c \in Hex : Span(c) = 0} \subseteq Neutral

-----------------------------------------------------------------------------
(* perceptualSortKey.  Lightness and chroma come in ten thousandths, the hue  *)
(* in degrees of atan2.                                                       *)

neutralChroma == 200

Lightness == {n \in Nat : n <= 10000}
Chroma == Nat
Angle == -179..180

Rounded(n) == (n + 5) \div 10

Group(lch) ==
  IF lch.c < neutralChroma THEN 0
  ELSE LET hue == lch.h - 20
       IN 1 + (IF hue < 0 THEN hue + 360 ELSE hue) \div 30

ChromaPart(lch) == IF Rounded(lch.c) > 999 THEN 999 ELSE Rounded(lch.c)

\* An erroneous variant: the chroma has two digits for its three.
keyOfNarrowStep(lch) == Group(lch) * 10000000 + Rounded(lch.l) * 100 + ChromaPart(lch)

perceptualSortKey(lch) ==
  Group(lch) * 10000000 + Rounded(lch.l) * 1000 + ChromaPart(lch)

-----------------------------------------------------------------------------
(* The HSL wheel.  An angle is counted in steps of which 2 * Span(c) make one *)
(* sixth of the wheel, so that a turn by 30 degrees is Span(c) steps.         *)

hueDegrees(c) ==
  LET hue == IF Greatest(c) = c.r THEN 2 * (c.g - c.b)
             ELSE IF Greatest(c) = c.g THEN 2 * (c.b - c.r) + 4 * Span(c)
             ELSE 2 * (c.r - c.g) + 8 * Span(c)
  IN IF hue < 0 THEN hue + 12 * Span(c) ELSE hue

\* An erroneous variant: one math.Mod, whose result keeps the sign.
WrapOnce(hue, turn) == IF hue >= turn THEN hue - turn ELSE hue

\* math.Mod(math.Mod(hue, 360) + 360, 360) between -360 and 720.
Wrap(hue, turn) == IF hue < 0 THEN hue + turn ELSE IF hue >= turn THEN hue - turn ELSE hue

\* The middle channel, in half units above the least one.  A half is rounded
\* up or down, as the floating point before it left it.
hslToHex(hue, span, low, up) ==
  LET high == low + span
      mid(steps) == low + (steps + up) \div 2
  IN CASE hue < 2 * span -> [r |-> high, g |-> mid(hue), b |-> low]
       [] hue >= 2 * span /\ hue < 4 * span -> [r |-> mid(4 * span - hue), g |-> high, b |-> low]
       [] hue >= 4 * span /\ hue < 6 * span -> [r |-> low, g |-> high, b |-> mid(hue - 4 * span)]
       [] hue >= 6 * span /\ hue < 8 * span -> [r |-> low, g |-> mid(8 * span - hue), b |-> high]
       [] hue >= 8 * span /\ hue < 10 * span -> [r |-> mid(hue - 8 * span), g |-> low, b |-> high]
       [] hue >= 10 * span -> [r |-> high, g |-> low, b |-> mid(12 * span - hue)]

\* The hue turned by 30 * turns degrees.
rotateHSL(c, turns, up) ==
  IF c \in Neutral THEN c
  ELSE hslToHex(Wrap(hueDegrees(c) + turns * Span(c), 12 * Span(c)), Span(c), Least(c), up)

\* The harmonies that turn the hue, in units of 30 degrees.
harmonies == [complement |-> {6}, split |-> {5, 7}, triad |-> {4, 8},
              analogous |-> {-1, 1}, square |-> {3, 6, 9}]

-----------------------------------------------------------------------------
(* Describe: whole degrees and percents.                                      *)

wholeDegrees(hue, span) == ((60 * hue + span) \div (2 * span)) % 360
wholePercent(part, whole) == (200 * part + whole) \div (2 * whole)

Describe(c) ==
  LET sum == Greatest(c) + Least(c)
      room == IF sum <= Full THEN sum ELSE 2 * Full - sum
  IN [hue |-> IF Span(c) = 0 THEN 0 ELSE wholeDegrees(hueDegrees(c), Span(c)),
      saturation |-> IF Span(c) = 0 THEN 0 ELSE wholePercent(Span(c), room),
      lightness |-> wholePercent(sum, 2 * Full),
      hsvSaturation |-> IF Span(c) = 0 THEN 0 ELSE wholePercent(Span(c), Greatest(c)),
      value |-> wholePercent(Greatest(c), Full)]

-----------------------------------------------------------------------------
(* WCAG levels.  A ratio comes in ten thousandths and is shown in hundredths. *)

levelOf(ratio) == CASE ratio >= 700 -> "aaa"
                    [] ratio >= 450 /\ ratio < 700 -> "aa"
                    [] ratio >= 300 /\ ratio < 450 -> "aa-large"
                    [] ratio < 300 -> "fail"

contrastOf(ratio) == LET cut == ratio \div 100 IN [ratio |-> cut, level |-> levelOf(cut)]

-----------------------------------------------------------------------------
(* The gamut of one hue: at lightness l, sRGB holds the chromas 0..held[l].   *)

Gamut == [0..Fine -> 0..Fine]

\* The widest gap n halvings leave; the last of them leaves none but that
\* between neighbours, which is the resolution of the search.
gapAfter[n \in 0..gamutSteps] ==
  IF n = 0 THEN Fine + 1 ELSE (gapAfter[n - 1] + 1) \div 2

ASSUME GamutAssumption ==
  /\ Fine \in Nat \ {0} /\ neutralCut \in Nat
  /\ gamutSteps \in Nat /\ gapAfter[gamutSteps] = 1
  /\ Samples \subseteq 0..Fine /\ Samples # {}

\* An erroneous variant: the end that does not fit is answered.
BisectHigh(fits, low, high) ==
  LET halved[n \in 0..gamutSteps] ==
        IF n = 0 THEN [low |-> low, high |-> high]
        ELSE LET last == halved[n - 1]
                 mid == (last.low + last.high) \div 2
             IN IF fits[mid] THEN [last EXCEPT !.low = mid] ELSE [last EXCEPT !.high = mid]
  IN halved[gamutSteps].high

\* A binary search that starts with low fitting and keeps it so.
Bisect(fits, low, high) ==
  LET halved[n \in 0..gamutSteps] ==
        IF n = 0 THEN [low |-> low, high |-> high]
        ELSE LET last == halved[n - 1]
                 mid == (last.low + last.high) \div 2
             IN IF fits[mid] THEN [last EXCEPT !.low = mid] ELSE [last EXCEPT !.high = mid]
  IN halved[gamutSteps].low

oklabToLinear(held, l, c) == c <= held[l]
maxChromaAt(held, l) == Bisect([c \in 0..Fine |-> oklabToLinear(held, l, c)], 0, Fine + 1)

Distance(a, b) == IF a < b THEN b - a ELSE a - b

\* The sampled lightnesses that hold a chroma.  The first sample wins a tie.
holding(held, c) == {s \in Samples : maxChromaAt(held, s) >= c}

\* An erroneous variant: the first one that holds it is kept.
firstHolding(held, l, c) == CHOOSE s \in holding(held, c) : \A t \in holding(held, c) : s <= t

nearest(held, l, c) ==
  CHOOSE s \in holding(held, c) : \A t \in holding(held, c) :
    \/ Distance(s, l) < Distance(t, l)
    \/ Distance(s, l) = Distance(t, l) /\ s <= t

peak(held) ==
  CHOOSE s \in Samples : \A t \in Samples :
    \/ maxChromaAt(held, s) > maxChromaAt(held, t)
    \/ maxChromaAt(held, s) = maxChromaAt(held, t) /\ s <= t

\* The chroma is kept, at the lightness between the nearest sample and the
\* one asked for where the gamut ends; else as much of it as any sample holds.
fitToSRGB(held, l, c) ==
  LET holds == [m \in 0..Fine |-> maxChromaAt(held, m) >= c]
  IN IF oklabToLinear(held, l, c) THEN [l |-> l, c |-> c]
     ELSE IF holding(held, c) = {} THEN [l |-> peak(held), c |-> maxChromaAt(held, peak(held))]
     ELSE [l |-> Bisect(holds, nearest(held, l, c), l), c |-> c]

\* A neutral has no hue to turn, and its own gamut shows it.
rotateOkLCh(held, l, c) == IF c < neutralCut THEN [l |-> l, c |-> c] ELSE fitToSRGB(held, l, c)

\* The scales of ramp and tones, each in steps of one hue.
rampSteps == 7
Step(i, from, to) == from + (i * (to - from)) \div (rampSteps - 1)

ramp(held, c, darkest, lightest) ==
  {LET l == Step(i, darkest, lightest)
       most == maxChromaAt(held, l)
   IN [l |-> l, c |-> IF c < most THEN c ELSE most] : i \in 0..(rampSteps - 1)}

\* Nor has a neutral a hue to sweep: it is answered repeated.
tones(held, l, c) ==
  IF c < neutralCut THEN {[l |-> l, c |-> c]}
  ELSE {[l |-> l, c |-> Step(i, 0, maxChromaAt(held, l))] : i \in 0..(rampSteps - 1)}
=============================================================================
