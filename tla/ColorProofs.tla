----------------------------- MODULE ColorProofs -----------------------------
(* Theorems about ReadOnly: the packed sort key keeps the order of its parts, *)
(* a turn of the HSL wheel keeps the tone, whatever the number of levels, and *)
(* the search of the gamut ends on a colour sRGB shows, moved least, whatever *)
(* the gamut.                                                                 *)
EXTENDS ReadOnly, WellFoundedInduction, TLAPS

-----------------------------------------------------------------------------
(* The sort key.                                                              *)

LCh == [l : Lightness, c : Chroma, h : Angle]

LEMMA RoundedLightness ==
  ASSUME NEW n \in Nat, n <= 10000
  PROVE  Rounded(n) \in Nat /\ Rounded(n) <= 1000
  BY SMT DEF Rounded

LEMMA RoundedChroma == ASSUME NEW n \in Nat PROVE Rounded(n) \in Nat
  BY SMT DEF Rounded

LEMMA GroupOfHue ==
  ASSUME NEW h \in -179..180
  PROVE  LET hue == h - 20 IN 1 + (IF hue < 0 THEN hue + 360 ELSE hue) \div 30 \in 1..12
  BY SMT

LEMMA PartBounds ==
  ASSUME NEW lch \in LCh
  PROVE  /\ Group(lch) \in 0..12
         /\ Rounded(lch.l) \in Nat /\ Rounded(lch.l) <= 1000
         /\ ChromaPart(lch) \in 0..999
  <1>1. lch.l \in Nat /\ lch.l <= 10000 /\ lch.c \in Nat /\ lch.h \in -179..180
    BY DEF LCh, Lightness, Chroma, Angle
  <1>2. Group(lch) \in 0..12
    BY <1>1, GroupOfHue, SMT DEF Group, neutralChroma
  <1>3. Rounded(lch.l) \in Nat /\ Rounded(lch.l) <= 1000
    BY <1>1, RoundedLightness
  <1>4. ChromaPart(lch) \in 0..999
    <2>1. Rounded(lch.c) \in Nat  BY <1>1, RoundedChroma
    <2> QED BY <2>1, SMT DEF ChromaPart
  <1> QED BY <1>2, <1>3, <1>4

LEMMA SortKey ==
  ASSUME NEW a \in LCh, NEW b \in LCh
  PROVE  /\ perceptualSortKey(a) < perceptualSortKey(b)
              <=> Precedes(Perceptual(a), Perceptual(b))
         /\ 0 <= perceptualSortKey(a) /\ perceptualSortKey(a) <= 2147483647
  <1> DEFINE ga == Group(a)
             la == Rounded(a.l)
             ca == ChromaPart(a)
             gb == Group(b)
             lb == Rounded(b.l)
             cb == ChromaPart(b)
  <1>1. /\ ga \in 0..12 /\ la \in Nat /\ la <= 1000 /\ ca \in 0..999
        /\ gb \in 0..12 /\ lb \in Nat /\ lb <= 1000 /\ cb \in 0..999
    BY PartBounds
  <1>2. /\ perceptualSortKey(a) = ga * 10000000 + la * 1000 + ca
        /\ perceptualSortKey(b) = gb * 10000000 + lb * 1000 + cb
    BY SMT DEF perceptualSortKey
  <1>3. Precedes(Perceptual(a), Perceptual(b)) <=>
          \/ ga < gb
          \/ ga = gb /\ la < lb
          \/ ga = gb /\ la = lb /\ ca < cb
    BY SMT DEF Precedes, Perceptual
  <1> HIDE DEF ga, la, ca, gb, lb, cb
  <1>4. ga * 10000000 + la * 1000 + ca < gb * 10000000 + lb * 1000 + cb <=>
          \/ ga < gb
          \/ ga = gb /\ la < lb
          \/ ga = gb /\ la = lb /\ ca < cb
    <2> DEFINE x == ga * 10000000 + la * 1000 + ca
               y == gb * 10000000 + lb * 1000 + cb
    <2>1. CASE ga < gb
      <3>1. x < y  BY <1>1, <2>1, SMT
      <3> QED BY <1>1, <2>1, <3>1, SMT
    <2>2. CASE gb < ga
      <3>1. y < x  BY <1>1, <2>2, SMT
      <3> QED BY <1>1, <2>2, <3>1, SMT
    <2>3. CASE gb = ga  BY <1>1, <2>3, SMT
    <2> QED BY <1>1, <2>1, <2>2, <2>3, SMT
  <1>5. /\ 0 <= ga * 10000000 + la * 1000 + ca
        /\ ga * 10000000 + la * 1000 + ca <= 2147483647
    <2>1. 0 <= ga * 10000000 + la * 1000 + ca  BY <1>1, SMT
    <2>2. ga * 10000000 + la * 1000 + ca <= 2147483647  BY <1>1, SMT
    <2> QED BY <2>1, <2>2, SMT
  <1> QED BY <1>2, <1>3, <1>4, <1>5, SMT

LEMMA AskedSave ==
  asked \in Asked /\ asked.of = "save" => asked.first \in LCh /\ asked.second \in LCh
  BY ReadOnlyAssumption DEF Asked, LCh

KeyInv == asked \in Asked /\ KeyOrder

LEMMA KeyOrderStep == KeyInv /\ [Next]_vars => KeyInv'
  <1> SUFFICES ASSUME asked \in Asked, KeyOrder, [Next]_vars PROVE asked' \in Asked /\ KeyOrder'
    BY DEF KeyInv
  <1>1. CASE Feel
    <2>1. asked' = asked /\ asked.first \in LCh /\ asked.second \in LCh
      BY <1>1, AskedSave DEF Feel, Answers
    <2>2. /\ answer'.first = perceptualSortKey(asked.first)
          /\ answer'.second = perceptualSortKey(asked.second)
      BY <1>1 DEF Feel, Answers
    <2> QED BY <2>1, <2>2, SortKey, SMT DEF KeyOrder
  <1>2. CASE HandleColorInfo \/ Rotations \/ Fitted \/ HandleListCommonColors
    <2>1. asked' = asked /\ asked.of # "save"
      BY <1>2 DEF HandleColorInfo, Rotations, Fitted, HandleListCommonColors, Answers
    <2>2. KeyOrder'  BY <2>1, SMT DEF KeyOrder, Answered
    <2> QED BY <2>1, <2>2
  <1>3. CASE UNCHANGED vars
    <2>1. asked' = asked /\ answer' = answer  BY <1>3 DEF vars
    <2>2. KeyOrder'  BY <2>1, SMT DEF KeyOrder, Answered
    <2> QED BY <2>1, <2>2
  <1> QED BY <1>1, <1>2, <1>3 DEF Next

LEMMA KeyOrderInit == Init => KeyInv
  <1> SUFFICES ASSUME Init PROVE asked \in Asked /\ KeyOrder  BY DEF KeyInv
  <1>1. asked \in Asked /\ answer = None  BY DEF Init
  <1> QED BY <1>1, SMT DEF KeyOrder, Answered

(* Two saved colours are listed by their parts: neutrals first, then families *)
(* of hues, from dark to light, then by chroma; the key fits an int32.        *)
THEOREM KeysKeepOrder == Spec => []KeyOrder
  BY KeyOrderInit, KeyOrderStep, PTL DEF Spec, KeyInv
-----------------------------------------------------------------------------
(* The HSL wheel.                                                             *)

LEMMA Grays == Full \in Nat /\ \A c \in Hex : Span(c) = 0 => c \in Neutral
  BY ColorAssumption DEF ColorAssumption

LEMMA SpanBounds ==
  ASSUME NEW c \in Hex
  PROVE  /\ Greatest(c) \in Channel /\ Least(c) \in Channel
         /\ Span(c) \in Nat /\ Greatest(c) = Least(c) + Span(c)
  <1>1. c.r \in 0..Full /\ c.g \in 0..Full /\ c.b \in 0..Full  BY Grays DEF Hex, Channel
  <1>2. Greatest(c) \in 0..Full  BY <1>1 DEF Greatest
  <1>3. Least(c) \in 0..Full  BY <1>1 DEF Least
  <1>4. Least(c) <= Greatest(c)  BY <1>1, Grays DEF Least, Greatest
  <1> QED BY <1>2, <1>3, <1>4, Grays DEF Span, Channel

\* The hue is an angle of one turn.
LEMMA HueBounds ==
  ASSUME NEW c \in Hex, Span(c) # 0
  PROVE  hueDegrees(c) \in Int /\ 0 <= hueDegrees(c) /\ hueDegrees(c) < 12 * Span(c)
  <1>1. c.r \in 0..Full /\ c.g \in 0..Full /\ c.b \in 0..Full  BY Grays DEF Hex, Channel
  <1> DEFINE span == Span(c)
  <1>2. /\ span \in Nat /\ Greatest(c) = Least(c) + span
        /\ Least(c) <= c.r /\ Least(c) <= c.g /\ Least(c) <= c.b
        /\ c.r <= Greatest(c) /\ c.g <= Greatest(c) /\ c.b <= Greatest(c)
        /\ Greatest(c) \in {c.r, c.g, c.b} /\ Least(c) \in Int
    <2>1. c.r \in Int /\ c.g \in Int /\ c.b \in Int  BY <1>1, Grays
    <2>2. /\ Greatest(c) \in {c.r, c.g, c.b}
          /\ c.r <= Greatest(c) /\ c.g <= Greatest(c) /\ c.b <= Greatest(c)
      BY <2>1 DEF Greatest
    <2>3. /\ Least(c) \in {c.r, c.g, c.b}
          /\ Least(c) <= c.r /\ Least(c) <= c.g /\ Least(c) <= c.b
      BY <2>1 DEF Least
    <2>4. span \in Nat /\ Greatest(c) = Least(c) + span  BY SpanBounds
    <2> QED BY <2>1, <2>2, <2>3, <2>4
  <1>3. span # 0  OBVIOUS
  <1> HIDE DEF span
  <1>4. CASE Greatest(c) = c.r
    <2>1. hueDegrees(c) = LET hue == 2 * (c.g - c.b) IN IF hue < 0 THEN hue + 12 * span ELSE hue
      BY <1>4 DEF hueDegrees, span
    <2> QED BY <1>1, <1>2, <1>3, <1>4, <2>1, Grays DEF span
  <1>5. CASE Greatest(c) # c.r /\ Greatest(c) = c.g
    <2>1. hueDegrees(c) = LET hue == 2 * (c.b - c.r) + 4 * span
                          IN IF hue < 0 THEN hue + 12 * span ELSE hue
      BY <1>5 DEF hueDegrees, span
    <2> QED BY <1>1, <1>2, <1>3, <1>5, <2>1, Grays DEF span
  <1>6. CASE Greatest(c) # c.r /\ Greatest(c) # c.g
    <2>1. hueDegrees(c) = LET hue == 2 * (c.r - c.g) + 8 * span
                          IN IF hue < 0 THEN hue + 12 * span ELSE hue
      BY <1>6 DEF hueDegrees, span
    <2> QED BY <1>1, <1>2, <1>3, <1>6, <2>1, Grays DEF span
  <1> QED BY <1>4, <1>5, <1>6

\* What has the same greatest and least channel has the same tone.
SameEnds(c, d) == Greatest(c) = Greatest(d) /\ Least(c) = Least(d)

LEMMA EndsAreTone ==
  ASSUME NEW c, NEW d, SameEnds(c, d)
  PROVE  [Describe(c) EXCEPT !.hue = 0] = [Describe(d) EXCEPT !.hue = 0]
  BY DEF SameEnds, Describe, Span

\* The middle channel lies between the others.
LEMMA MidBounds ==
  ASSUME NEW span \in Nat, NEW steps \in Nat, steps <= 2 * span, NEW up \in {0, 1}
  PROVE  (steps + up) \div 2 \in Nat /\ (steps + up) \div 2 <= span
  BY SMT

\* Any angle of the wheel has the ends it was given.
LEMMA WheelEnds ==
  ASSUME NEW span \in Nat, span # 0, NEW low \in Nat, low + span <= Full,
         NEW hue \in Int, 0 <= hue, hue < 12 * span, NEW up \in {0, 1}
  PROVE  /\ hslToHex(hue, span, low, up) \in Hex
         /\ Greatest(hslToHex(hue, span, low, up)) = low + span
         /\ Least(hslToHex(hue, span, low, up)) = low
  <1> DEFINE high == low + span
             d == hslToHex(hue, span, low, up)
             Between(steps) == low + (steps + up) \div 2
  <1>1. PICK steps \in Nat : /\ steps <= 2 * span
                             /\ d \in {[r |-> high, g |-> Between(steps), b |-> low],
                                       [r |-> Between(steps), g |-> high, b |-> low],
                                       [r |-> low, g |-> high, b |-> Between(steps)],
                                       [r |-> low, g |-> Between(steps), b |-> high],
                                       [r |-> Between(steps), g |-> low, b |-> high],
                                       [r |-> high, g |-> low, b |-> Between(steps)]}
    <2>1. CASE hue < 2 * span
      <3>1. d = [r |-> high, g |-> Between(hue), b |-> low]  BY <2>1 DEF hslToHex
      <3>2. hue \in Nat /\ hue <= 2 * span  BY <2>1
      <3> QED BY <3>1, <3>2
    <2>2. CASE hue >= 2 * span /\ hue < 4 * span
      <3>1. d = [r |-> Between(4 * span - hue), g |-> high, b |-> low]  BY <2>2 DEF hslToHex
      <3>2. 4 * span - hue \in Nat /\ 4 * span - hue <= 2 * span  BY <2>2
      <3> QED BY <3>1, <3>2
    <2>3. CASE hue >= 4 * span /\ hue < 6 * span
      <3>1. d = [r |-> low, g |-> high, b |-> Between(hue - 4 * span)]  BY <2>3 DEF hslToHex
      <3>2. hue - 4 * span \in Nat /\ hue - 4 * span <= 2 * span  BY <2>3
      <3> QED BY <3>1, <3>2
    <2>4. CASE hue >= 6 * span /\ hue < 8 * span
      <3>1. d = [r |-> low, g |-> Between(8 * span - hue), b |-> high]  BY <2>4 DEF hslToHex
      <3>2. 8 * span - hue \in Nat /\ 8 * span - hue <= 2 * span  BY <2>4
      <3> QED BY <3>1, <3>2
    <2>5. CASE hue >= 8 * span /\ hue < 10 * span
      <3>1. d = [r |-> Between(hue - 8 * span), g |-> low, b |-> high]  BY <2>5 DEF hslToHex
      <3>2. hue - 8 * span \in Nat /\ hue - 8 * span <= 2 * span  BY <2>5
      <3> QED BY <3>1, <3>2
    <2>6. CASE hue >= 10 * span
      <3>1. d = [r |-> high, g |-> low, b |-> Between(12 * span - hue)]  BY <2>6 DEF hslToHex
      <3>2. 12 * span - hue \in Nat /\ 12 * span - hue <= 2 * span  BY <2>6
      <3> QED BY <3>1, <3>2
    <2> QED BY <2>1, <2>2, <2>3, <2>4, <2>5, <2>6
  <1>2. (steps + up) \div 2 \in Nat /\ (steps + up) \div 2 <= span  BY <1>1, MidBounds
  <1> DEFINE mid == Between(steps)
  <1>3. mid \in Nat /\ low <= mid /\ mid <= high  BY <1>2
  <1>4. high \in Channel /\ mid \in Channel /\ low \in Channel
    BY <1>3, Grays DEF Channel
  <1> HIDE DEF high, mid, d
  <1>5. d \in {[r |-> high, g |-> mid, b |-> low], [r |-> mid, g |-> high, b |-> low],
               [r |-> low, g |-> high, b |-> mid], [r |-> low, g |-> mid, b |-> high],
               [r |-> mid, g |-> low, b |-> high], [r |-> high, g |-> low, b |-> mid]}
    BY <1>1 DEF mid
  <1>6. d \in Hex /\ Greatest(d) = high /\ Least(d) = low
    <2>1. d \in Hex  BY <1>4, <1>5 DEF Hex
    <2>2. high \in Int /\ mid \in Int /\ low <= mid /\ mid <= high  BY <1>3 DEF high
    <2>3. Greatest(d) = high  BY <1>5, <2>2 DEF Greatest
    <2>4. Least(d) = low  BY <1>5, <2>2 DEF Least
    <2> QED BY <2>1, <2>3, <2>4
  <1> QED BY <1>6 DEF d, high

\* A turn by less than a whole one either way lands on the wheel.
LEMMA WrapBounds ==
  ASSUME NEW turn \in Nat, NEW hue \in Int, -turn <= hue, hue < 2 * turn
  PROVE  Wrap(hue, turn) \in Int /\ 0 <= Wrap(hue, turn) /\ Wrap(hue, turn) < turn
  BY DEF Wrap

LEMMA RotationEnds ==
  ASSUME NEW c \in Hex, NEW turns \in {-1, 1, 3, 4, 5, 6, 7, 8, 9}, NEW up \in {0, 1}
  PROVE  rotateHSL(c, turns, up) \in Hex /\ SameEnds(rotateHSL(c, turns, up), c)
  <1>1. CASE c \in Neutral  BY <1>1 DEF rotateHSL, SameEnds
  <1>2. CASE c \notin Neutral
    <2> DEFINE span == Span(c)
               hue == hueDegrees(c) + turns * span
    <2>1. span \in Nat /\ Least(c) \in Nat /\ Greatest(c) = Least(c) + span /\ Greatest(c) <= Full
      BY SpanBounds, Grays DEF Channel
    <2>2. span # 0  BY <1>2, Grays
    <2>3. hueDegrees(c) \in Int /\ 0 <= hueDegrees(c) /\ hueDegrees(c) < 12 * span
      BY <2>2, HueBounds
    <2>4. turns * span \in Int /\ -span <= turns * span /\ turns * span <= 9 * span
      BY <2>1
    <2> DEFINE whole == 12 * span
               angle == Wrap(hue, whole)
    <2>5. whole \in Nat /\ hue \in Int /\ -whole <= hue /\ hue < 2 * whole
      BY <2>1, <2>2, <2>3, <2>4
    <2>6. angle \in Int /\ 0 <= angle /\ angle < whole
      BY <2>5, WrapBounds
    <2>7. rotateHSL(c, turns, up) = hslToHex(angle, span, Least(c), up)
      BY <1>2 DEF rotateHSL
    <2> HIDE DEF span, angle
    <2>8. /\ hslToHex(angle, span, Least(c), up) \in Hex
          /\ Greatest(hslToHex(angle, span, Least(c), up)) = Least(c) + span
          /\ Least(hslToHex(angle, span, Least(c), up)) = Least(c)
      BY <2>1, <2>2, <2>6, WheelEnds
    <2> QED BY <2>1, <2>7, <2>8 DEF SameEnds
  <1> QED BY <1>1, <1>2

ToneInv == asked \in Asked /\ WheelKeepsTone

LEMMA AskedTurn ==
  asked \in Asked /\ asked.of = "turn" =>
    asked.hex \in Hex /\ asked.harmony \in DOMAIN harmonies /\ asked.up \in {0, 1}
  BY DEF Asked

LEMMA Angles ==
  ASSUME NEW h \in DOMAIN harmonies
  PROVE  harmonies[h] \subseteq {-1, 1, 3, 4, 5, 6, 7, 8, 9}
  BY DEF harmonies

LEMMA ToneStep == ToneInv /\ [Next]_vars => ToneInv'
  <1> SUFFICES ASSUME asked \in Asked, WheelKeepsTone, [Next]_vars
               PROVE  asked' \in Asked /\ WheelKeepsTone'
    BY DEF ToneInv
  <1>1. CASE Rotations
    <2>1. /\ asked' = asked /\ asked.hex \in Hex /\ asked.up \in {0, 1}
          /\ asked.harmony \in DOMAIN harmonies
          /\ answer' = [turns \in harmonies[asked.harmony] |->
                          rotateHSL(asked.hex, turns, asked.up)]
      BY <1>1, AskedTurn DEF Rotations, Answers
    <2>2. ASSUME NEW turns \in DOMAIN answer'
          PROVE  /\ answer'[turns] \in Hex
                 /\ [Describe(answer'[turns]) EXCEPT !.hue = 0]
                      = [Describe(asked.hex) EXCEPT !.hue = 0]
      <3>1. turns \in harmonies[asked.harmony]  BY <2>1
      <3>2. turns \in {-1, 1, 3, 4, 5, 6, 7, 8, 9}  BY <2>1, <3>1, Angles
      <3>3. answer'[turns] = rotateHSL(asked.hex, turns, asked.up)  BY <2>1, <3>1
      <3>4. answer'[turns] \in Hex /\ SameEnds(answer'[turns], asked.hex)
        BY <2>1, <3>2, <3>3, RotationEnds
      <3> QED BY <3>4, EndsAreTone
    <2> QED BY <2>1, <2>2 DEF WheelKeepsTone
  <1>2. CASE HandleColorInfo \/ Feel \/ Fitted \/ HandleListCommonColors
    <2>1. asked' = asked /\ asked.of # "turn"
      BY <1>2 DEF HandleColorInfo, Feel, Fitted, HandleListCommonColors, Answers
    <2> QED BY <2>1 DEF WheelKeepsTone, Answered
  <1>3. CASE UNCHANGED vars
    BY <1>3 DEF vars, WheelKeepsTone, Answered
  <1> QED BY <1>1, <1>2, <1>3 DEF Next

LEMMA ToneInit == Init => ToneInv
  BY DEF Init, ToneInv, WheelKeepsTone, Answered

(* Whatever the number of levels of a channel, every harmony of the HSL wheel *)
(* is in sRGB and shows the saturations, the lightness and the value it was   *)
(* asked for.                                                                 *)
THEOREM HarmoniesKeepTone == Spec => []WheelKeepsTone
  BY ToneInit, ToneStep, PTL DEF Spec, ToneInv

-----------------------------------------------------------------------------
(* Induction: the order of the naturals is well-founded, so a set of them has *)
(* a least element, and a set closed under successor has them all.  It gives  *)
(* the equation of a recursive function, which is chosen and need not exist.  *)

LEMMA LeastNat ==
  ASSUME NEW T \in SUBSET Nat, T # {}
  PROVE  \E m \in T : \A k \in T : m <= k
  <1> DEFINE R == OpToRel(<, Nat)
  <1>1. IsWellFoundedOn(R, Nat)  BY NatLessThanWellFounded
  <1>2. \A x, y \in Nat : <<y, x>> \in R <=> y < x  BY DEF OpToRel
  <1> HIDE DEF R
  <1>3. PICK x \in T : \A y \in T : ~(<<y, x>> \in R)  BY <1>1, WFMin
  <1>4. \A k \in T : k \in Nat /\ ~(k < x)
    <2> TAKE k \in T
    <2>1. k \in Nat /\ x \in Nat  OBVIOUS
    <2>2. ~(<<k, x>> \in R)  BY <1>3
    <2> QED BY <1>2, <2>1, <2>2
  <1>5. \A k \in T : x <= k  BY <1>4
  <1> QED BY <1>5

LEMMA Induction ==
  ASSUME NEW S, 0 \in S, \A n \in Nat : n \in S => n + 1 \in S
  PROVE  Nat \subseteq S
  <1> SUFFICES ASSUME ~(Nat \subseteq S) PROVE FALSE  OBVIOUS
  <1>1. PICK m \in Nat \ S : \A k \in Nat \ S : m <= k
    <2> DEFINE T == Nat \ S
    <2>1. T \in SUBSET Nat /\ T # {}  OBVIOUS
    <2> HIDE DEF T
    <2>2. \E m \in T : \A k \in T : m <= k  BY <2>1, LeastNat
    <2> QED BY <2>2 DEF T
  <1>2. m # 0 /\ m - 1 \in Nat  BY <1>1
  <1>3. m - 1 \in S  BY <1>1, <1>2
  <1>4. (m - 1) + 1 = m  BY <1>1
  <1> QED BY <1>1, <1>2, <1>3, <1>4

\* Induction that stops at N.
LEMMA InductionTo ==
  ASSUME NEW N \in Nat, NEW S, 0 \in S, \A n \in 1..N : n - 1 \in S => n \in S
  PROVE  0..N \subseteq S
  <1> DEFINE T == {n \in Nat : n \in 0..N => n \in S}
  <1>1. 0 \in T  OBVIOUS
  <1>2. \A n \in Nat : n \in T => n + 1 \in T
    <2> SUFFICES ASSUME NEW n \in Nat, n \in T, n + 1 \in 0..N PROVE n + 1 \in S
      OBVIOUS
    <2>1. n \in 0..N /\ n + 1 \in 1..N /\ (n + 1) - 1 = n  OBVIOUS
    <2> QED BY <2>1
  <1> HIDE DEF T
  <1>3. Nat \subseteq T  BY <1>1, <1>2, Induction
  <1> QED BY <1>3 DEF T

\* A function defined from its value one step before exists.
Run(h, f, x0, N) == h = [n \in 0..N |-> IF n = 0 THEN x0 ELSE f[h[n - 1]]]

LEMMA Iterated ==
  ASSUME NEW X, NEW f \in [X -> X], NEW x0 \in X, NEW N \in Nat
  PROVE  \E h \in [0..N -> X] : Run(h, f, x0, N)
  <1> DEFINE Runs(h, n) == /\ h \in [0..n -> X] /\ h[0] = x0
                           /\ \A k \in 1..n : h[k] = f[h[k - 1]]
             S == {n \in Nat : \E h : Runs(h, n)}
  <1>1. 0 \in S
    <2>1. Runs([k \in 0..0 |-> x0], 0)  OBVIOUS
    <2> QED BY <2>1
  <1>2. ASSUME NEW n \in Nat, n \in S PROVE n + 1 \in S
    <2>1. PICK h : Runs(h, n)  BY <1>2
    <2> DEFINE g == [k \in 0..(n + 1) |-> IF k = n + 1 THEN f[h[n]] ELSE h[k]]
    <2>2. \A k \in 0..(n + 1) : g[k] = IF k = n + 1 THEN f[h[n]] ELSE h[k]
      OBVIOUS
    <2>3. \A k \in 0..n : k \in 0..(n + 1) /\ k # n + 1 /\ h[k] \in X
      BY <2>1
    <2>4. g \in [0..(n + 1) -> X]
      <3>1. f[h[n]] \in X  BY <2>3
      <3>2. \A k \in 0..(n + 1) : k = n + 1 \/ k \in 0..n  OBVIOUS
      <3> QED BY <2>3, <3>1, <3>2
    <2> HIDE DEF g
    <2>5. g[0] = x0  BY <2>1, <2>2, <2>3
    <2>6. \A k \in 1..(n + 1) : g[k] = f[g[k - 1]]
      <3> TAKE k \in 1..(n + 1)
      <3>1. k - 1 \in 0..n /\ g[k - 1] = h[k - 1]  BY <2>2, <2>3
      <3>2. CASE k = n + 1
        <4>1. g[k] = f[h[n]] /\ k - 1 = n  BY <2>2, <3>2
        <4> QED BY <3>1, <4>1
      <3>3. CASE k # n + 1
        <4>1. k \in 1..n /\ g[k] = h[k]  BY <2>2, <3>3
        <4> QED BY <2>1, <3>1, <4>1
      <3> QED BY <3>2, <3>3
    <2>7. Runs(g, n + 1)  BY <2>4, <2>5, <2>6
    <2> QED BY <2>7
  <1>3. Nat \subseteq S
    <2> HIDE DEF S
    <2>1. \A n \in Nat : n \in S => n + 1 \in S  BY <1>2
    <2> QED BY <1>1, <2>1, Induction
  <1>4. PICK h : Runs(h, N)  BY <1>3
  <1> DEFINE g == [n \in 0..N |-> IF n = 0 THEN x0 ELSE f[h[n - 1]]]
  <1>5. \A n \in 0..N : h[n] = g[n]
    <2> TAKE n \in 0..N
    <2>1. n = 0 \/ n \in 1..N  OBVIOUS
    <2> QED BY <1>4, <2>1
  <1>6. h = g
    <2>1. h = [n \in 0..N |-> h[n]]  BY <1>4
    <2> QED BY <1>5, <2>1
  <1> QED BY <1>4, <1>6 DEF Run
-----------------------------------------------------------------------------
(* The search of an end that fits.                                            *)

LEMMA Fineness ==
  /\ Fine \in Nat /\ Fine # 0 /\ neutralCut \in Nat /\ gamutSteps \in Nat /\ gapAfter[gamutSteps] = 1
  /\ Samples \subseteq 0..Fine /\ Samples # {}
  BY GamutAssumption DEF GamutAssumption

\* What each halving leaves of the gap.
LEMMA Gaps ==
  /\ \A n \in 0..gamutSteps : gapAfter[n] \in Int
  /\ gapAfter[0] = Fine + 1
  /\ \A n \in 1..gamutSteps : gapAfter[n] = (gapAfter[n - 1] + 1) \div 2
  <1> DEFINE f == [x \in Int |-> (x + 1) \div 2]
             Eq(h) == h = [n \in 0..gamutSteps |-> IF n = 0 THEN Fine + 1 ELSE (h[n - 1] + 1) \div 2]
  <1>1. f \in [Int -> Int] /\ Fine + 1 \in Int /\ gamutSteps \in Nat  BY Fineness
  <1>2. \A x \in Int : f[x] = (x + 1) \div 2  OBVIOUS
  <1> DEFINE first == Fine + 1
  <1> HIDE DEF f, first
  <1>3. PICK h \in [0..gamutSteps -> Int] : Run(h, f, first, gamutSteps)
    <2>1. first \in Int  BY <1>1 DEF first
    <2> QED BY <1>1, <2>1, Iterated, Zenon
  <1>4. \A n \in 1..gamutSteps : n - 1 \in 0..gamutSteps /\ h[n - 1] \in Int
    <2> TAKE n \in 1..gamutSteps
    <2>1. n - 1 \in 0..gamutSteps  BY <1>1
    <2> QED BY <2>1
  <1>5. Eq(h)
    <2>1. \A n \in 0..gamutSteps : h[n] = IF n = 0 THEN Fine + 1 ELSE (h[n - 1] + 1) \div 2
      <3> TAKE n \in 0..gamutSteps
      <3>1. n = 0 \/ n \in 1..gamutSteps  BY <1>1
      <3> QED BY <1>2, <1>3, <1>4, <3>1 DEF first, Run
    <2>2. h = [n \in 0..gamutSteps |-> h[n]]  BY <1>3
    <2> QED BY <2>1, <2>2
  <1>6. gapAfter = CHOOSE g : Eq(g)  BY DEF gapAfter
  <1> HIDE DEF Eq
  <1>7. Eq(gapAfter)  BY <1>5, <1>6
  <1>8. gapAfter = [n \in 0..gamutSteps |-> IF n = 0 THEN Fine + 1 ELSE (gapAfter[n - 1] + 1) \div 2]
    BY <1>7 DEF Eq
  <1>9. \A n \in 0..gamutSteps :
          gapAfter[n] = IF n = 0 THEN Fine + 1 ELSE (gapAfter[n - 1] + 1) \div 2
    BY <1>8
  <1> DEFINE S == {n \in 0..gamutSteps : gapAfter[n] \in Int}
  <1>10. 0..gamutSteps \subseteq S
    <2>1. 0 \in S
      <3>1. 0 \in 0..gamutSteps  BY <1>1
      <3>2. gapAfter[0] = Fine + 1  BY <1>9, <3>1
      <3> QED BY <1>1, <3>1, <3>2
    <2>2. \A n \in 1..gamutSteps : n - 1 \in S => n \in S
      <3> TAKE n \in 1..gamutSteps
      <3>1. n \in 0..gamutSteps /\ n # 0  BY <1>1
      <3>2. gapAfter[n] = (gapAfter[n - 1] + 1) \div 2  BY <1>9, <3>1
      <3> QED BY <3>1, <3>2
    <2> HIDE DEF S
    <2> QED BY <1>1, <2>1, <2>2, InductionTo
  <1>11. \A n \in 0..gamutSteps : gapAfter[n] \in Int  BY <1>10
  <1>12. 0 \in 0..gamutSteps /\ \A n \in 1..gamutSteps : n \in 0..gamutSteps /\ n # 0  BY <1>1
  <1> QED BY <1>9, <1>11, <1>12

\* One halving, and all of them.
Ends == [low : Int, high : Int]

Halve(fits, last) ==
  LET mid == (last.low + last.high) \div 2
  IN IF fits[mid] THEN [last EXCEPT !.low = mid] ELSE [last EXCEPT !.high = mid]

Halved(fits, low, high) ==
  CHOOSE h : h = [n \in 0..gamutSteps |-> IF n = 0 THEN [low |-> low, high |-> high]
                                          ELSE Halve(fits, h[n - 1])]

LEMMA BisectIsHalved ==
  ASSUME NEW fits, NEW low, NEW high
  PROVE  Bisect(fits, low, high) = Halved(fits, low, high)[gamutSteps].low
  BY DEF Bisect, Halved, Halve

LEMMA HalvedRuns ==
  ASSUME NEW fits, NEW low \in Int, NEW high \in Int
  PROVE  LET h == Halved(fits, low, high)
         IN /\ h[0] = [low |-> low, high |-> high]
            /\ \A n \in 1..gamutSteps : h[n] = Halve(fits, h[n - 1])
  <1> DEFINE first == [low |-> low, high |-> high]
             f == [x \in Ends |-> Halve(fits, x)]
             Eq(h) == h = [n \in 0..gamutSteps |-> IF n = 0 THEN first ELSE Halve(fits, h[n - 1])]
  <1>1. gamutSteps \in Nat  BY Fineness
  <1>2. first \in Ends  BY DEF Ends
  <1>3. \A x \in Ends : Halve(fits, x) \in Ends
    <2> TAKE x \in Ends
    <2>1. (x.low + x.high) \div 2 \in Int  BY DEF Ends
    <2> QED BY <2>1 DEF Halve, Ends
  <1>4. f \in [Ends -> Ends] /\ \A x \in Ends : f[x] = Halve(fits, x)  BY <1>3
  <1> HIDE DEF f, first
  <1>5. PICK h \in [0..gamutSteps -> Ends] : Run(h, f, first, gamutSteps)
    BY <1>1, <1>2, <1>4, Iterated, Zenon
  <1>6. Eq(h)
    <2>1. \A n \in 0..gamutSteps : h[n] = IF n = 0 THEN first ELSE Halve(fits, h[n - 1])
      <3> TAKE n \in 0..gamutSteps
      <3>1. h[n] = IF n = 0 THEN first ELSE f[h[n - 1]]  BY <1>5 DEF Run
      <3>2. n # 0 => n - 1 \in 0..gamutSteps  BY <1>1
      <3>3. n # 0 => h[n - 1] \in Ends  BY <3>2
      <3> QED BY <1>4, <3>1, <3>3
    <2>2. h = [n \in 0..gamutSteps |-> h[n]]  OBVIOUS
    <2> QED BY <2>1, <2>2
  <1> DEFINE g == Halved(fits, low, high)
  <1>7. g = CHOOSE k : Eq(k)  BY DEF Halved, first
  <1> HIDE DEF Eq, g
  <1>8. Eq(g)  BY <1>6, <1>7
  <1>9. g = [n \in 0..gamutSteps |-> IF n = 0 THEN first ELSE Halve(fits, g[n - 1])]
    BY <1>8 DEF Eq
  <1>10. \A n \in 0..gamutSteps : g[n] = IF n = 0 THEN first ELSE Halve(fits, g[n - 1])
    BY <1>9
  <1>11. 0 \in 0..gamutSteps /\ \A n \in 1..gamutSteps : n \in 0..gamutSteps /\ n # 0
    BY <1>1
  <1> QED BY <1>10, <1>11 DEF first, g

\* The ends stay on their sides and one halving closes half of the gap.
Upward(fits, e, high, gap) ==
  /\ e \in Ends /\ e.low < e.high /\ e.high - e.low <= gap
  /\ fits[e.low] /\ (e.high = high \/ ~fits[e.high]) /\ e.high <= high

Downward(fits, e, high, gap) ==
  /\ e \in Ends /\ e.high < e.low /\ e.low - e.high <= gap
  /\ fits[e.low] /\ ~fits[e.high] /\ high <= e.high

LEMMA HalfUpward ==
  ASSUME NEW fits, NEW e, NEW high \in Int, NEW gap \in Int, Upward(fits, e, high, gap)
  PROVE  /\ Upward(fits, Halve(fits, e), high, (gap + 1) \div 2)
         /\ e.low <= Halve(fits, e).low
  <1> DEFINE mid == (e.low + e.high) \div 2
             next == Halve(fits, e)
  <1>1. e.low \in Int /\ e.high \in Int /\ e.low < e.high /\ e.high - e.low <= gap /\ e.high <= high
    BY DEF Upward, Ends
  <1>2. /\ mid \in Int /\ e.low <= mid /\ mid < e.high
        /\ e.high - mid <= (gap + 1) \div 2 /\ mid - e.low <= (gap + 1) \div 2
    BY <1>1
  <1> HIDE DEF mid
  <1>3. CASE fits[mid]
    <2>1. next = [low |-> mid, high |-> e.high]  BY <1>3 DEF Halve, Upward, Ends, mid
    <2> QED BY <1>1, <1>2, <1>3, <2>1 DEF Upward, Ends
  <1>4. CASE ~fits[mid]
    <2>1. next = [low |-> e.low, high |-> mid]  BY <1>4 DEF Halve, Upward, Ends, mid
    <2>2. e.low < mid
      <3>1. e.low # mid  BY <1>4 DEF Upward
      <3> QED BY <1>1, <1>2, <3>1
    <2> QED BY <1>1, <1>2, <1>4, <2>1, <2>2 DEF Upward, Ends
  <1> QED BY <1>3, <1>4

LEMMA HalfDownward ==
  ASSUME NEW fits, NEW e, NEW high \in Int, NEW gap \in Int, Downward(fits, e, high, gap)
  PROVE  /\ Downward(fits, Halve(fits, e), high, (gap + 1) \div 2)
         /\ Halve(fits, e).low <= e.low
  <1> DEFINE mid == (e.low + e.high) \div 2
             next == Halve(fits, e)
  <1>1. e.low \in Int /\ e.high \in Int /\ e.high < e.low /\ e.low - e.high <= gap /\ high <= e.high
    BY DEF Downward, Ends
  <1>2. /\ mid \in Int /\ e.high <= mid /\ mid < e.low
        /\ e.low - mid <= (gap + 1) \div 2 /\ mid - e.high <= (gap + 1) \div 2
    BY <1>1
  <1> HIDE DEF mid
  <1>3. CASE fits[mid]
    <2>1. next = [low |-> mid, high |-> e.high]  BY <1>3 DEF Halve, Downward, Ends, mid
    <2>2. e.high < mid
      <3>1. e.high # mid  BY <1>3 DEF Downward
      <3> QED BY <1>1, <1>2, <3>1
    <2> QED BY <1>1, <1>2, <1>3, <2>1, <2>2 DEF Downward, Ends
  <1>4. CASE ~fits[mid]
    <2>1. next = [low |-> e.low, high |-> mid]  BY <1>4 DEF Halve, Downward, Ends, mid
    <2> QED BY <1>1, <1>2, <1>4, <2>1 DEF Downward, Ends
  <1> QED BY <1>3, <1>4

\* What a search from a fitting end towards one that does not fit returns: a
\* fitting end whose neighbour on that side does not fit.
LEMMA BisectUpward ==
  ASSUME NEW fits, NEW low \in Int, NEW high \in Int, low < high, high - low <= Fine + 1,
         fits[low]
  PROVE  LET end == Bisect(fits, low, high)
         IN /\ end \in Int /\ low <= end /\ end < high
            /\ fits[end] /\ (end + 1 = high \/ ~fits[end + 1])
  <1> DEFINE h == Halved(fits, low, high)
             S == {n \in 0..gamutSteps : Upward(fits, h[n], high, gapAfter[n]) /\ low <= h[n].low}
  <1>1. /\ h[0] = [low |-> low, high |-> high]
        /\ \A n \in 1..gamutSteps : h[n] = Halve(fits, h[n - 1])
    BY HalvedRuns
  <1>2. gamutSteps \in Nat /\ Fine \in Nat /\ gapAfter[gamutSteps] = 1  BY Fineness
  <1> HIDE DEF h
  <1>3. 0 \in S
    <2>1. Upward(fits, h[0], high, Fine + 1)  BY <1>1, <1>2 DEF Upward, Ends
    <2>2. 0 \in 0..gamutSteps /\ gapAfter[0] = Fine + 1  BY <1>2, Gaps
    <2>3. low <= h[0].low  BY <1>1
    <2>4. Upward(fits, h[0], high, gapAfter[0])  BY <2>1, <2>2
    <2> QED BY <2>2, <2>3, <2>4
  <1>4. \A n \in 1..gamutSteps : n - 1 \in S => n \in S
    <2> SUFFICES ASSUME NEW n \in 1..gamutSteps, n - 1 \in S PROVE n \in S  OBVIOUS
    <2>1. n \in 0..gamutSteps /\ n - 1 \in 0..gamutSteps  BY <1>2
    <2>2. Upward(fits, h[n - 1], high, gapAfter[n - 1]) /\ low <= h[n - 1].low  OBVIOUS
    <2>3. gapAfter[n - 1] \in Int /\ gapAfter[n] = (gapAfter[n - 1] + 1) \div 2  BY <2>1, Gaps
    <2> DEFINE e == h[n - 1]
               gap == gapAfter[n - 1]
    <2>4. h[n] = Halve(fits, e)  BY <1>1
    <2>5. Upward(fits, e, high, gap) /\ gap \in Int  BY <2>2, <2>3
    <2> HIDE DEF e, gap
    <2>6. Upward(fits, Halve(fits, e), high, (gap + 1) \div 2) /\ e.low <= Halve(fits, e).low
      BY <2>5, HalfUpward
    <2>7. Upward(fits, h[n], high, gapAfter[n])  BY <2>3, <2>4, <2>6 DEF gap
    <2>8. low <= h[n].low
      <3>1. e.low \in Int /\ h[n].low \in Int /\ low <= e.low
        BY <2>2, <2>5, <2>7 DEF Upward, Ends, e
      <3> QED BY <2>4, <2>6, <3>1
    <2> QED BY <2>1, <2>7, <2>8
  <1> HIDE DEF S
  <1>5. 0..gamutSteps \subseteq S  BY <1>2, <1>3, <1>4, InductionTo
  <1> DEFINE e == h[gamutSteps]
  <1>6. gamutSteps \in S  BY <1>2, <1>5
  <1>7. Upward(fits, e, high, 1) /\ low <= e.low  BY <1>2, <1>6 DEF S
  <1>8. Bisect(fits, low, high) = e.low  BY BisectIsHalved DEF h
  <1> HIDE DEF e
  <1>9. e.low \in Int /\ e.high = e.low + 1  BY <1>7 DEF Upward, Ends
  <1> QED BY <1>7, <1>8, <1>9 DEF Upward

LEMMA BisectDownward ==
  ASSUME NEW fits, NEW low \in Int, NEW high \in Int, high < low, low - high <= Fine + 1,
         fits[low], ~fits[high]
  PROVE  LET end == Bisect(fits, low, high)
         IN /\ end \in Int /\ high < end /\ end <= low
            /\ fits[end] /\ ~fits[end - 1]
  <1> DEFINE h == Halved(fits, low, high)
             S == {n \in 0..gamutSteps : Downward(fits, h[n], high, gapAfter[n]) /\ h[n].low <= low}
  <1>1. /\ h[0] = [low |-> low, high |-> high]
        /\ \A n \in 1..gamutSteps : h[n] = Halve(fits, h[n - 1])
    BY HalvedRuns
  <1>2. gamutSteps \in Nat /\ Fine \in Nat /\ gapAfter[gamutSteps] = 1  BY Fineness
  <1> HIDE DEF h
  <1>3. 0 \in S
    <2>1. Downward(fits, h[0], high, Fine + 1)  BY <1>1, <1>2 DEF Downward, Ends
    <2>2. 0 \in 0..gamutSteps /\ gapAfter[0] = Fine + 1  BY <1>2, Gaps
    <2>3. h[0].low <= low  BY <1>1
    <2>4. Downward(fits, h[0], high, gapAfter[0])  BY <2>1, <2>2
    <2> QED BY <2>2, <2>3, <2>4
  <1>4. \A n \in 1..gamutSteps : n - 1 \in S => n \in S
    <2> SUFFICES ASSUME NEW n \in 1..gamutSteps, n - 1 \in S PROVE n \in S  OBVIOUS
    <2>1. n \in 0..gamutSteps /\ n - 1 \in 0..gamutSteps  BY <1>2
    <2>2. Downward(fits, h[n - 1], high, gapAfter[n - 1]) /\ h[n - 1].low <= low  OBVIOUS
    <2>3. gapAfter[n - 1] \in Int /\ gapAfter[n] = (gapAfter[n - 1] + 1) \div 2  BY <2>1, Gaps
    <2> DEFINE e == h[n - 1]
               gap == gapAfter[n - 1]
    <2>4. h[n] = Halve(fits, e)  BY <1>1
    <2>5. Downward(fits, e, high, gap) /\ gap \in Int  BY <2>2, <2>3
    <2> HIDE DEF e, gap
    <2>6. Downward(fits, Halve(fits, e), high, (gap + 1) \div 2) /\ Halve(fits, e).low <= e.low
      BY <2>5, HalfDownward
    <2>7. Downward(fits, h[n], high, gapAfter[n])  BY <2>3, <2>4, <2>6 DEF gap
    <2>8. h[n].low <= low
      <3>1. e.low \in Int /\ h[n].low \in Int /\ e.low <= low
        BY <2>2, <2>5, <2>7 DEF Downward, Ends, e
      <3> QED BY <2>4, <2>6, <3>1
    <2> QED BY <2>1, <2>7, <2>8
  <1> HIDE DEF S
  <1>5. 0..gamutSteps \subseteq S  BY <1>2, <1>3, <1>4, InductionTo
  <1> DEFINE e == h[gamutSteps]
  <1>6. gamutSteps \in S  BY <1>2, <1>5
  <1>7. Downward(fits, e, high, 1) /\ e.low <= low  BY <1>2, <1>6 DEF S
  <1>8. Bisect(fits, low, high) = e.low  BY BisectIsHalved DEF h
  <1> HIDE DEF e
  <1>9. e.low \in Int /\ e.high = e.low - 1  BY <1>7 DEF Downward, Ends
  <1> QED BY <1>7, <1>8, <1>9 DEF Downward
-----------------------------------------------------------------------------
(* The fit and the scales.                                                    *)

\* The search for the most chroma of a lightness finds it.
LEMMA MaxChroma ==
  ASSUME NEW held \in Gamut, NEW l \in 0..Fine
  PROVE  maxChromaAt(held, l) = held[l]
  <1> DEFINE fits == [c \in 0..Fine |-> c <= held[l]]
             end == Bisect(fits, 0, Fine + 1)
  <1>1. Fine \in Nat /\ held[l] \in 0..Fine  BY Fineness DEF Gamut
  <1>2. \A c \in 0..Fine : fits[c] <=> c <= held[l]  OBVIOUS
  <1>3. maxChromaAt(held, l) = end  BY DEF maxChromaAt, oklabToLinear
  <1> HIDE DEF fits
  <1>4. fits[0] /\ Fine + 1 \in Int  BY <1>1, <1>2
  <1>5. /\ end \in Int /\ 0 <= end /\ end < Fine + 1
        /\ fits[end] /\ (end + 1 = Fine + 1 \/ ~fits[end + 1])
    <2> DEFINE top == Fine + 1
    <2>1. top \in Int /\ 0 < top /\ top - 0 <= Fine + 1  BY <1>1
    <2> HIDE DEF top
    <2>2. LET x == Bisect(fits, 0, top)
          IN /\ x \in Int /\ 0 <= x /\ x < top
             /\ fits[x] /\ (x + 1 = top \/ ~fits[x + 1])
      BY <1>4, <2>1, BisectUpward
    <2> QED BY <2>2 DEF top
  <1> HIDE DEF end
  <1>6. end \in 0..Fine /\ end <= held[l]  BY <1>1, <1>2, <1>5
  <1>7. ~(end + 1 <= held[l])
    <2>1. CASE end + 1 = Fine + 1  BY <1>1, <1>6, <2>1
    <2>2. CASE end + 1 # Fine + 1
      <3>1. end + 1 \in 0..Fine  BY <1>1, <1>6, <2>2
      <3> QED BY <1>2, <1>5, <2>2, <3>1
    <2> QED BY <2>1, <2>2
  <1> QED BY <1>1, <1>3, <1>6, <1>7

\* Of the lightest by a weight, the first.
LEMMA LeastWeight ==
  ASSUME NEW H \in SUBSET Nat, H # {}, NEW w \in [H -> Nat]
  PROVE  \E s \in H : \A t \in H : w[s] < w[t] \/ (w[s] = w[t] /\ s <= t)
  <1>1. PICK d \in {w[s] : s \in H} : \A k \in {w[s] : s \in H} : d <= k
    <2> DEFINE T == {w[s] : s \in H}
    <2>1. T \in SUBSET Nat /\ T # {}  OBVIOUS
    <2> HIDE DEF T
    <2>2. \E m \in T : \A k \in T : m <= k  BY <2>1, LeastNat
    <2> QED BY <2>2 DEF T
  <1>2. PICK s \in {t \in H : w[t] = d} : \A t \in {u \in H : w[u] = d} : s <= t
    <2> DEFINE T == {t \in H : w[t] = d}
    <2>1. T \in SUBSET Nat /\ T # {}  BY <1>1
    <2> HIDE DEF T
    <2>2. \E m \in T : \A k \in T : m <= k  BY <2>1, LeastNat
    <2> QED BY <2>2 DEF T
  <1>3. s \in H /\ w[s] = d  BY <1>2
  <1>4. \A t \in H : w[s] < w[t] \/ (w[s] = w[t] /\ s <= t)
    <2> TAKE t \in H
    <2>1. w[t] \in Nat /\ d \in Nat /\ d <= w[t]  BY <1>1
    <2>2. w[t] = d => s <= t  BY <1>2
    <2> QED BY <1>3, <2>1, <2>2
  <1> QED BY <1>3, <1>4

LEMMA Distances ==
  ASSUME NEW a \in Int, NEW b \in Int
  PROVE  Distance(a, b) \in Nat
  BY DEF Distance

LEMMA Holding ==
  ASSUME NEW held \in Gamut, NEW c
  PROVE  holding(held, c) = {s \in Samples : held[s] >= c}
  <1>1. \A s \in Samples : s \in 0..Fine  BY Fineness
  <1>2. \A s \in Samples : maxChromaAt(held, s) = held[s]  BY <1>1, MaxChroma
  <1> QED BY <1>2 DEF holding

LEMMA Nearest ==
  ASSUME NEW held \in Gamut, NEW l \in 0..Fine, NEW c, holding(held, c) # {}
  PROVE  LET s == nearest(held, l, c)
         IN /\ s \in Samples /\ held[s] >= c
            /\ \A t \in Samples : held[t] >= c => Distance(s, l) <= Distance(t, l)
  <1> DEFINE H == holding(held, c)
             w == [s \in H |-> Distance(s, l)]
             Wins(s) == \A t \in H : \/ Distance(s, l) < Distance(t, l)
                                     \/ Distance(s, l) = Distance(t, l) /\ s <= t
  <1>1. H = {s \in Samples : held[s] >= c}  BY Holding
  <1>2. Samples \subseteq 0..Fine /\ Fine \in Nat  BY Fineness
  <1>3. H \in SUBSET Nat /\ H # {}
    <2>1. H \subseteq Samples  BY <1>1
    <2>2. Samples \subseteq Nat  BY <1>2
    <2>3. H # {}  OBVIOUS
    <2> HIDE DEF H
    <2> QED BY <2>1, <2>2, <2>3
  <1> HIDE DEF H
  <1>4. w \in [H -> Nat] /\ \A s \in H : w[s] = Distance(s, l)
    <2>1. \A s \in H : s \in Int  BY <1>3
    <2>2. l \in Int  BY <1>2
    <2>3. \A s \in H : Distance(s, l) \in Nat  BY <2>1, <2>2, Distances
    <2> QED BY <2>3
  <1> HIDE DEF w
  <1>5. PICK s \in H : \A t \in H : w[s] < w[t] \/ (w[s] = w[t] /\ s <= t)
    BY <1>3, <1>4, LeastWeight
  <1>6. Wins(s)  BY <1>4, <1>5
  <1> DEFINE n == nearest(held, l, c)
  <1>7. n = CHOOSE k \in H : Wins(k)  BY DEF nearest, H
  <1> HIDE DEF Wins, n
  <1>8. n \in H /\ Wins(n)  BY <1>6, <1>7
  <1>9. \A t \in H : Distance(n, l) <= Distance(t, l)
    <2> TAKE t \in H
    <2>1. Distance(n, l) \in Nat /\ Distance(t, l) \in Nat  BY <1>4, <1>8
    <2>2. Distance(n, l) < Distance(t, l) \/ Distance(n, l) = Distance(t, l)
      BY <1>8 DEF Wins
    <2> QED BY <2>1, <2>2
  <1> QED BY <1>1, <1>8, <1>9 DEF n

LEMMA Peak ==
  ASSUME NEW held \in Gamut
  PROVE  peak(held) \in Samples /\ \A t \in Samples : held[t] <= held[peak(held)]
  <1> DEFINE w == [s \in Samples |-> Fine - held[s]]
             Wins(s) == \A t \in Samples :
                          \/ maxChromaAt(held, s) > maxChromaAt(held, t)
                          \/ maxChromaAt(held, s) = maxChromaAt(held, t) /\ s <= t
  <1>1. Samples \subseteq 0..Fine /\ Fine \in Nat /\ Samples \in SUBSET Nat /\ Samples # {}
    BY Fineness
  <1>2. \A s \in Samples : held[s] \in 0..Fine /\ maxChromaAt(held, s) = held[s]
    BY <1>1, MaxChroma DEF Gamut
  <1>3. w \in [Samples -> Nat] /\ \A s \in Samples : w[s] = Fine - held[s]
    BY <1>1, <1>2
  <1> HIDE DEF w
  <1>4. PICK s \in Samples : \A t \in Samples : w[s] < w[t] \/ (w[s] = w[t] /\ s <= t)
    BY <1>1, <1>3, LeastWeight
  <1>5. Wins(s)  BY <1>1, <1>2, <1>3, <1>4
  <1>6. peak(held) = CHOOSE k \in Samples : Wins(k)  BY DEF peak
  <1> HIDE DEF Wins
  <1>7. peak(held) \in Samples /\ Wins(peak(held))  BY <1>5, <1>6
  <1> DEFINE p == peak(held)
  <1> HIDE DEF p
  <1>8. \A t \in Samples : held[t] <= held[p]
    <2> TAKE t \in Samples
    <2>1. held[t] \in Int /\ held[p] \in Int
      <3>1. held[t] \in 0..Fine /\ held[p] \in 0..Fine  BY <1>2, <1>7 DEF p
      <3> QED BY <1>1, <3>1
    <2>2. maxChromaAt(held, p) = held[p] /\ maxChromaAt(held, t) = held[t]
      BY <1>2, <1>7 DEF p
    <2>3. held[p] > held[t] \/ held[p] = held[t]  BY <1>7, <2>2 DEF Wins, p
    <2> QED BY <2>1, <2>3
  <1> QED BY <1>7, <1>8 DEF p

\* What a fit returns: it is shown, and moved no more than it must be.
FitsLeast(held, l, c, fit) ==
  LET next == IF fit.l < l THEN fit.l + 1 ELSE fit.l - 1
  IN \/ fit = [l |-> l, c |-> c]
     \/ /\ fit.c = c /\ fit.l # l /\ ~(held[next] >= c)
        /\ \A s \in Samples : held[s] >= c => Distance(fit.l, l) <= Distance(s, l)
     \/ /\ fit.c < c /\ ~(held[l] >= c)
        /\ \A s \in Samples : held[s] <= fit.c

LEMMA Fit ==
  ASSUME NEW held \in Gamut, NEW l \in 0..Fine, NEW c \in 0..Fine
  PROVE  LET fit == fitToSRGB(held, l, c)
         IN fit.c <= held[fit.l] /\ FitsLeast(held, l, c, fit)
  <1> DEFINE fit == fitToSRGB(held, l, c)
             holds == [m \in 0..Fine |-> maxChromaAt(held, m) >= c]
  <1>1. Fine \in Nat /\ Samples \subseteq 0..Fine /\ \A m \in 0..Fine : held[m] \in 0..Fine
    BY Fineness DEF Gamut
  <1>2. \A m \in 0..Fine : holds[m] <=> held[m] >= c  BY MaxChroma
  <1>3. fit = IF c <= held[l] THEN [l |-> l, c |-> c]
              ELSE IF holding(held, c) = {}
                   THEN [l |-> peak(held), c |-> maxChromaAt(held, peak(held))]
                   ELSE [l |-> Bisect(holds, nearest(held, l, c), l), c |-> c]
    BY DEF fitToSRGB, oklabToLinear
  <1> HIDE DEF fit, holds
  <1>4. CASE c <= held[l]
    <2>1. fit = [l |-> l, c |-> c]  BY <1>3, <1>4
    <2> QED BY <1>4, <2>1 DEF fit, FitsLeast
  <1>5. CASE ~(c <= held[l]) /\ holding(held, c) = {}
    <2> DEFINE p == peak(held)
    <2>1. p \in Samples /\ \A t \in Samples : held[t] <= held[p]  BY Peak
    <2>2. maxChromaAt(held, p) = held[p]  BY <1>1, <2>1, MaxChroma
    <2>3. \A s \in Samples : ~(held[s] >= c)  BY <1>5, Holding
    <2> HIDE DEF p
    <2>4. fit = [l |-> p, c |-> held[p]]  BY <1>3, <1>5, <2>2 DEF p
    <2>5. held[p] \in 0..Fine /\ held[l] \in 0..Fine /\ held[p] < c  BY <1>1, <2>1, <2>3
    <2>6. fit.c <= held[fit.l]  BY <1>1, <2>4, <2>5
    <2>7. fit.c < c /\ ~(held[l] >= c) /\ \A s \in Samples : held[s] <= fit.c
      BY <1>1, <1>5, <2>1, <2>4, <2>5
    <2> QED BY <2>6, <2>7 DEF fit, FitsLeast
  <1>6. CASE ~(c <= held[l]) /\ holding(held, c) # {}
    <2> DEFINE n == nearest(held, l, c)
               end == Bisect(holds, n, l)
    <2>1. /\ n \in Samples /\ held[n] >= c
          /\ \A t \in Samples : held[t] >= c => Distance(n, l) <= Distance(t, l)
      BY <1>6, Nearest
    <2>2. fit = [l |-> end, c |-> c]  BY <1>3, <1>6
    <2> HIDE DEF n
    <2>3. n \in 0..Fine /\ n \in Int /\ l \in Int /\ holds[n] /\ ~holds[l] /\ n # l
      BY <1>1, <1>2, <1>6, <2>1
    <2>4. CASE n < l
      <3>1. /\ end \in Int /\ n <= end /\ end < l
            /\ holds[end] /\ (end + 1 = l \/ ~holds[end + 1])
        <4>1. l - n <= Fine + 1  BY <1>1, <2>3
        <4> QED BY <2>3, <2>4, <4>1, BisectUpward
      <3> HIDE DEF end
      <3>2. end \in 0..Fine /\ end + 1 \in 0..Fine  BY <1>1, <2>3, <3>1
      <3>3. held[end] >= c /\ ~(held[end + 1] >= c)  BY <1>2, <2>3, <3>1, <3>2
      <3>4. Distance(end, l) \in Int /\ Distance(n, l) \in Int /\ Distance(end, l) <= Distance(n, l)
        BY <2>3, <2>4, <3>1 DEF Distance
      <3>5. \A t \in Samples : held[t] >= c => Distance(end, l) <= Distance(t, l)
        <4> SUFFICES ASSUME NEW t \in Samples, held[t] >= c PROVE Distance(end, l) <= Distance(t, l)
          OBVIOUS
        <4>1. t \in Int  BY <1>1
        <4>2. Distance(t, l) \in Nat  BY <2>3, <4>1, Distances
        <4> QED BY <2>1, <3>4, <4>2
      <3>6. fit.l = end /\ fit.c = c  BY <2>2
      <3>7. (IF fit.l < l THEN fit.l + 1 ELSE fit.l - 1) = end + 1  BY <3>1, <3>6
      <3>8. fit.c <= held[fit.l]  BY <1>1, <3>2, <3>3, <3>6
      <3>9. fit.l # l  BY <2>3, <3>1, <3>6
      <3> QED BY <3>3, <3>5, <3>6, <3>7, <3>8, <3>9 DEF fit, FitsLeast
    <2>5. CASE l < n
      <3>1. end \in Int /\ l < end /\ end <= n /\ holds[end] /\ ~holds[end - 1]
        <4>1. n - l <= Fine + 1  BY <1>1, <2>3
        <4> QED BY <2>3, <2>5, <4>1, BisectDownward
      <3> HIDE DEF end
      <3>2. end \in 0..Fine /\ end - 1 \in 0..Fine  BY <1>1, <2>3, <3>1
      <3>3. held[end] >= c /\ ~(held[end - 1] >= c)  BY <1>2, <3>1, <3>2
      <3>4. Distance(end, l) \in Int /\ Distance(n, l) \in Int /\ Distance(end, l) <= Distance(n, l)
        BY <2>3, <2>5, <3>1 DEF Distance
      <3>5. \A t \in Samples : held[t] >= c => Distance(end, l) <= Distance(t, l)
        <4> SUFFICES ASSUME NEW t \in Samples, held[t] >= c PROVE Distance(end, l) <= Distance(t, l)
          OBVIOUS
        <4>1. t \in Int  BY <1>1
        <4>2. Distance(t, l) \in Nat  BY <2>3, <4>1, Distances
        <4> QED BY <2>1, <3>4, <4>2
      <3>6. fit.l = end /\ fit.c = c  BY <2>2
      <3>7. (IF fit.l < l THEN fit.l + 1 ELSE fit.l - 1) = end - 1  BY <2>3, <3>1, <3>6
      <3>8. fit.c <= held[fit.l]  BY <1>1, <3>2, <3>3, <3>6
      <3>9. fit.l # l  BY <2>3, <3>1, <3>6
      <3> QED BY <3>3, <3>5, <3>6, <3>7, <3>8, <3>9 DEF fit, FitsLeast
    <2> QED BY <2>3, <2>4, <2>5
  <1> QED BY <1>4, <1>5, <1>6

\* A step of a scale lies on it, and the last one at its end.
LEMMA Steps ==
  ASSUME NEW i \in 0..(rampSteps - 1), NEW from \in Int, NEW to \in Int, from <= to
  PROVE  Step(i, from, to) \in Int /\ from <= Step(i, from, to) /\ Step(i, from, to) <= to
  <1> DEFINE d == to - from
  <1>1. Step(i, from, to) = from + (i * d) \div 6  BY DEF Step, rampSteps
  <1>2. i \in {0, 1, 2, 3, 4, 5, 6} /\ d \in Nat  BY DEF rampSteps
  <1> HIDE DEF d
  <1>3. i * d \in Int /\ 0 <= i * d /\ i * d <= 6 * d  BY <1>2
  <1>4. (i * d) \div 6 \in Int /\ 0 <= (i * d) \div 6 /\ (i * d) \div 6 <= d  BY <1>2, <1>3
  <1> QED BY <1>1, <1>4 DEF d

LEMMA LastStep ==
  ASSUME NEW to \in Nat
  PROVE  Step(6, 0, to) = to
  BY DEF Step, rampSteps

LEMMA RampShown ==
  ASSUME NEW held \in Gamut, NEW c \in 0..Fine, NEW out \in ramp(held, c, 1, Fine - 1)
  PROVE  out.c <= held[out.l]
  <1>1. Fine \in Nat /\ Fine # 0 /\ \A m \in 0..Fine : held[m] \in 0..Fine
    BY Fineness DEF Gamut
  <1>2. PICK i \in 0..(rampSteps - 1) :
          LET l == Step(i, 1, Fine - 1)
              most == maxChromaAt(held, l)
          IN out = [l |-> l, c |-> IF c < most THEN c ELSE most]
    BY DEF ramp
  <1> DEFINE l == Step(i, 1, Fine - 1)
  <1>3. l \in 0..Fine
    <2>1. CASE 1 <= Fine - 1
      <3> DEFINE to == Fine - 1
      <3>1. to \in Int /\ 1 <= to  BY <1>1, <2>1
      <3> HIDE DEF to
      <3>2. Step(i, 1, to) \in Int /\ 1 <= Step(i, 1, to) /\ Step(i, 1, to) <= to
        BY <3>1, Steps
      <3> QED BY <1>1, <3>2 DEF to
    <2>2. CASE Fine = 1
      <3>1. i \in {0, 1, 2, 3, 4, 5, 6}  BY DEF rampSteps
      <3>2. l = 1 + (i * (-1)) \div 6  BY <2>2 DEF Step, rampSteps
      <3>3. (i * (-1)) \div 6 \in {-1, 0}  BY <3>1
      <3> QED BY <2>2, <3>2, <3>3
    <2> QED BY <1>1, <2>1, <2>2
  <1>4. maxChromaAt(held, l) = held[l]  BY <1>3, MaxChroma
  <1> HIDE DEF l
  <1>5. out = [l |-> l, c |-> IF c < held[l] THEN c ELSE held[l]]  BY <1>2, <1>4 DEF l
  <1>6. held[l] \in Int /\ c \in Int  BY <1>1, <1>3
  <1> QED BY <1>5, <1>6

LEMMA TonesShown ==
  ASSUME NEW held \in Gamut, NEW l \in 0..Fine, NEW c \in 0..Fine, c >= neutralCut
  PROVE  /\ \A out \in tones(held, l, c) : out.c <= held[out.l]
         /\ [l |-> l, c |-> held[l]] \in tones(held, l, c)
  <1>1. maxChromaAt(held, l) = held[l] /\ held[l] \in Nat
    <2>1. maxChromaAt(held, l) = held[l]  BY MaxChroma
    <2>2. Fine \in Nat /\ held[l] \in 0..Fine  BY Fineness DEF Gamut
    <2> QED BY <2>1, <2>2
  <1> DEFINE most == held[l]
  <1>2. tones(held, l, c) = {[l |-> l, c |-> Step(i, 0, most)] : i \in 0..(rampSteps - 1)}
    <2>1. ~(c < neutralCut)  BY Fineness
    <2> QED BY <1>1, <2>1 DEF tones
  <1> HIDE DEF most
  <1>3. most \in Int /\ 0 <= most  BY <1>1 DEF most
  <1>4. ASSUME NEW out \in tones(held, l, c) PROVE out.c <= held[out.l]
    <2>1. PICK i \in 0..(rampSteps - 1) : out = [l |-> l, c |-> Step(i, 0, most)]  BY <1>2
    <2> DEFINE from == 0
    <2>2. from \in Int /\ from <= most  BY <1>3
    <2> HIDE DEF from
    <2>3. Step(i, from, most) <= most  BY <1>3, <2>2, Steps
    <2> QED BY <2>1, <2>3 DEF most, from
  <1>5. [l |-> l, c |-> most] \in tones(held, l, c)
    <2>1. 6 \in 0..(rampSteps - 1)  BY DEF rampSteps
    <2>2. Step(6, 0, most) = most  BY <1>1, LastStep DEF most
    <2> QED BY <1>2, <2>1, <2>2
  <1> QED BY <1>4, <1>5 DEF most

FitInv == asked \in Asked /\ ShownInGamut /\ FitMovesLeast

LEMMA AskedFit ==
  asked \in Asked /\ asked.of = "fit" =>
    /\ asked.gamut \in Gamut /\ asked.l \in 0..Fine /\ asked.c \in 0..Fine
    /\ asked.c < neutralCut => asked.c <= asked.gamut[asked.l]
  BY ReadOnlyAssumption DEF ReadOnlyAssumption, Asked, oklabToLinear

LEMMA FitStep == FitInv /\ [Next]_vars => FitInv'
  <1> SUFFICES ASSUME asked \in Asked, ShownInGamut, FitMovesLeast, [Next]_vars
               PROVE  asked' \in Asked /\ ShownInGamut' /\ FitMovesLeast'
    BY DEF FitInv
  <1>1. CASE Fitted
    <2> DEFINE held == asked.gamut
               l == asked.l
               c == asked.c
               fit == rotateOkLCh(held, l, c)
               scales == ramp(held, c, 1, Fine - 1) \cup tones(held, l, c)
    <2>1. /\ asked' = asked /\ held \in Gamut /\ l \in 0..Fine /\ c \in 0..Fine
          /\ c < neutralCut => c <= held[l]
      BY <1>1, AskedFit DEF Fitted, Answers
    <2>2. answer'.fit = fit /\ answer'.scales = scales
      BY <1>1 DEF Fitted, Answers
    <2> HIDE DEF held, l, c
    <2>a. c < neutralCut \/ c >= neutralCut  BY <2>1, Fineness
    <2>3. fit.c <= held[fit.l] /\ FitsLeast(held, l, c, fit)
      <3>1. CASE c < neutralCut
        <4>1. fit = [l |-> l, c |-> c]  BY <3>1 DEF rotateOkLCh
        <4> QED BY <2>1, <3>1, <4>1 DEF FitsLeast
      <3>2. CASE c >= neutralCut
        <4>1. ~(c < neutralCut)  BY <2>1, <3>2, Fineness
        <4> QED BY <2>1, <4>1, Fit DEF rotateOkLCh
      <3> QED BY <2>a, <3>1, <3>2
    <2>4. \A out \in scales : out.c <= held[out.l]
      <3>1. CASE c < neutralCut
        BY <2>1, <3>1, RampShown DEF tones
      <3>2. CASE c >= neutralCut
        BY <2>1, <3>2, RampShown, TonesShown
      <3> QED BY <2>a, <3>1, <3>2
    <2>5. c >= neutralCut => [l |-> l, c |-> held[l]] \in scales  BY <2>1, TonesShown
    <2> HIDE DEF fit, scales
    <2>6. ShownInGamut'
      BY <2>1, <2>2, <2>3, <2>4, <2>5 DEF ShownInGamut, oklabToLinear, held, l, c
    <2>7. FitMovesLeast'
      BY <2>1, <2>2, <2>3 DEF FitMovesLeast, FitsLeast, held, l, c
    <2> QED BY <2>1, <2>6, <2>7
  <1>2. CASE HandleColorInfo \/ Rotations \/ Feel \/ HandleListCommonColors
    <2>1. asked' = asked /\ asked.of # "fit"
      BY <1>2 DEF HandleColorInfo, Rotations, Feel, HandleListCommonColors, Answers
    <2> QED BY <2>1 DEF ShownInGamut, FitMovesLeast, Answered
  <1>3. CASE UNCHANGED vars
    BY <1>3 DEF vars, ShownInGamut, FitMovesLeast, Answered
  <1> QED BY <1>1, <1>2, <1>3 DEF Next

LEMMA FitInit == Init => FitInv
  BY DEF Init, FitInv, ShownInGamut, FitMovesLeast, Answered

(* Whatever the gamut of a hue, the samples and the resolution of the search: *)
(* every colour answered on the OkLCh wheel and on the scales is one sRGB     *)
(* shows, the tones end at their most saturated, and the fit gives up chroma  *)
(* only where no sample holds it and lightness only up to the edge.           *)
THEOREM HarmoniesAreFitted == Spec => []GamutFitted
  <1>1. FitInv => GamutFitted  BY DEF FitInv, GamutFitted
  <1> QED BY <1>1, FitInit, FitStep, PTL DEF Spec
=============================================================================
