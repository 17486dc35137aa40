------------------------------ MODULE ReadOnly ------------------------------
(* What the server computes from colours alone: the values of one colour, its *)
(* harmonies on either wheel, the palette in an order, and the sort keys that *)
(* saving two colours stores.  One request, then its answer.                  *)
EXTENDS Color, SequencesExt

CONSTANTS entries,   \* the palette: [hex, name: ranks in text order, feel: the key]
          Measured,  \* what OkLab returns for a colour: [l, c, h]
          Gamuts,    \* what sRGB holds at a hue, for several hues
          Ratios,    \* contrasts of luminances, in ten thousandths
          None

ASSUME ReadOnlyAssumption ==
  /\ Measured \subseteq [l : Lightness, c : Chroma, h : Angle]
  /\ Gamuts \subseteq Gamut

VARIABLES asked, answer

vars == <<asked, answer>>

-----------------------------------------------------------------------------
(* palette.go: three slices sorted once, cloned and reversed on demand.       *)

Key(sort, e) == CASE sort = "name" -> <<e.name, 0>>
                  [] sort = "hex" -> <<e.hex, 0>>
                  [] sort = "color" -> <<e.feel, e.hex>>

Less(a, b) == a[1] < b[1] \/ (a[1] = b[1] /\ a[2] < b[2])

sorted(sort) == LET Cmp(a, b) == Less(Key(sort, a), Key(sort, b))
                IN SetToSortSeq(entries, Cmp)

List(p) == IF p.desc THEN Reverse(sorted(p.sort)) ELSE sorted(p.sort)

-----------------------------------------------------------------------------
(* The requests.                                                              *)

\* A colour is fitted to the gamut of the hue it is turned to.  A neutral is not
\* turned, and like every colour asked about it lies in the gamut of its own.
Asked ==
  [of : {"info"}, hex : Hex, white : Ratios, black : Ratios]
  \cup [of : {"turn"}, hex : Hex, harmony : DOMAIN harmonies, up : {0, 1}]
  \cup {q \in [of : {"fit"}, gamut : Gamuts, l : 0..Fine, c : 0..Fine] :
          q.c < neutralCut => oklabToLinear(q.gamut, q.l, q.c)}
  \cup [of : {"list"}, sort : {"name", "hex", "color"}, desc : BOOLEAN]
  \cup [of : {"save"}, first : Measured, second : Measured]

Init == asked \in Asked /\ answer = None

Answers(of, value) == /\ asked.of = of /\ answer = None
                      /\ answer' = value
                      /\ UNCHANGED asked

HandleColorInfo ==
  Answers("info", [values |-> Describe(asked.hex),
                   white |-> contrastOf(asked.white), black |-> contrastOf(asked.black)])

\* harmony.Colors on the HSL wheel: the colour at each of its angles.
Rotations == Answers("turn", [turns \in harmonies[asked.harmony] |->
                                rotateHSL(asked.hex, turns, asked.up)])

\* A colour on the OkLCh wheel, and the scales, which stay at one hue.
Fitted == Answers("fit", [fit |-> rotateOkLCh(asked.gamut, asked.l, asked.c),
                          scales |-> ramp(asked.gamut, asked.c, 1, Fine - 1)
                                     \cup tones(asked.gamut, asked.l, asked.c)])

HandleListCommonColors == Answers("list", List(asked))

\* AddColor stores the key beside the colour.
Feel == Answers("save", [first |-> perceptualSortKey(asked.first),
                         second |-> perceptualSortKey(asked.second)])

Next == HandleColorInfo \/ Rotations \/ Fitted \/ HandleListCommonColors \/ Feel

Spec == Init /\ [][Next]_vars

-----------------------------------------------------------------------------
Answered(of) == answer # None /\ asked.of = of

\* sortkey.go: "neutrals by lightness first, then hue groups from dark to
\* light", ties by chroma.
Perceptual(lch) == <<Group(lch), Rounded(lch.l), ChromaPart(lch)>>

Precedes(a, b) == \/ a[1] < b[1]
                  \/ a[1] = b[1] /\ a[2] < b[2]
                  \/ a[1] = b[1] /\ a[2] = b[2] /\ a[3] < b[3]

(* The three parts packed into one stored number never carry into each other: *)
(* two saved colours are listed in the order of their parts, grays by         *)
(* lightness, then twelve families of hues, each from dark to light and then  *)
(* by chroma, and the number fits the column's int32.                         *)
KeyOrder ==
  Answered("save") =>
    /\ answer.first < answer.second
         <=> Precedes(Perceptual(asked.first), Perceptual(asked.second))
    /\ 0 <= answer.first /\ answer.first <= 2147483647

(* hsl.go: "Holding saturation and lightness and moving only the hue stays    *)
(* inside sRGB".  Whatever sector the angle lands in, below 0 and past a full *)
(* turn too, the answered colour shows the saturations, the lightness and the *)
(* value of the one that was asked about.                                     *)
WheelKeepsTone ==
  Answered("turn") =>
    \A turns \in DOMAIN answer :
      LET Tone(c) == [Describe(c) EXCEPT !.hue = 0]
      IN answer[turns] \in Hex /\ Tone(answer[turns]) = Tone(asked.hex)

(* Every colour the OkLCh harmonies answer is one that sRGB shows, and the    *)
(* scale of tones of a colour that has a hue ends at the most saturated one of *)
(* its lightness.                                                            *)
ShownInGamut ==
  Answered("fit") =>
    /\ \A out \in {answer.fit} \cup answer.scales : oklabToLinear(asked.gamut, out.l, out.c)
    /\ asked.c >= neutralCut => [l |-> asked.l, c |-> asked.gamut[asked.l]] \in answer.scales

(* The chroma gives way only if no sampled lightness holds it, and then to    *)
(* the most a sample holds; else the lightness moves no further than the      *)
(* nearest sample that does, and stops where the next step towards the one    *)
(* asked for would leave the gamut.                                           *)
FitMovesLeast ==
  Answered("fit") =>
    LET fit == answer.fit
        next == IF fit.l < asked.l THEN fit.l + 1 ELSE fit.l - 1
        Holds(l) == asked.gamut[l] >= asked.c
    IN \/ fit = [l |-> asked.l, c |-> asked.c]
       \/ /\ fit.c = asked.c /\ fit.l # asked.l /\ ~Holds(next)
          /\ \A s \in Samples : Holds(s) => Distance(fit.l, asked.l) <= Distance(s, asked.l)
       \/ /\ fit.c < asked.c /\ ~Holds(asked.l)
          /\ \A s \in Samples : asked.gamut[s] <= fit.c

(* gamut.go "adjusts lightness first and chroma second to fit within sRGB     *)
(* bounds": whatever the shape of the gamut, with one peak or several, what   *)
(* its searches return is shown and was moved no more than that takes.        *)
GamutFitted == ShownInGamut /\ FitMovesLeast
=============================================================================
