------------------------------- MODULE Strips -------------------------------
(***************************************************************************)
(* The selected colour of the web page and what is derived from it: the    *)
(* info panel and the pinned harmony strips (web/app.js).  Each is filled  *)
(* by a request of its own; requests overlap, and any of them may be       *)
(* answered late or fail.  A generation number tells a late answer from a  *)
(* current one, and a cache keeps the last bands of each strip.            *)
(*                                                                         *)
(* The page is single-threaded: an action is one turn of its event loop.   *)
(* It starts in Init once its script has run, with whatever selection,     *)
(* pins, wheel and open section the browser had stored.                    *)
(***************************************************************************)
EXTENDS Integers

CONSTANTS Hex,        \* colours
          Names,      \* DERIVED: the harmonies there is a pin for
          Rotations,  \* LEADING: those the wheel turns, the others are scales
          Space,      \* the wheels
          MaxClicks,  \* bound: what the user does before leaving the page alone
          None

ASSUME NamesAssumption == Rotations \subseteq Names
ASSUME ClicksAssumption == MaxClicks \in Nat
ASSUME NoneAssumption == None \notin Hex \cup Space

VARIABLES selected,  \* selectedHex
          pick,      \* the value of the Selected panel's picker
          timer,     \* pickTimer is running
          infoGen,   \* infoGeneration
          infoOut,   \* requests for the info panel that are out
          panel,     \* the colour the info panel describes, None while hidden
          space,     \* the wheel
          pinned,    \* the pinned names: each has a block on the page
          open,      \* the section of the strips is open
          toggled,   \* its toggle event is queued
          stale,     \* stripsStale
          gen,       \* stripGeneration
          out,       \* requests for strips that are out
          cache,     \* stripColors
          drawn,     \* the bands in each block, None when it holds none
          adding,    \* the bands the last click on a strip's add took
          clicks     \* bound

choice == <<selected, pick, timer>>
info == <<infoGen, infoOut, panel>>
section == <<open, toggled>>
strips == <<stale, gen, out, cache, drawn>>
vars == <<choice, info, space, pinned, section, strips, adding, clicks>>

-----------------------------------------------------------------------------
(* The server derives the same bands from the same colour and wheel; a     *)
(* scale holds the hue, so no wheel changes it.                            *)

Bands(n, h, s) == [name |-> n, hex |-> h, space |-> IF n \in Rotations THEN s ELSE None]

Request == [name : Names, hex : Hex, space : Space, gen : Nat]
InfoRequest == [hex : Hex, gen : Nat]
Derived == [name : Names, hex : Hex, space : Space \cup {None}]
Entry == [hex : Hex, space : Space, bands : Derived]

ASSUME AbsentAssumption == None \notin Entry \cup Derived

\* A cache that forgets the wheel it was filled on.
FreshAnyWheel(n, h, s) == cache[n] # None /\ cache[n].hex = h

\* The cached bands of n are those of colour h on wheel s.
Fresh(n, h, s) == cache[n] # None /\ cache[n].hex = h /\ cache[n].space = s

\* delete stripColors[n]
Emptied(n) == [cache EXCEPT ![n] = None]

\* loadStrip for the names whose cached bands will not do, in generation g.
Loads(names, h, s, g) ==
  {[name |-> n, hex |-> h, space |-> s, gen |-> g] : n \in {m \in names : ~Fresh(m, h, s)}}

\* Whether showStrips goes on.
Shows == open

\* showStrips, once the selection is h, the wheel s and the pins names; the
\* blocks hold blocks.
ShowStrips(h, s, names, blocks) ==
  \/ /\ ~Shows
     /\ stale' = TRUE
     /\ drawn' = blocks
     /\ UNCHANGED <<gen, out, cache>>
  \/ /\ Shows
     /\ stale' = FALSE
     /\ gen' = gen + 1
     /\ out' = out \cup Loads(names, h, s, gen + 1)
     /\ drawn' = [n \in Names |-> IF n \in names /\ Fresh(n, h, s) THEN cache[n].bands
                                                                   ELSE blocks[n]]
     /\ UNCHANGED cache

\* showInfo
ShowInfo(h) == /\ infoGen' = infoGen + 1
               /\ infoOut' = infoOut \cup {[hex |-> h, gen |-> infoGen + 1]}
               /\ UNCHANGED panel

\* commitSelection: the one place a selection is made.
CommitSelection(h) == /\ selected' = h
                      /\ ShowInfo(h)
                      /\ ShowStrips(h, space, pinned, drawn)

\* applyPinned: the blocks are built anew, empty.  With no pin left there is
\* nothing to show and showStrips is not called.
ApplyPinned(names) ==
  /\ pinned' = names
  /\ \/ /\ names = {}
        /\ drawn' = [n \in Names |-> None]
        /\ UNCHANGED <<stale, gen, out, cache>>
     \/ /\ names # {}
        /\ ShowStrips(selected, space, names, [n \in Names |-> None])

-----------------------------------------------------------------------------
(* What the user does.  The pins, the strips and the wheel are inside the  *)
(* section, so they can be clicked only while it is open.                  *)

Click == clicks < MaxClicks /\ clicks' = clicks + 1

\* The picker follows a selection made elsewhere.
SetPick(h) == pick' = h

\* A swatch, a band, the random button.
SelectColor(h) == /\ Click
                  /\ SetPick(h)
                  /\ CommitSelection(h)
                  /\ UNCHANGED <<timer, space, pinned, section, adding>>

\* A step of a drag on the picker restarts the timer.
Drag(h) == /\ Click
           /\ pick' = h
           /\ timer' = TRUE
           /\ UNCHANGED <<selected, info, space, pinned, section, strips, adding>>

\* A timer that is cleared and commits nothing.
PickTimerCleared == /\ timer
                    /\ timer' = FALSE
                    /\ UNCHANGED <<selected, pick, info, space, pinned, section, strips, adding, clicks>>

\* 200 ms without one: the selection is what the picker shows now.
PickTimer == /\ timer
             /\ timer' = FALSE
             /\ CommitSelection(pick)
             /\ UNCHANGED <<pick, space, pinned, section, adding, clicks>>

ChangePins(names) == /\ Click
                     /\ open
                     /\ ApplyPinned(names)
                     /\ UNCHANGED <<choice, info, space, section, adding>>

TogglePin(n) == ChangePins(IF n \in pinned THEN pinned \ {n} ELSE pinned \cup {n})

PinAll == ChangePins(Names)

PinNone == ChangePins({})

CycleSpace(s) == /\ Click
                 /\ open
                 /\ s # space
                 /\ space' = s
                 /\ ShowStrips(selected, s, pinned, drawn)
                 /\ UNCHANGED <<choice, info, pinned, section, adding>>

\* The section opens or closes at once; its toggle event comes in a later
\* turn, one event for several flips.
Flip == /\ Click
        /\ open' = ~open
        /\ toggled' = TRUE
        /\ UNCHANGED <<choice, info, space, pinned, strips, adding>>

Toggled == /\ toggled
           /\ toggled' = FALSE
           /\ IF open /\ stale THEN ShowStrips(selected, space, pinned, drawn)
                               ELSE UNCHANGED strips
           /\ UNCHANGED <<choice, info, space, pinned, open, adding, clicks>>

\* addStrip up to its first await: it takes the bands here, and what it does
\* later reads nothing of the strips.
AddStrip(n) == /\ Click
               /\ open
               /\ n \in pinned
               /\ cache[n] # None
               /\ adding' = cache[n].bands
               /\ UNCHANGED <<choice, info, space, pinned, section, strips>>

-----------------------------------------------------------------------------
(* Answers, in any order; one of an earlier generation changes nothing.    *)

Current(r) == r.gen = gen

\* drawStrip draws only where there is a block.
DrawStrip(n, bands) == IF n \in pinned THEN [drawn EXCEPT ![n] = bands] ELSE drawn

\* loadStrip after its await.
StripLoaded(r) ==
  /\ r \in out
  /\ out' = out \ {r}
  /\ \/ /\ Current(r)
        /\ LET bands == Bands(r.name, r.hex, r.space) IN
           /\ cache' = [cache EXCEPT ![r.name] =
                           [hex |-> r.hex, space |-> r.space, bands |-> bands]]
           /\ drawn' = DrawStrip(r.name, bands)
     \/ ~Current(r) /\ UNCHANGED <<cache, drawn>>
  /\ UNCHANGED <<choice, info, space, pinned, section, stale, gen, adding, clicks>>

StripFailed(r) ==
  /\ r \in out
  /\ out' = out \ {r}
  /\ \/ /\ Current(r)
        /\ cache' = Emptied(r.name)
        /\ drawn' = DrawStrip(r.name, None)
     \/ ~Current(r) /\ UNCHANGED <<cache, drawn>>
  /\ UNCHANGED <<choice, info, space, pinned, section, stale, gen, adding, clicks>>

AnyInfoCurrent(r) == TRUE
InfoCurrent(r) == r.gen = infoGen

InfoAnswered(r, shown) ==
  /\ r \in infoOut
  /\ infoOut' = infoOut \ {r}
  /\ panel' = IF InfoCurrent(r) THEN shown ELSE panel
  /\ UNCHANGED <<choice, infoGen, space, pinned, section, strips, adding, clicks>>

InfoLoaded(r) == InfoAnswered(r, r.hex)

InfoFailed(r) == InfoAnswered(r, None)

-----------------------------------------------------------------------------

Init == /\ selected \in Hex
        /\ pick = selected
        /\ timer = FALSE
        /\ infoGen = 1
        /\ infoOut = {[hex |-> selected, gen |-> 1]}
        /\ panel = None
        /\ space \in Space
        /\ pinned \in SUBSET Names
        /\ open \in BOOLEAN
        /\ toggled \in BOOLEAN
        /\ stale = ~open
        /\ gen = 1
        /\ cache = [n \in Names |-> None]
        /\ drawn = [n \in Names |-> None]
        /\ out = IF open THEN Loads(pinned, selected, space, 1) ELSE {}
        /\ adding = None
        /\ clicks = 0

Answers == \/ \E r \in out : StripLoaded(r) \/ StripFailed(r)
           \/ \E r \in infoOut : InfoLoaded(r) \/ InfoFailed(r)

Next == \/ \E h \in Hex : SelectColor(h) \/ Drag(h)
        \/ PickTimer
        \/ \E n \in Names : TogglePin(n) \/ AddStrip(n)
        \/ PinAll
        \/ PinNone
        \/ \E s \in Space : CycleSpace(s)
        \/ Flip
        \/ Toggled
        \/ Answers

Spec == Init /\ [][Next]_vars

\* The browser runs the timer and delivers the event, and every request is
\* answered or fails.
Fairness == WF_vars(PickTimer) /\ WF_vars(Toggled) /\ WF_vars(Answers)

FairSpec == Spec /\ Fairness

-----------------------------------------------------------------------------

\* The types of the state.
TypeOK == /\ selected \in Hex
          /\ pick \in Hex
          /\ timer \in BOOLEAN
          /\ infoGen \in Nat
          /\ infoOut \subseteq InfoRequest
          /\ panel \in Hex \cup {None}
          /\ space \in Space
          /\ pinned \subseteq Names
          /\ open \in BOOLEAN
          /\ toggled \in BOOLEAN
          /\ stale \in BOOLEAN
          /\ gen \in Nat
          /\ out \subseteq Request
          /\ cache \in [Names -> Entry \cup {None}]
          /\ drawn \in [Names -> Derived \cup {None}]
          /\ adding \in Derived \cup {None}
          /\ clicks \in Nat

\* Nothing is under way that could still change the strip of n.
Settled(n) == /\ open
              /\ ~toggled
              /\ ~\E r \in out : r.name = n /\ r.gen = gen

\* A pinned strip that nothing is under way for shows the bands of the colour
\* and the wheel selected now, and its add takes exactly these; or its request
\* failed, it is empty, and there is nothing to add (showStrips, loadStrip).
SettledStrips ==
  \A n \in pinned : Settled(n) =>
     \/ drawn[n] = None /\ cache[n] = None
     \/ /\ drawn[n] = Bands(n, selected, space)
        /\ Fresh(n, selected, space)
        /\ cache[n].bands = drawn[n]

\* "stripColors keeps the last bands drawn for each pin": whatever a block
\* shows is what the cache holds, whether it is of the selection or not, so an
\* add never takes other bands than those a filled strip shows.
DrawnIsCached ==
  \A n \in pinned : drawn[n] # None => cache[n] # None /\ cache[n].bands = drawn[n]

\* The info panel, once no current request is out, is that of the selection or
\* hidden (loadInfo drops every older answer).
InfoSettled == (~\E r \in infoOut : r.gen = infoGen) => panel \in {selected, None}

\* "The Selected panel's picker mirrors the selection": whatever order swatches
\* and drags come in, they differ only while the timer is running.
PickerMirrors == pick # selected => timer

\* "A closed section sends no request."
ClosedSendsNothing == [][~open => out' \subseteq out]_vars

\* "Opening it loads what it missed", and so does every other change: when the
\* user leaves the page alone, each strip of an open section settles for good,
\* and the colour in the picker is the one selected.
StripsSettle == <>[](/\ open => \A n \in pinned : Settled(n)
                     /\ pick = selected)

\* "Add exactly the bands currently shown in the strip" (addStrip).
AddsWhatIsShown == [][\A n \in Names : AddStrip(n) => adding' = drawn[n]]_vars

\* "This also prevents stale bands from appearing or being added" (stripColors).
NoStaleAdd == [][\A n \in Names : AddStrip(n) => adding'.hex = selected]_vars
=============================================================================
