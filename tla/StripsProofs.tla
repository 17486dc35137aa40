---------------------------- MODULE StripsProofs ----------------------------
(***************************************************************************)
(* Proofs about Strips: for any colours, harmonies and wheels and any      *)
(* number of overlapping requests, what is shown once nothing is under way *)
(* is that of the selection.                                               *)
(***************************************************************************)
EXTENDS Strips, TLAPS

\* A cache entry holds the bands its tag says.
CacheTagged ==
  \A n \in Names : cache[n] # None => cache[n].bands = Bands(n, cache[n].hex, cache[n].space)

\* No request is of a later generation, and unless a change was skipped those
\* of the current one are for the selection.
OutCurrent ==
  \A r \in out : /\ r.gen <= gen
                 /\ ~stale /\ r.gen = gen => r.hex = selected /\ r.space = space

\* Unless a change was skipped, a strip no current request is out for was
\* drawn for the selection, or its request failed.
DrawnCurrent ==
  ~stale => \A n \in pinned :
     \/ \E r \in out : r.name = n /\ r.gen = gen
     \/ drawn[n] = None /\ cache[n] = None
     \/ drawn[n] # None /\ Fresh(n, selected, space)

\* A skipped change is made good when the section's toggle event arrives.
MissedIsDue == open /\ ~toggled => ~stale

\* The requests of the info panel.
InfoOutCurrent == \A r \in infoOut : /\ r.gen <= infoGen
                                     /\ r.gen = infoGen => r.hex = selected

StripInv == CacheTagged /\ OutCurrent /\ DrawnIsCached /\ DrawnCurrent

IInv == /\ TypeOK
        /\ StripInv
        /\ MissedIsDue
        /\ InfoOutCurrent
        /\ InfoSettled
        /\ PickerMirrors

-----------------------------------------------------------------------------

LEMMA BandsTyped ==
  ASSUME NEW n \in Names, NEW h \in Hex, NEW s \in Space
  PROVE  Bands(n, h, s) \in Derived /\ Bands(n, h, s) # None
BY AbsentAssumption DEF Bands, Derived

\* What showStrips is called with: blocks that are those of the page, or new
\* and empty.
BlocksCached(names, blocks) ==
  /\ blocks \in [Names -> Derived \cup {None}]
  /\ \A n \in names : blocks[n] # None => cache[n] # None /\ cache[n].bands = blocks[n]

LEMMA LoadsTyped ==
  ASSUME NEW names \in SUBSET Names, NEW h \in Hex, NEW s \in Space, NEW g \in Nat
  PROVE  /\ Loads(names, h, s, g) \subseteq Request
         /\ \A r \in Loads(names, h, s, g) :
               r.name \in names /\ r.gen = g /\ r.hex = h /\ r.space = s
BY DEF Loads, Request

\* showStrips keeps the types of what it writes.
LEMMA ShowStripsTyped ==
  ASSUME TypeOK, NEW h \in Hex, NEW s \in Space, NEW names \in SUBSET Names, NEW blocks,
         BlocksCached(names, blocks), ShowStrips(h, s, names, blocks)
  PROVE  /\ stale' \in BOOLEAN
         /\ gen' \in Nat
         /\ out' \subseteq Request
         /\ cache' \in [Names -> Entry \cup {None}]
         /\ drawn' \in [Names -> Derived \cup {None}]
<1>1. CASE ~Shows
  BY <1>1 DEF TypeOK, BlocksCached, ShowStrips
<1>2. CASE Shows
  <2>1. /\ stale' = FALSE
        /\ gen' = gen + 1
        /\ out' = out \cup Loads(names, h, s, gen + 1)
        /\ cache' = cache
        /\ drawn' = [n \in Names |-> IF n \in names /\ Fresh(n, h, s) THEN cache[n].bands
                                                                      ELSE blocks[n]]
    BY <1>2 DEF ShowStrips
  <2>2. gen + 1 \in Nat
    BY DEF TypeOK
  <2>3. Loads(names, h, s, gen + 1) \subseteq Request
    BY <2>2, LoadsTyped
  <2>4. \A n \in Names : Fresh(n, h, s) => cache[n].bands \in Derived
    BY DEF TypeOK, Fresh, Entry
  <2>5. drawn' \in [Names -> Derived \cup {None}]
    BY <2>1, <2>4 DEF BlocksCached
  <2> QED BY <2>1, <2>2, <2>3, <2>5 DEF TypeOK
<1> QED BY <1>1, <1>2

\* showStrips establishes what is said of the strips for the selection, the
\* wheel and the pins it is called with.
LEMMA ShowStripsKeeps ==
  ASSUME TypeOK, StripInv, NEW h \in Hex, NEW s \in Space, NEW names \in SUBSET Names,
         NEW blocks, BlocksCached(names, blocks), ShowStrips(h, s, names, blocks),
         selected' = h, space' = s, pinned' = names
  PROVE  StripInv'
<1>1. CASE ~Shows
  <2>1. stale' = TRUE /\ drawn' = blocks /\ gen' = gen /\ out' = out /\ cache' = cache
    BY <1>1 DEF ShowStrips
  <2>2. CacheTagged'
    BY <2>1 DEF StripInv, CacheTagged
  <2>3. OutCurrent' /\ DrawnCurrent'
    BY <2>1 DEF StripInv, OutCurrent, DrawnCurrent
  <2>4. DrawnIsCached'
    BY <2>1 DEF BlocksCached, DrawnIsCached
  <2> QED BY <2>2, <2>3, <2>4 DEF StripInv
<1>2. CASE Shows
  <2>1. /\ stale' = FALSE
        /\ gen' = gen + 1
        /\ out' = out \cup Loads(names, h, s, gen + 1)
        /\ cache' = cache
        /\ drawn' = [n \in Names |-> IF n \in names /\ Fresh(n, h, s) THEN cache[n].bands
                                                                      ELSE blocks[n]]
    BY <1>2 DEF ShowStrips
  <2>2. CacheTagged'
    BY <2>1 DEF StripInv, CacheTagged
  <2>3. gen \in Nat /\ gen + 1 \in Nat /\ \A r \in out : r.gen \in Nat
    BY DEF TypeOK, Request
  <2>4. OutCurrent'
    <3> SUFFICES ASSUME NEW r \in out'
                 PROVE  r.gen <= gen + 1 /\ (r.gen = gen + 1 => r.hex = h /\ r.space = s)
      BY <2>1 DEF OutCurrent
    <3>1. CASE r \in out
      BY <2>3, <3>1 DEF StripInv, OutCurrent
    <3>2. CASE r \in Loads(names, h, s, gen + 1)
      BY <2>3, <3>2, LoadsTyped
    <3> QED BY <2>1, <3>1, <3>2
  <2>5. DrawnIsCached'
    BY <2>1 DEF BlocksCached, DrawnIsCached, Fresh
  <2>6. DrawnCurrent'
    <3> SUFFICES ASSUME NEW n \in names
                 PROVE  \/ \E r \in out' : r.name = n /\ r.gen = gen'
                        \/ drawn'[n] # None /\ Fresh(n, h, s)'
      BY DEF DrawnCurrent
    <3>1. CASE Fresh(n, h, s)
      <4>1. drawn'[n] = cache[n].bands
        BY <2>1, <3>1
      <4>2. cache[n] \in Entry
        BY <3>1 DEF TypeOK, Fresh
      <4>3. cache[n].bands # None
        BY <4>2, AbsentAssumption DEF Entry
      <4> QED BY <2>1, <3>1, <4>1, <4>3 DEF Fresh
    <3>2. CASE ~Fresh(n, h, s)
      <4> DEFINE r == [name |-> n, hex |-> h, space |-> s, gen |-> gen + 1]
      <4>1. r \in Loads(names, h, s, gen + 1)
        BY <3>2 DEF Loads
      <4>2. r \in out' /\ r.name = n /\ r.gen = gen'
        BY <2>1, <4>1
      <4> QED BY <4>2
    <3> QED BY <3>1, <3>2
  <2> QED BY <2>2, <2>4, <2>5, <2>6 DEF StripInv
<1> QED BY <1>1, <1>2

\* What a turn that calls showStrips, and then perhaps showInfo, leaves of the
\* rest of the state.
LEMMA SameBlocks ==
  ASSUME TypeOK, StripInv
  PROVE  /\ pinned \in SUBSET Names
         /\ BlocksCached(pinned, drawn)
BY DEF TypeOK, StripInv, DrawnIsCached, BlocksCached

LEMMA NewBlocks ==
  ASSUME NEW names \in SUBSET Names
  PROVE  BlocksCached(names, [n \in Names |-> None])
BY DEF BlocksCached

\* After showStrips an open section has missed nothing.
LEMMA ShowStripsMisses ==
  ASSUME NEW h, NEW s, NEW names, NEW blocks, ShowStrips(h, s, names, blocks), open' = open
  PROVE  MissedIsDue'
BY DEF ShowStrips, MissedIsDue, Shows

LEMMA StripInvStutters ==
  ASSUME StripInv, UNCHANGED <<selected, space, pinned, strips>>
  PROVE  StripInv'
BY DEF StripInv, CacheTagged, OutCurrent, DrawnIsCached, DrawnCurrent, Fresh, strips

LEMMA CommitKeeps ==
  ASSUME IInv, NEW h \in Hex, CommitSelection(h), UNCHANGED <<space, pinned, section>>
  PROVE  /\ selected' = h
         /\ infoGen' \in Nat /\ infoOut' \subseteq InfoRequest /\ panel' = panel
         /\ InfoOutCurrent' /\ InfoSettled'
         /\ StripInv' /\ MissedIsDue'
         /\ stale' \in BOOLEAN /\ gen' \in Nat /\ out' \subseteq Request
         /\ cache' \in [Names -> Entry \cup {None}]
         /\ drawn' \in [Names -> Derived \cup {None}]
<1>1. TypeOK /\ StripInv
  BY DEF IInv
<1>2. selected' = h /\ ShowInfo(h) /\ ShowStrips(h, space, pinned, drawn)
  BY DEF CommitSelection
<1>3. space \in Space /\ infoGen \in Nat /\ infoOut \subseteq InfoRequest
  BY <1>1 DEF TypeOK
<1>4. /\ infoGen' = infoGen + 1
      /\ infoOut' = infoOut \cup {[hex |-> h, gen |-> infoGen + 1]}
      /\ panel' = panel
  BY <1>2 DEF ShowInfo
<1>5. [hex |-> h, gen |-> infoGen + 1] \in InfoRequest
  BY <1>3 DEF InfoRequest
<1>6. InfoOutCurrent'
  <2>1. \A r \in infoOut : r.gen \in Nat /\ r.gen <= infoGen
    BY <1>3 DEF IInv, InfoOutCurrent, InfoRequest
  <2> QED BY <1>2, <1>3, <1>4, <2>1 DEF InfoOutCurrent
<1>7. InfoSettled'
  <2>1. [hex |-> h, gen |-> infoGen + 1] \in infoOut'
    BY <1>4
  <2>2. [hex |-> h, gen |-> infoGen + 1].gen = infoGen'
    BY <1>4
  <2> QED BY <2>1, <2>2 DEF InfoSettled
<1>8. BlocksCached(pinned, drawn) /\ pinned \in SUBSET Names
  BY <1>1, SameBlocks
<1>9. StripInv'
  BY <1>1, <1>2, <1>3, <1>8, ShowStripsKeeps
<1>10. MissedIsDue'
  BY <1>2, ShowStripsMisses DEF section
<1>11. /\ stale' \in BOOLEAN /\ gen' \in Nat /\ out' \subseteq Request
       /\ cache' \in [Names -> Entry \cup {None}]
       /\ drawn' \in [Names -> Derived \cup {None}]
  BY <1>1, <1>2, <1>3, <1>8, ShowStripsTyped
<1> QED BY <1>2, <1>3, <1>4, <1>5, <1>6, <1>7, <1>9, <1>10, <1>11

LEMMA InfoStutters ==
  ASSUME IInv, UNCHANGED <<choice, info>>
  PROVE  InfoOutCurrent' /\ InfoSettled' /\ PickerMirrors'
BY DEF IInv, InfoOutCurrent, InfoSettled, PickerMirrors, choice, info

-----------------------------------------------------------------------------

LEMMA Initially == Init => IInv
<1> SUFFICES ASSUME Init PROVE IInv
  OBVIOUS
<1>1. out \subseteq Request /\ \A r \in out : r.gen = 1 /\ r.hex = selected /\ r.space = space
  BY LoadsTyped DEF Init
<1>2. TypeOK
  <2>1. stale \in BOOLEAN
    BY Zenon DEF Init
  <2>2. infoOut \subseteq InfoRequest
    BY DEF Init, InfoRequest
  <2> QED BY <1>1, <2>1, <2>2 DEF Init, TypeOK
<1>3. DrawnCurrent
  BY DEF Init, DrawnCurrent, Loads, Fresh
<1>4. StripInv
  BY <1>1, <1>3 DEF Init, StripInv, CacheTagged, OutCurrent, DrawnIsCached
<1>5. MissedIsDue /\ InfoOutCurrent /\ InfoSettled /\ PickerMirrors
  BY DEF Init, MissedIsDue, InfoOutCurrent, InfoSettled, PickerMirrors
<1> QED BY <1>2, <1>4, <1>5 DEF IInv

LEMMA SelectColorStep ==
  ASSUME IInv, NEW h \in Hex, SelectColor(h)
  PROVE  IInv'
<1>1. /\ CommitSelection(h) /\ pick' = h /\ clicks' = clicks + 1
      /\ UNCHANGED <<timer, space, pinned, section, adding>>
  BY DEF SelectColor, SetPick, Click
<1>2. PickerMirrors'
  BY <1>1, CommitKeeps DEF PickerMirrors
<1>3. TypeOK'
  BY <1>1, CommitKeeps DEF IInv, TypeOK, section
<1> QED BY <1>1, <1>2, <1>3, CommitKeeps DEF IInv

LEMMA DragStep ==
  ASSUME IInv, NEW h \in Hex, Drag(h)
  PROVE  IInv'
<1>1. StripInv'
  BY StripInvStutters DEF IInv, Drag
<1>2. TypeOK'
  BY DEF IInv, TypeOK, Drag, Click, info, section, strips
<1>3. MissedIsDue' /\ InfoOutCurrent' /\ InfoSettled' /\ PickerMirrors'
  BY DEF IInv, MissedIsDue, InfoOutCurrent, InfoSettled, PickerMirrors,
         Drag, info, section, strips
<1> QED BY <1>1, <1>2, <1>3 DEF IInv

LEMMA PickTimerStep ==
  ASSUME IInv, PickTimer
  PROVE  IInv'
<1>1. /\ CommitSelection(pick) /\ timer' = FALSE
      /\ UNCHANGED <<pick, space, pinned, section, adding, clicks>>
  BY DEF PickTimer
<1>2. pick \in Hex
  BY DEF IInv, TypeOK
<1>3. PickerMirrors'
  BY <1>1, <1>2, CommitKeeps DEF PickerMirrors
<1>4. TypeOK'
  BY <1>1, <1>2, CommitKeeps DEF IInv, TypeOK, section
<1> QED BY <1>1, <1>2, <1>3, <1>4, CommitKeeps DEF IInv

LEMMA ChangePinsStep ==
  ASSUME IInv, NEW names \in SUBSET Names, ChangePins(names)
  PROVE  IInv'
<1>1. /\ open /\ ApplyPinned(names) /\ pinned' = names /\ clicks' = clicks + 1
      /\ UNCHANGED <<choice, info, space, section, adding>>
  BY DEF ChangePins, ApplyPinned, Click
<1>2. InfoOutCurrent' /\ InfoSettled' /\ PickerMirrors'
  BY <1>1, InfoStutters
<1>3. CASE names = {} /\ drawn' = [n \in Names |-> None] /\ UNCHANGED <<stale, gen, out, cache>>
  <2>1. StripInv'
    BY <1>1, <1>3 DEF IInv, StripInv, CacheTagged, OutCurrent, DrawnIsCached, DrawnCurrent, choice
  <2>2. MissedIsDue'
    BY <1>1, <1>3 DEF IInv, MissedIsDue, section
  <2>3. TypeOK'
    BY <1>1, <1>3 DEF IInv, TypeOK, choice, info, section
  <2> QED BY <1>2, <2>1, <2>2, <2>3 DEF IInv
<1>4. CASE ShowStrips(selected, space, names, [n \in Names |-> None])
  <2>1. selected \in Hex /\ space \in Space
    BY DEF IInv, TypeOK
  <2>2. BlocksCached(names, [n \in Names |-> None])
    BY NewBlocks
  <2>3. StripInv'
    BY <1>1, <1>4, <2>1, <2>2, ShowStripsKeeps DEF IInv, choice
  <2>4. MissedIsDue'
    BY <1>1, <1>4, ShowStripsMisses DEF section
  <2>5. /\ stale' \in BOOLEAN /\ gen' \in Nat /\ out' \subseteq Request
        /\ cache' \in [Names -> Entry \cup {None}]
        /\ drawn' \in [Names -> Derived \cup {None}]
    BY <1>4, <2>1, <2>2, ShowStripsTyped DEF IInv
  <2>6. TypeOK'
    BY <1>1, <2>5 DEF IInv, TypeOK, choice, info, section
  <2> QED BY <1>2, <2>3, <2>4, <2>6 DEF IInv
<1> QED BY <1>1, <1>3, <1>4 DEF ApplyPinned

LEMMA CycleSpaceStep ==
  ASSUME IInv, NEW s \in Space, CycleSpace(s)
  PROVE  IInv'
<1>1. /\ space' = s /\ ShowStrips(selected, s, pinned, drawn) /\ clicks' = clicks + 1
      /\ UNCHANGED <<choice, info, pinned, section, adding>>
  BY DEF CycleSpace, Click
<1>2. selected \in Hex /\ BlocksCached(pinned, drawn) /\ pinned \in SUBSET Names
  BY SameBlocks DEF IInv, TypeOK
<1>3. StripInv'
  BY <1>1, <1>2, ShowStripsKeeps DEF IInv, choice
<1>4. MissedIsDue'
  BY <1>1, ShowStripsMisses DEF section
<1>5. TypeOK'
  BY <1>1, <1>2, ShowStripsTyped DEF IInv, TypeOK, choice, info, section
<1> QED BY <1>1, <1>3, <1>4, <1>5, InfoStutters DEF IInv

LEMMA FlipStep ==
  ASSUME IInv, Flip
  PROVE  IInv'
<1>1. StripInv'
  BY StripInvStutters DEF IInv, Flip, choice
<1>2. InfoOutCurrent' /\ InfoSettled' /\ PickerMirrors'
  BY InfoStutters DEF Flip
<1>3. TypeOK' /\ MissedIsDue'
  BY DEF IInv, TypeOK, MissedIsDue, Flip, Click, choice, info, strips
<1> QED BY <1>1, <1>2, <1>3 DEF IInv

LEMMA ToggledStep ==
  ASSUME IInv, Toggled
  PROVE  IInv'
<1>1. toggled' = FALSE /\ UNCHANGED <<choice, info, space, pinned, open, adding, clicks>>
  BY DEF Toggled
<1>2. InfoOutCurrent' /\ InfoSettled' /\ PickerMirrors'
  BY <1>1, InfoStutters
<1>3. CASE open /\ stale
  <2>1. ShowStrips(selected, space, pinned, drawn)
    BY <1>3 DEF Toggled
  <2>2. /\ selected \in Hex /\ space \in Space
        /\ BlocksCached(pinned, drawn) /\ pinned \in SUBSET Names
    BY SameBlocks DEF IInv, TypeOK
  <2>3. StripInv'
    BY <1>1, <2>1, <2>2, ShowStripsKeeps DEF IInv, choice
  <2>4. MissedIsDue'
    BY <1>1, <2>1, ShowStripsMisses
  <2>5. TypeOK'
    BY <1>1, <2>1, <2>2, ShowStripsTyped DEF IInv, TypeOK, choice, info
  <2> QED BY <1>2, <2>3, <2>4, <2>5 DEF IInv
<1>4. CASE ~(open /\ stale)
  <2>1. UNCHANGED strips
    BY <1>4 DEF Toggled
  <2>2. StripInv'
    BY <1>1, <2>1, StripInvStutters DEF IInv, choice
  <2>3. TypeOK' /\ MissedIsDue'
    BY <1>1, <1>4, <2>1 DEF IInv, TypeOK, MissedIsDue, choice, info, strips
  <2> QED BY <1>2, <2>2, <2>3 DEF IInv
<1> QED BY <1>3, <1>4

LEMMA AddStripStep ==
  ASSUME IInv, NEW n \in Names, AddStrip(n)
  PROVE  IInv'
<1>1. StripInv'
  BY StripInvStutters DEF IInv, AddStrip, choice
<1>2. InfoOutCurrent' /\ InfoSettled' /\ PickerMirrors'
  BY InfoStutters DEF AddStrip
<1>3. cache[n] \in Entry
  BY DEF IInv, TypeOK, AddStrip
<1>4. TypeOK' /\ MissedIsDue'
  BY <1>3 DEF IInv, TypeOK, Entry, MissedIsDue, AddStrip, Click, choice, info, section, strips
<1> QED BY <1>1, <1>2, <1>4 DEF IInv

LEMMA StripAnswered ==
  ASSUME IInv, NEW r \in out, out' = out \ {r},
         UNCHANGED <<choice, info, space, pinned, section, stale, gen, adding, clicks>>,
         \/ Current(r) /\ StripLoaded(r)
         \/ Current(r) /\ StripFailed(r)
         \/ ~Current(r) /\ UNCHANGED <<cache, drawn>>
  PROVE  IInv'
<1> DEFINE n == r.name
<1>1. n \in Names /\ r.hex \in Hex /\ r.space \in Space /\ pinned \subseteq Names
  BY DEF IInv, TypeOK, Request
<1>2. OutCurrent'
  BY DEF IInv, StripInv, OutCurrent, choice
<1>3. MissedIsDue'
  BY DEF IInv, MissedIsDue, section
<1>4. InfoOutCurrent' /\ InfoSettled' /\ PickerMirrors'
  BY InfoStutters
<1>5. CASE Current(r) /\ StripLoaded(r)
  <2> DEFINE bands == Bands(n, r.hex, r.space)
             entry == [hex |-> r.hex, space |-> r.space, bands |-> bands]
  <2>1. /\ cache' = [cache EXCEPT ![n] = entry]
        /\ drawn' = IF n \in pinned THEN [drawn EXCEPT ![n] = bands] ELSE drawn
    BY <1>5 DEF StripLoaded, DrawStrip
  <2>2. bands \in Derived /\ bands # None /\ entry \in Entry /\ entry # None
    BY <1>1, BandsTyped, AbsentAssumption DEF Entry
  <2> HIDE DEF bands
  <2>3. /\ cache' \in [Names -> Entry \cup {None}]
        /\ drawn' \in [Names -> Derived \cup {None}]
    BY <2>1, <2>2 DEF IInv, TypeOK
  <2>4. /\ cache'[n] = entry
        /\ n \in pinned => drawn'[n] = bands
        /\ \A m \in Names \ {n} : cache'[m] = cache[m] /\ drawn'[m] = drawn[m]
    BY <1>1, <2>1 DEF IInv, TypeOK
  <2>5. CacheTagged'
    BY <2>2, <2>4 DEF IInv, StripInv, CacheTagged, bands
  <2>6. DrawnIsCached'
    BY <1>1, <2>2, <2>4 DEF IInv, StripInv, DrawnIsCached
  <2>7. DrawnCurrent'
    <3> SUFFICES ASSUME ~stale, NEW m \in pinned, ~\E q \in out' : q.name = m /\ q.gen = gen
                 PROVE  \/ drawn'[m] = None /\ cache'[m] = None
                        \/ drawn'[m] # None /\ Fresh(m, selected, space)'
      BY DEF DrawnCurrent
    <3>1. CASE m = n
      BY <1>5, <2>2, <2>4, <3>1 DEF IInv, StripInv, OutCurrent, Fresh, Current, choice
    <3>2. CASE m # n
      <4>1. ~\E q \in out : q.name = m /\ q.gen = gen
        BY <3>2
      <4> QED BY <1>1, <2>4, <3>2, <4>1 DEF IInv, StripInv, DrawnCurrent, Fresh, choice
    <3> QED BY <3>1, <3>2
  <2>8. TypeOK'
    BY <2>3 DEF IInv, TypeOK, choice, info, section
  <2> QED BY <1>2, <1>3, <1>4, <2>5, <2>6, <2>7, <2>8 DEF IInv, StripInv
<1>6. CASE Current(r) /\ StripFailed(r)
  <2>1. /\ cache' = [cache EXCEPT ![n] = None]
        /\ drawn' = IF n \in pinned THEN [drawn EXCEPT ![n] = None] ELSE drawn
    BY <1>6 DEF StripFailed, DrawStrip, Emptied
  <2>2. /\ cache' \in [Names -> Entry \cup {None}]
        /\ drawn' \in [Names -> Derived \cup {None}]
    BY <2>1 DEF IInv, TypeOK
  <2>3. /\ cache'[n] = None
        /\ n \in pinned => drawn'[n] = None
        /\ \A m \in Names \ {n} : cache'[m] = cache[m] /\ drawn'[m] = drawn[m]
    BY <1>1, <2>1 DEF IInv, TypeOK
  <2>4. CacheTagged' /\ DrawnIsCached'
    BY <1>1, <2>3 DEF IInv, StripInv, CacheTagged, DrawnIsCached
  <2>5. DrawnCurrent'
    <3> SUFFICES ASSUME ~stale, NEW m \in pinned, ~\E q \in out' : q.name = m /\ q.gen = gen
                 PROVE  \/ drawn'[m] = None /\ cache'[m] = None
                        \/ drawn'[m] # None /\ Fresh(m, selected, space)'
      BY DEF DrawnCurrent
    <3>1. CASE m = n
      BY <2>3, <3>1
    <3>2. CASE m # n
      <4>1. ~\E q \in out : q.name = m /\ q.gen = gen
        BY <3>2
      <4> QED BY <1>1, <2>3, <3>2, <4>1 DEF IInv, StripInv, DrawnCurrent, Fresh, choice
    <3> QED BY <3>1, <3>2
  <2>6. TypeOK'
    BY <2>2 DEF IInv, TypeOK, choice, info, section
  <2> QED BY <1>2, <1>3, <1>4, <2>4, <2>5, <2>6 DEF IInv, StripInv
<1>7. CASE ~Current(r) /\ UNCHANGED <<cache, drawn>>
  <2>1. CacheTagged' /\ DrawnIsCached'
    BY <1>7 DEF IInv, StripInv, CacheTagged, DrawnIsCached
  <2>2. DrawnCurrent'
    BY <1>7 DEF IInv, StripInv, DrawnCurrent, Fresh, Current, choice
  <2>3. TypeOK'
    BY <1>7 DEF IInv, TypeOK, choice, info, section
  <2> QED BY <1>2, <1>3, <1>4, <2>1, <2>2, <2>3 DEF IInv, StripInv
<1> QED BY <1>5, <1>6, <1>7

LEMMA StripAnswerStep ==
  ASSUME IInv, NEW r \in out, StripLoaded(r) \/ StripFailed(r)
  PROVE  IInv'
BY StripAnswered DEF StripLoaded, StripFailed

LEMMA InfoAnswerStep ==
  ASSUME IInv, NEW r \in infoOut, InfoLoaded(r) \/ InfoFailed(r)
  PROVE  IInv'
<1>1. /\ infoOut' = infoOut \ {r}
      /\ r.gen = infoGen => panel' \in {r.hex, None}
      /\ UNCHANGED <<choice, infoGen, space, pinned, section, strips, adding, clicks>>
  BY DEF InfoLoaded, InfoFailed, InfoAnswered, InfoCurrent
<1>2. r.gen # infoGen => panel' = panel
  BY DEF InfoLoaded, InfoFailed, InfoAnswered, InfoCurrent
<1>3. StripInv'
  BY <1>1, StripInvStutters DEF IInv, choice
<1>4. InfoOutCurrent' /\ PickerMirrors'
  BY <1>1 DEF IInv, InfoOutCurrent, PickerMirrors, choice
<1>5. InfoSettled'
  <2>1. CASE r.gen = infoGen
    BY <1>1, <2>1 DEF IInv, InfoOutCurrent, InfoSettled, choice
  <2>2. CASE r.gen # infoGen
    BY <1>1, <1>2, <2>2 DEF IInv, InfoSettled, choice
  <2> QED BY <2>1, <2>2
<1>6. TypeOK'
  <2>1. infoOut' \subseteq InfoRequest
    BY <1>1 DEF IInv, TypeOK
  <2>2. panel' \in Hex \cup {None}
    BY <1>1, <1>2 DEF IInv, TypeOK, InfoRequest
  <2> QED BY <1>1, <2>1, <2>2 DEF IInv, TypeOK, choice, section, strips
<1>7. MissedIsDue'
  BY <1>1 DEF IInv, MissedIsDue, section, strips
<1> QED BY <1>3, <1>4, <1>5, <1>6, <1>7 DEF IInv

LEMMA Stuttering ==
  ASSUME IInv, UNCHANGED vars
  PROVE  IInv'
<1>1. StripInv'
  BY StripInvStutters DEF IInv, vars, choice
<1>2. InfoOutCurrent' /\ InfoSettled' /\ PickerMirrors'
  BY InfoStutters DEF vars
<1>3. TypeOK' /\ MissedIsDue'
  BY DEF IInv, TypeOK, MissedIsDue, vars, choice, info, section, strips
<1> QED BY <1>1, <1>2, <1>3 DEF IInv

LEMMA Inductive == IInv /\ [Next]_vars => IInv'
<1> SUFFICES ASSUME IInv, [Next]_vars PROVE IInv'
  OBVIOUS
<1>1. CASE \E h \in Hex : SelectColor(h) \/ Drag(h)
  BY <1>1, SelectColorStep, DragStep
<1>2. CASE PickTimer
  BY <1>2, PickTimerStep
<1>3. CASE \E n \in Names : TogglePin(n) \/ AddStrip(n)
  <2> PICK n \in Names : TogglePin(n) \/ AddStrip(n)
    BY <1>3
  <2>1. CASE TogglePin(n)
    <3>1. (IF n \in pinned THEN pinned \ {n} ELSE pinned \cup {n}) \in SUBSET Names
      BY DEF IInv, TypeOK
    <3> QED BY <2>1, <3>1, ChangePinsStep DEF TogglePin
  <2>2. CASE AddStrip(n)
    BY <2>2, AddStripStep
  <2> QED BY <2>1, <2>2
<1>4. CASE PinAll \/ PinNone
  BY <1>4, ChangePinsStep DEF PinAll, PinNone
<1>5. CASE \E s \in Space : CycleSpace(s)
  BY <1>5, CycleSpaceStep
<1>6. CASE Flip
  BY <1>6, FlipStep
<1>7. CASE Toggled
  BY <1>7, ToggledStep
<1>8. CASE Answers
  BY <1>8, StripAnswerStep, InfoAnswerStep DEF Answers
<1>9. CASE UNCHANGED vars
  BY <1>9, Stuttering
<1> QED BY <1>1, <1>2, <1>3, <1>4, <1>5, <1>6, <1>7, <1>8, <1>9 DEF Next

\* The inductive invariant holds throughout, whatever the user clicks and in
\* whatever order requests are answered.
THEOREM StripsInvariance == Spec => []IInv
BY Initially, Inductive, PTL DEF Spec

\* A strip nothing is under way for is that of the selection, and so is what
\* its add takes (showStrips, loadStrip).
THEOREM StripsFollowSelection == Spec => []SettledStrips
<1>1. IInv => SettledStrips
  <2> SUFFICES ASSUME IInv, NEW n \in pinned, Settled(n)
               PROVE  \/ drawn[n] = None /\ cache[n] = None
                      \/ /\ drawn[n] = Bands(n, selected, space)
                         /\ Fresh(n, selected, space)
                         /\ cache[n].bands = drawn[n]
    BY DEF SettledStrips
  <2>1. n \in Names
    BY DEF IInv, TypeOK
  <2>2. \/ drawn[n] = None /\ cache[n] = None
        \/ drawn[n] # None /\ Fresh(n, selected, space)
    BY DEF IInv, MissedIsDue, StripInv, DrawnCurrent, Settled
  <2>3. CASE drawn[n] # None /\ Fresh(n, selected, space)
    BY <2>1, <2>3 DEF IInv, StripInv, DrawnIsCached, CacheTagged, Fresh
  <2> QED BY <2>2, <2>3
<1> QED BY StripsInvariance, <1>1, PTL

\* The panel of info, once its request is answered, is that of the selection.
THEOREM PanelFollowsSelection == Spec => []InfoSettled
<1>1. IInv => InfoSettled
  BY DEF IInv
<1> QED BY StripsInvariance, <1>1, PTL

\* A closed section sends no request.
THEOREM ClosedIsSilent == Spec => ClosedSendsNothing
<1>1. [Next]_vars => [~open => out' \subseteq out]_vars
  <2> SUFFICES ASSUME Next, ~open PROVE out' \subseteq out
    OBVIOUS
  <2>1. ASSUME NEW h, NEW s, NEW names, NEW blocks, ShowStrips(h, s, names, blocks)
        PROVE  out' \subseteq out
    BY <2>1 DEF ShowStrips, Shows
  <2>2. CASE (\E h \in Hex : SelectColor(h)) \/ PickTimer
    BY <2>1, <2>2 DEF SelectColor, PickTimer, CommitSelection
  <2>3. CASE Toggled
    BY <2>3 DEF Toggled, strips
  <2>4. CASE Answers
    BY <2>4 DEF Answers, StripLoaded, StripFailed, InfoLoaded, InfoFailed, InfoAnswered, strips
  <2>5. CASE \/ \E h \in Hex : Drag(h)
             \/ \E n \in Names : AddStrip(n)
             \/ Flip
    BY <2>5 DEF Drag, AddStrip, Flip, strips
  <2>6. CASE \/ \E n \in Names : TogglePin(n)
             \/ PinAll \/ PinNone
             \/ \E s \in Space : CycleSpace(s)
    BY <2>6 DEF TogglePin, PinAll, PinNone, ChangePins, CycleSpace
  <2> QED BY <2>2, <2>3, <2>4, <2>5, <2>6 DEF Next
<1> QED BY <1>1, PTL DEF Spec, ClosedSendsNothing
=============================================================================
