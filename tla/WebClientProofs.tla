--------------------------- MODULE WebClientProofs --------------------------
(***************************************************************************)
(* Proofs about WebClient, for any number of activations, list requests,   *)
(* tokens, accounts and collections.                                       *)
(*                                                                         *)
(* A turn computes the page from functions of the page, and changes the    *)
(* activation it belongs to.  The invariant is therefore stated of a page  *)
(* and a table of activations, as Sound and Listing, and the proof goes    *)
(* function by function: each keeps both (Keeps), and so does what a turn  *)
(* composes of them.  The one turn that does not is the one a login ends   *)
(* in, which needs that nothing happened before it.                        *)
(***************************************************************************)
EXTENDS WebClient, FiniteSetTheorems, TLAPS

-----------------------------------------------------------------------------
(* The invariant.                                                          *)

LoadPc == {"awaitSaved", "saved"}

\* What an answer holds, and the request it was given to.
AnswerOK(act) ==
  /\ act.reply = "ok" /\ act.pc = "login" => act.got \in Token /\ owner[act.got] # None
  /\ act.reply = "ok" /\ act.pc \in {"loginMe", "openDelete", "clts"} => act.got \in Account
  /\ act.pc = "saved" => act.clt \in Clt /\ (act.reply = "ok" => act.tok # None)

\* Loaders fetch the list, tasks do everything else.
TasksOK(ts) ==
  /\ ts \in [Slot -> Activation]
  /\ \A q \in Loader : ts[q].pc \in {"idle", "clts"}
  /\ \A t \in Task : ts[t].pc # "clts"
  /\ \A s \in Slot : AnswerOK(ts[s])

\* The button is disabled exactly while the newest load is out.
Loading(pg, ts) ==
  /\ pg.moreOff <=> pg.newest # None
  /\ \A t \in Task : pg.newest = t => ts[t].pc \in LoadPc

\* There is an active collection when there is a list, and it is one of the list.
ActiveOK(pg) == /\ pg.active # None => pg.active \in pg.clts
                /\ pg.clts # {} => pg.active # None

Sound(pg, ts) ==
  /\ pg \in Page
  /\ ActiveOK(pg)
  /\ TasksOK(ts)
  /\ Loading(pg, ts)

In(pg) == pg.session # None /\ pg.session.tok # None

\* One login asks for one list at a time and keeps the one it has, and every
\* load that is out was asked for after it was there.
OneList(pg, ts) ==
  In(pg) =>
    /\ \A q \in Loader : ts[q].pc = "clts" => pg.request = q
    /\ pg.active # None => pg.request = "ok"
    /\ \A t \in Task : ts[t].pc = "saved" => pg.active # None

\* The newest load is of the active collection, and what it leaves in the grid is.
NewestOfActive(pg, ts) ==
  In(pg) =>
    /\ \A t \in Task : pg.newest = t /\ ts[t].pc = "saved" => ts[t].clt = pg.active
    /\ pg.newest = None => pg.grid \subseteq {pg.active}
    /\ \A t \in Task : pg.newest = t /\ ts[t].append => pg.grid \subseteq {pg.active}

\* What the session that ended left behind is shown in an empty grid.
LastShown(pg, ts) ==
  ~In(pg) => \A t \in Task : pg.newest = t /\ ts[t].pc = "saved" /\ ts[t].tok # None
                             => pg.grid = {}

OneShown(pg) == \A c, d \in pg.grid : c = d

Listing(pg, ts) == /\ OneList(pg, ts)
                   /\ NewestOfActive(pg, ts)
                   /\ LastShown(pg, ts)
                   /\ OneShown(pg)

\* Before the first login ends nothing but logins was asked for.
Before(pg, ts) ==
  /\ pg = BlankPage
  /\ \A s \in Slot : ts[s].pc \in {"idle", "login"}

Granted(act) == act.pc = "login" /\ act.reply = "ok"

\* The token that was minted is still on its way, or in the session.
FirstLogin ==
  /\ (\A k \in Token : owner[k] = None) => Before(page, tasks)
  /\ \A s \in Slot : Granted(tasks[s]) => Before(page, tasks)
  /\ \A s, u \in Slot : Granted(tasks[s]) /\ Granted(tasks[u]) => s = u

Server == /\ owner \in [Token -> Account \cup {None}]
          /\ live \subseteq Token
          /\ \A k \in live : owner[k] # None

IInv == /\ Server
        /\ Sound(page, tasks)
        /\ OneLogin => FirstLogin /\ Listing(page, tasks)

-----------------------------------------------------------------------------
(* Pages and activations, field by field.                                  *)

LEMMA Names == /\ \A t \in Task : t \in Slot /\ t \notin Loader /\ t # None
               /\ \A q \in Loader : q \in Slot /\ q \notin Task /\ q # None
                                    /\ q # "ok" /\ q # "failed"
               /\ None \notin Token /\ None \notin Account /\ None \notin Clt
               /\ None \notin Session
               /\ None # "ok" /\ None # "failed" /\ None # "401"
  BY NameAssumption DEF Slot

LEMMA PageFields ==
  ASSUME NEW pg \in Page
  PROVE  /\ pg.session \in Session \cup {None}
         /\ pg.clts \in SUBSET Clt
         /\ pg.active \in Clt \cup {None}
         /\ pg.request \in Loader \cup {"ok", None}
         /\ pg.newest \in Task \cup {None}
         /\ pg.grid \in SUBSET Clt
         /\ pg.cursor \in Clt \cup {None}
         /\ pg.moreOff \in BOOLEAN
         /\ pg.dialog \in Account \cup {None}
  BY DEF Page

LEMMA SessionFields ==
  /\ \A s \in Session : /\ s.tok \in Token \cup {None}
                        /\ s.nick \in Account \cup {None}
                        /\ s.clt \in Clt \cup {None}
  /\ \A k \in Token \cup {None}, n \in Account \cup {None}, c \in Clt \cup {None} :
       /\ [tok |-> k, nick |-> n, clt |-> c] \in Session
       /\ [tok |-> k, nick |-> n, clt |-> c].tok = k
  /\ \A s \in Session, n \in Account \cup {None} :
       [s EXCEPT !.nick = n] \in Session /\ [s EXCEPT !.nick = n].tok = s.tok
  /\ \A s \in Session, c \in Clt \cup {None} :
       [s EXCEPT !.clt = c] \in Session /\ [s EXCEPT !.clt = c].tok = s.tok
  BY DEF Session

LEMMA CltTypes ==
  \A a \in Account : DefaultOf(a) \in CltsOf(a) /\ CltsOf(a) \subseteq Clt
  BY CltAssumption DEF DefaultOf, CltsOf, Clt

LEMMA BlankFields ==
  /\ BlankPage \in Page
  /\ BlankPage.session = None /\ BlankPage.clts = {} /\ BlankPage.active = None
  /\ BlankPage.request = None /\ BlankPage.newest = None /\ BlankPage.grid = {}
  /\ BlankPage.cursor = None /\ BlankPage.moreOff = FALSE /\ BlankPage.dialog = None
  BY DEF BlankPage, Page

\* The token a request carries is the session's, if it has one.
LEMMA SpreadFields ==
  ASSUME NEW pg \in Page
  PROVE  /\ Spread(pg) \in Session
         /\ Spread(pg).tok # None <=> In(pg)
         /\ pg.session # None => Spread(pg) = pg.session
  <1>1. pg.session \in Session \cup {None}
    BY PageFields
  <1>2. CASE pg.session = None
    <2> DEFINE s == [tok |-> None, nick |-> None, clt |-> None]
    <2>1. Spread(pg) = s
      BY <1>2 DEF Spread
    <2>2. s \in Session /\ s.tok = None
      BY SessionFields
    <2> QED BY <1>2, <2>1, <2>2 DEF In
  <1>3. CASE pg.session # None
    BY <1>1, <1>3 DEF Spread, In
  <1> QED BY <1>2, <1>3

LEMMA ActivationFields ==
  ASSUME NEW act \in Activation
  PROVE  /\ act.pc \in AwaitPc \cup CallPc \cup {"idle"}
         /\ act.tok \in Token \cup {None}
         /\ act.reply \in {"ok", "401", "failed", None}
         /\ act.got \in Token \cup Account \cup {None}
         /\ act.append \in BOOLEAN
         /\ act.on \in Loader \cup {"ok", "failed", None}
         /\ act.clt \in Clt \cup {None}
         /\ act.cell \in Clt \cup {None}
  BY DEF Activation

LEMMA IdleFields ==
  /\ Idle \in Activation /\ Idle.pc = "idle" /\ Idle.reply = None
  /\ Idle.append = FALSE /\ Idle.tok = None
  BY DEF Idle, Activation

\* What an activation that just went out on a request looks like.
Sent(act, old, pc, pg) ==
  /\ act \in Activation
  /\ act.pc = pc /\ act.reply = None /\ act.got = None
  /\ act.tok = Spread(pg).tok
  /\ act.append = old.append /\ act.clt = old.clt

LEMMA CallFields ==
  ASSUME NEW act \in Activation, NEW pc \in CallPc, NEW pg \in Page
  PROVE  Sent(Call(act, pc, pg), act, pc, pg)
  <1> DEFINE k == Spread(pg).tok
             act1 == [act EXCEPT !.pc = pc, !.reply = None, !.got = None]
             act2 == [act1 EXCEPT !.on = None]
             act3 == [act2 EXCEPT !.tok = k]
  <1>1. k \in Token \cup {None}
    BY SpreadFields, SessionFields
  <1>2. Call(act, pc, pg) = act3
    BY DEF Call
  <1> HIDE DEF k
  <1>3. /\ act1 \in Activation
        /\ act1.pc = pc /\ act1.reply = None /\ act1.got = None
        /\ act1.append = act.append /\ act1.clt = act.clt
    BY DEF Activation
  <1> HIDE DEF act1
  <1>4. /\ act2 \in Activation
        /\ act2.pc = act1.pc /\ act2.reply = act1.reply /\ act2.got = act1.got
        /\ act2.append = act1.append /\ act2.clt = act1.clt
    BY <1>3 DEF Activation
  <1> HIDE DEF act2
  <1>5. /\ act3 \in Activation
        /\ act3.pc = act2.pc /\ act3.reply = act2.reply /\ act3.got = act2.got /\ act3.tok = k
        /\ act3.append = act2.append /\ act3.clt = act2.clt
    BY <1>1, <1>4 DEF Activation
  <1> HIDE DEF act3
  <1> QED BY <1>2, <1>3, <1>4, <1>5 DEF Sent, k

-----------------------------------------------------------------------------
(* The functions of the page.                                              *)

\* Everything but the session's nickname, the dialog and the cursor.
SameList(pg, new) ==
  /\ new \in Page
  /\ new.clts = pg.clts /\ new.active = pg.active /\ new.request = pg.request
  /\ new.newest = pg.newest /\ new.grid = pg.grid /\ new.moreOff = pg.moreOff

\* A logged out page, whose newest load may still be out.
Ended(pg, new) ==
  /\ new \in Page
  /\ new.session = None /\ new.clts = {} /\ new.active = None /\ new.request = None
  /\ new.grid = {} /\ new.newest = pg.newest /\ new.moreOff = pg.moreOff

LEMMA ResetFields ==
  ASSUME NEW pg \in Page
  PROVE  LET new == ResetCollections(pg) IN
         /\ new \in Page
         /\ new.clts = {} /\ new.active = None /\ new.request = None
         /\ new.session = pg.session /\ new.cursor = pg.cursor /\ new.dialog = pg.dialog
         /\ new.grid = pg.grid /\ new.newest = pg.newest /\ new.moreOff = pg.moreOff
  BY DEF ResetCollections, Page

LEMMA EndSessionFields ==
  ASSUME NEW pg \in Page
  PROVE  Ended(pg, EndSession(pg))
  <1> DEFINE r == ResetCollections(pg)
  <1>1. /\ r \in Page
        /\ r.clts = {} /\ r.active = None /\ r.request = None
        /\ r.newest = pg.newest /\ r.moreOff = pg.moreOff
    BY ResetFields
  <1>2. EndSession(pg) = [r EXCEPT !.session = None, !.cursor = None, !.grid = {}]
    BY DEF EndSession
  <1> HIDE DEF r
  <1> DEFINE e == [r EXCEPT !.session = None, !.cursor = None, !.grid = {}]
  <1>3. /\ e \in Page
        /\ e.session = None /\ e.clts = r.clts /\ e.active = r.active
        /\ e.request = r.request /\ e.grid = {}
        /\ e.newest = r.newest /\ e.moreOff = r.moreOff
    BY <1>1 DEF Page
  <1> HIDE DEF e
  <1>4. EndSession(pg) = e
    BY <1>2 DEF e
  <1> QED BY <1>1, <1>3, <1>4 DEF Ended

LEMMA StartSessionFields ==
  ASSUME NEW pg \in Page, NEW k \in Token
  PROVE  LET new == StartSession(pg, k) IN
         /\ new \in Page
         /\ new.session \in Session /\ new.session.tok = k
         /\ new.clts = {} /\ new.active = None /\ new.request = None
         /\ new.grid = pg.grid /\ new.newest = pg.newest /\ new.moreOff = pg.moreOff
  <1> DEFINE s == [tok |-> k, nick |-> None, clt |-> None]
             r == ResetCollections(pg)
  <1>1. s \in Session /\ s.tok = k
    BY SessionFields
  <1>2. /\ r \in Page
        /\ r.clts = {} /\ r.active = None /\ r.request = None
        /\ r.grid = pg.grid /\ r.newest = pg.newest /\ r.moreOff = pg.moreOff
    BY ResetFields
  <1>3. StartSession(pg, k) = [r EXCEPT !.session = s]
    BY DEF StartSession
  <1> HIDE DEF s, r
  <1> QED BY <1>1, <1>2, <1>3 DEF Page

LEMMA NicknameFields ==
  ASSUME NEW pg \in Page, NEW n \in Account
  PROVE  LET new == SetSessionNickname(pg, n) IN
         SameList(pg, new) /\ new.session # None /\ (In(new) <=> In(pg))
  <1> DEFINE s == [Spread(pg) EXCEPT !.nick = n]
  <1>1. s \in Session /\ s.tok = Spread(pg).tok /\ s # None
    BY SpreadFields, SessionFields, Names
  <1> HIDE DEF s
  <1> DEFINE r == [pg EXCEPT !.session = s]
  <1>2. r \in Page /\ r.session = s
        /\ r.clts = pg.clts /\ r.active = pg.active /\ r.request = pg.request
        /\ r.newest = pg.newest /\ r.grid = pg.grid /\ r.moreOff = pg.moreOff
    BY <1>1 DEF Page
  <1>3. SetSessionNickname(pg, n) = r
    BY DEF SetSessionNickname, s
  <1> HIDE DEF r
  <1>4. In(r) <=> In(pg)
    BY <1>1, <1>2, SpreadFields DEF In
  <1> QED BY <1>1, <1>2, <1>3, <1>4 DEF SameList

LEMMA DialogFields ==
  ASSUME NEW pg \in Page, NEW n \in Account \cup {None}
  PROVE  LET new == [pg EXCEPT !.dialog = n] IN
         SameList(pg, new) /\ new.session = pg.session
  BY DEF Page, SameList

LEMMA SetActiveFields ==
  ASSUME NEW pg \in Page, NEW c \in Clt
  PROVE  LET new == SetActiveCollection(pg, c) IN
         /\ new \in Page
         /\ new.active = c /\ new.session # None /\ (In(new) <=> In(pg))
         /\ new.clts = pg.clts /\ new.request = pg.request
         /\ new.newest = pg.newest /\ new.grid = pg.grid /\ new.moreOff = pg.moreOff
  <1> DEFINE s == [Spread(pg) EXCEPT !.clt = c]
  <1>1. s \in Session /\ s.tok = Spread(pg).tok /\ s # None
    BY SpreadFields, SessionFields, Names
  <1> HIDE DEF s
  <1> DEFINE r == [pg EXCEPT !.active = c, !.session = s]
  <1>2. r \in Page /\ r.session = s
        /\ r.clts = pg.clts /\ r.active = c /\ r.request = pg.request
        /\ r.newest = pg.newest /\ r.grid = pg.grid /\ r.moreOff = pg.moreOff
    BY <1>1 DEF Page
  <1>3. SetActiveCollection(pg, c) = r
    BY DEF SetActiveCollection, s
  <1> HIDE DEF r
  <1>4. In(r) <=> In(pg)
    BY <1>1, <1>2, SpreadFields DEF In
  <1> QED BY <1>1, <1>2, <1>3, <1>4

\* A new load: it is the newest and the button is off.
LEMMA NewestFields ==
  ASSUME NEW pg \in Page, NEW t \in Task
  PROVE  LET new == [pg EXCEPT !.newest = t, !.moreOff = TRUE] IN
         /\ new \in Page
         /\ new.newest = t /\ new.moreOff = TRUE
         /\ new.session = pg.session /\ new.clts = pg.clts /\ new.active = pg.active
         /\ new.request = pg.request /\ new.grid = pg.grid
  BY DEF Page

LEMMA RequestFields ==
  ASSUME NEW pg \in Page, NEW q \in Loader \cup {"ok", None}
  PROVE  LET new == [pg EXCEPT !.request = q] IN
         /\ new \in Page
         /\ new.request = q
         /\ new.session = pg.session /\ new.clts = pg.clts /\ new.active = pg.active
         /\ new.newest = pg.newest /\ new.moreOff = pg.moreOff /\ new.grid = pg.grid
  BY DEF Page

-----------------------------------------------------------------------------
(* What a turn composes keeps the invariant.                               *)

Keeps(pg, ts, new, nts) ==
  /\ Sound(new, nts)
  /\ Listing(pg, ts) => Listing(new, nts)

LEMMA KeepsTwice ==
  ASSUME NEW pg, NEW ts, NEW mid, NEW mts, NEW new, NEW nts,
         Keeps(pg, ts, mid, mts), Keeps(mid, mts, new, nts)
  PROVE  Keeps(pg, ts, new, nts)
  BY DEF Keeps

LEMMA SameListKeeps ==
  ASSUME NEW pg, NEW ts, NEW new, Sound(pg, ts), SameList(pg, new), In(new) <=> In(pg)
  PROVE  Keeps(pg, ts, new, ts)
  BY DEF ActiveOK, Keeps, Sound, SameList, Loading, Listing, OneList, NewestOfActive, LastShown, OneShown

LEMMA EndedKeeps ==
  ASSUME NEW pg, NEW ts, NEW new, Sound(pg, ts), Ended(pg, new)
  PROVE  Keeps(pg, ts, new, ts)
  <1>1. ~In(new)
    BY DEF In, Ended
  <1>2. Listing(new, ts)
    BY <1>1 DEF Listing, OneList, NewestOfActive, LastShown, OneShown, Ended
  <1>3. Sound(new, ts)
    BY DEF ActiveOK, Sound, Loading, Ended
  <1> QED BY <1>2, <1>3 DEF Keeps

LEMMA SameKeeps ==
  ASSUME NEW pg, NEW ts, Sound(pg, ts)
  PROVE  Keeps(pg, ts, pg, ts)
  BY DEF Keeps

\* A 401 ends the session, any other answer leaves the page as it is.
LEMMA After401Keeps ==
  ASSUME NEW pg, NEW ts, Sound(pg, ts), NEW reply
  PROVE  /\ Keeps(pg, ts, After401(pg, reply), ts)
         /\ After401(pg, reply).newest = pg.newest
  <1>1. pg \in Page
    BY DEF Sound
  <1>2. Ended(pg, EndSession(pg))
    BY <1>1, EndSessionFields
  <1> QED BY <1>2, EndedKeeps, SameKeeps DEF After401, Ended

\* The end of a load: it is no longer the newest, and the button is back.
LoadEnds(pg, t, new) ==
  /\ new \in Page
  /\ new.newest = None /\ new.moreOff = FALSE
  /\ new.session = pg.session /\ new.clts = pg.clts /\ new.active = pg.active
  /\ new.request = pg.request

LEMMA LoadFailedFields ==
  ASSUME NEW pg \in Page, NEW t \in Task
  PROVE  LET new == LoadFailed(pg, t) IN
         IF pg.newest = t
           THEN LoadEnds(pg, t, new) /\ new.grid = IF tasks[t].append THEN pg.grid ELSE {}
           ELSE new = pg
  <1>1. CASE pg.newest = t
    <2> DEFINE g == IF tasks[t].append THEN pg.grid ELSE {}
    <2>1. g \in SUBSET Clt
      BY PageFields
    <2> DEFINE mid == [pg EXCEPT !.cursor = None, !.grid = IF tasks[t].append THEN @ ELSE {}]
               low == [pg EXCEPT !.cursor = None, !.grid = g]
    <2>2. mid = low
      OBVIOUS
    <2> HIDE DEF g
    <2>3. /\ low \in Page /\ low.grid = g
          /\ low.newest = t
          /\ low.session = pg.session /\ low.clts = pg.clts /\ low.active = pg.active
          /\ low.request = pg.request
      BY <1>1, <2>1 DEF Page
    <2>4. LoadFailed(pg, t) = LoadDone(low, t)
      BY <1>1, <2>2 DEF LoadFailed
    <2> HIDE DEF low, mid
    <2> DEFINE new == [low EXCEPT !.newest = None, !.moreOff = FALSE]
    <2>5. LoadDone(low, t) = new
      BY <2>3 DEF LoadDone
    <2>6. /\ new \in Page /\ new.newest = None /\ new.moreOff = FALSE /\ new.grid = low.grid
          /\ new.session = low.session /\ new.clts = low.clts /\ new.active = low.active
          /\ new.request = low.request
      BY <2>3 DEF Page
    <2> HIDE DEF new
    <2> QED BY <1>1, <2>3, <2>4, <2>5, <2>6 DEF LoadEnds, g
  <1>2. CASE pg.newest # t
    BY <1>2 DEF LoadFailed, LoadDone
  <1> QED BY <1>1, <1>2

LEMMA LoadShownFields ==
  ASSUME NEW pg \in Page, NEW t \in Task, NEW swatches \in SUBSET Clt,
         NEW cursor \in Clt \cup {None}
  PROVE  LET new == LoadShown(pg, t, swatches, cursor) IN
         IF pg.newest = t
           THEN /\ LoadEnds(pg, t, new)
                /\ new.grid = IF tasks[t].append THEN pg.grid \cup swatches ELSE swatches
           ELSE new = pg
  <1>1. CASE pg.newest = t
    <2> DEFINE g == IF tasks[t].append THEN pg.grid \cup swatches ELSE swatches
    <2>1. g \in SUBSET Clt
      BY PageFields
    <2> DEFINE low == [pg EXCEPT !.cursor = cursor, !.grid = g]
    <2>2. Shown(pg, t, swatches, cursor) = low
      BY DEF Shown
    <2> HIDE DEF g
    <2>3. /\ low \in Page /\ low.grid = g
          /\ low.newest = t
          /\ low.session = pg.session /\ low.clts = pg.clts /\ low.active = pg.active
          /\ low.request = pg.request
      BY <1>1, <2>1 DEF Page
    <2>4. LoadShown(pg, t, swatches, cursor) = LoadDone(low, t)
      BY <1>1, <2>2 DEF LoadShown
    <2> HIDE DEF low
    <2> DEFINE new == [low EXCEPT !.newest = None, !.moreOff = FALSE]
    <2>5. LoadDone(low, t) = new
      BY <2>3 DEF LoadDone
    <2>6. /\ new \in Page /\ new.newest = None /\ new.moreOff = FALSE /\ new.grid = low.grid
          /\ new.session = low.session /\ new.clts = low.clts /\ new.active = low.active
          /\ new.request = low.request
      BY <2>3 DEF Page
    <2> HIDE DEF new
    <2> QED BY <1>1, <2>3, <2>4, <2>5, <2>6 DEF LoadEnds, g
  <1>2. CASE pg.newest # t
    BY <1>2 DEF LoadShown, LoadDone
  <1> QED BY <1>1, <1>2

LEMMA LoadFailedKeeps ==
  ASSUME NEW pg, NEW t \in Task, Sound(pg, tasks)
  PROVE  LET new == LoadFailed(pg, t) IN Keeps(pg, tasks, new, tasks) /\ new.newest # t
  <1> DEFINE new == LoadFailed(pg, t)
  <1>1. pg \in Page
    BY DEF Sound
  <1>2. IF pg.newest = t
          THEN LoadEnds(pg, t, new) /\ new.grid = IF tasks[t].append THEN pg.grid ELSE {}
          ELSE new = pg
    BY <1>1, LoadFailedFields
  <1> SUFFICES Keeps(pg, tasks, new, tasks) /\ new.newest # t
    OBVIOUS
  <1> HIDE DEF new
  <1>3. CASE pg.newest # t
    BY <1>2, <1>3, SameKeeps
  <1>4. CASE pg.newest = t
    <2>1. In(new) <=> In(pg)
      BY <1>2, <1>4 DEF In, LoadEnds
    <2>2. Sound(new, tasks)
      BY <1>2, <1>4, Names DEF ActiveOK, Sound, Loading, LoadEnds
    <2>3. ASSUME Listing(pg, tasks)
          PROVE  Listing(new, tasks)
      <3>1. OneList(new, tasks)
        BY <1>2, <1>4, <2>1, <2>3 DEF Listing, OneList, LoadEnds
      <3>2. NewestOfActive(new, tasks)
        BY <1>2, <1>4, <2>1, <2>3, Names DEF Listing, NewestOfActive, LoadEnds
      <3>3. LastShown(new, tasks)
        BY <1>2, <1>4, Names DEF LastShown, LoadEnds
      <3>4. OneShown(new)
        BY <1>2, <1>4, <2>3 DEF Listing, OneShown
      <3> QED BY <3>1, <3>2, <3>3, <3>4 DEF Listing
    <2> QED BY <1>2, <1>4, <2>2, <2>3, Names DEF Keeps, LoadEnds
  <1> QED BY <1>3, <1>4

\* What a page of the listing shows is of the active collection, or goes to the
\* grid the end of its session emptied.
LEMMA LoadShownKeeps ==
  ASSUME NEW t \in Task, Sound(page, tasks),
         tasks[t].pc = "saved", tasks[t].reply = "ok",
         NEW swatches \in SUBSET {tasks[t].clt}, NEW cursor \in {tasks[t].clt, None}
  PROVE  LET new == LoadShown(page, t, swatches, cursor) IN
         Keeps(page, tasks, new, tasks) /\ new.newest # t
  <1> DEFINE new == LoadShown(page, t, swatches, cursor)
  <1>1. page \in Page /\ tasks[t].clt \in Clt /\ tasks[t].tok # None
    BY Names DEF Sound, TasksOK, AnswerOK
  <1>2. IF page.newest = t
          THEN /\ LoadEnds(page, t, new)
               /\ new.grid = IF tasks[t].append THEN page.grid \cup swatches ELSE swatches
          ELSE new = page
    BY <1>1, LoadShownFields
  <1> SUFFICES Keeps(page, tasks, new, tasks) /\ new.newest # t
    OBVIOUS
  <1> HIDE DEF new
  <1>3. CASE page.newest # t
    BY <1>2, <1>3, SameKeeps
  <1>4. CASE page.newest = t
    <2>1. In(new) <=> In(page)
      BY <1>2, <1>4 DEF In, LoadEnds
    <2>2. Sound(new, tasks)
      BY <1>2, <1>4, Names DEF ActiveOK, Sound, Loading, LoadEnds
    <2>3. ASSUME Listing(page, tasks)
          PROVE  Listing(new, tasks)
      <3>1. OneList(new, tasks)
        BY <1>2, <1>4, <2>1, <2>3 DEF Listing, OneList, LoadEnds
      <3>2. NewestOfActive(new, tasks)
        <4>1. In(page) => /\ tasks[t].clt = page.active
                          /\ tasks[t].append => page.grid \subseteq {page.active}
          BY <1>4, <2>3 DEF Listing, NewestOfActive
        <4>2. In(page) => new.grid \subseteq {page.active}
          BY <1>2, <1>4, <4>1
        <4> QED BY <1>2, <1>4, <2>1, <4>2, Names DEF NewestOfActive, LoadEnds
      <3>3. LastShown(new, tasks)
        BY <1>2, <1>4, Names DEF LastShown, LoadEnds
      <3>4. OneShown(new)
        <4>1. new.grid \subseteq {tasks[t].clt}
          BY <1>1, <1>2, <1>4, <2>3 DEF Listing, NewestOfActive, LastShown
        <4> QED BY <4>1 DEF OneShown
      <3> QED BY <3>1, <3>2, <3>3, <3>4 DEF Listing
    <2> QED BY <1>2, <1>4, <2>2, <2>3, Names DEF Keeps, LoadEnds
  <1> QED BY <1>3, <1>4

\* The cell of a deleted colour goes.
LEMMA CellGoneKeeps ==
  ASSUME NEW ts, NEW gone, Sound(page, ts)
  PROVE  LET new == [page EXCEPT !.grid = @ \ gone] IN
         Keeps(page, ts, new, ts) /\ new.newest = page.newest
  <1> DEFINE g == page.grid \ gone
             new == [page EXCEPT !.grid = g]
  <1>1. page \in Page /\ g \in SUBSET Clt /\ g \subseteq page.grid
    BY PageFields DEF Sound
  <1>2. [page EXCEPT !.grid = @ \ gone] = new
    OBVIOUS
  <1> HIDE DEF g
  <1>3. /\ new \in Page /\ new.grid = g
        /\ new.session = page.session /\ new.clts = page.clts /\ new.active = page.active
        /\ new.request = page.request /\ new.newest = page.newest /\ new.moreOff = page.moreOff
    BY <1>1 DEF Page
  <1> HIDE DEF new
  <1>4. In(new) <=> In(page)
    BY <1>3 DEF In
  <1>5. Sound(new, ts)
    BY <1>3 DEF ActiveOK, Sound, Loading
  <1>6. ASSUME Listing(page, ts) PROVE Listing(new, ts)
    BY <1>1, <1>3, <1>4, <1>6 DEF Listing, OneList, NewestOfActive, LastShown, OneShown
  <1> QED BY <1>2, <1>3, <1>5, <1>6 DEF Keeps

-----------------------------------------------------------------------------
(* What a turn does to its activation keeps the invariant.                 *)

LEMMA NotNewest ==
  ASSUME NEW pg, NEW ts, NEW t \in Task, Sound(pg, ts), ts[t].pc \notin LoadPc
  PROVE  pg.newest # t
  BY DEF Sound, Loading

\* Any activation but a load's, and no answer yet.
LEMMA ActivityKeeps ==
  ASSUME NEW pg, NEW ts, NEW t \in Task, NEW act \in Activation, Sound(pg, ts),
         pg.newest # t, act.pc \notin {"clts", "saved"}, act.reply # "ok"
  PROVE  Keeps(pg, ts, pg, [ts EXCEPT ![t] = act])
  <1> DEFINE nts == [ts EXCEPT ![t] = act]
  <1>1. /\ nts \in [Slot -> Activation] /\ nts[t] = act
        /\ \A s \in Slot : s # t => nts[s] = ts[s]
    BY Names DEF Sound, TasksOK
  <1> HIDE DEF nts
  <1>2. AnswerOK(act)
    BY DEF AnswerOK
  <1>3. TasksOK(nts)
    BY <1>1, <1>2, Names DEF Sound, TasksOK
  <1>4. Loading(pg, nts)
    BY <1>1, Names DEF Sound, Loading
  <1>5. ASSUME Listing(pg, ts)
        PROVE  Listing(pg, nts)
    <2>1. OneList(pg, nts)
      BY <1>1, <1>5, Names DEF Listing, OneList
    <2>2. NewestOfActive(pg, nts)
      BY <1>1, <1>5, Names DEF Listing, NewestOfActive
    <2>3. LastShown(pg, nts)
      BY <1>1, <1>5, Names DEF Listing, LastShown
    <2> QED BY <1>5, <2>1, <2>2, <2>3 DEF Listing
  <1>6. Keeps(pg, ts, pg, nts)
    BY <1>3, <1>4, <1>5 DEF Keeps, Sound
  <1> QED BY <1>6 DEF nts

LEMMA EndKeeps ==
  ASSUME NEW pg, NEW t \in Task, Sound(pg, tasks), pg.newest # t, End(t, pg)
  PROVE  Keeps(pg, tasks, page', tasks')
  BY ActivityKeeps, IdleFields, Names DEF End

LEMMA AskKeeps ==
  ASSUME NEW t \in Task, NEW pc \in CallPc, pc \notin {"clts", "saved"},
         Sound(page, tasks), page.newest # t, Ask(t, pc)
  PROVE  Keeps(page, tasks, page', tasks')
  <1> DEFINE act == Call(Idle, pc, page)
  <1>1. act \in Activation /\ act.pc = pc /\ act.reply # "ok"
    BY CallFields, IdleFields, Names DEF Sent, Sound
  <1>2. page' = page /\ tasks' = [tasks EXCEPT ![t] = act]
    BY DEF Ask
  <1> HIDE DEF act
  <1> QED BY <1>1, <1>2, ActivityKeeps

\* The list that is there or asked for, or a new request for it.
Ensured(t, act, pg) ==
  /\ page' \in Page
  /\ page'.session = pg.session /\ page'.clts = pg.clts /\ page'.active = pg.active
  /\ page'.newest = pg.newest /\ page'.moreOff = pg.moreOff /\ page'.grid = pg.grid
  /\ tasks' \in [Slot -> Activation]
  /\ tasks'[t].pc = act.pc /\ tasks'[t].reply = act.reply /\ tasks'[t].append = act.append
  /\ \/ /\ pg.request # None /\ page'.request = pg.request
        /\ \A s \in Slot : s # t => tasks'[s] = tasks[s]
     \/ /\ pg.request = None
        /\ \E q \in Loader :
             /\ page'.request = q
             /\ tasks'[q].pc = "clts" /\ tasks'[q].reply = None
             /\ \A s \in Slot : s # t /\ s # q => tasks'[s] = tasks[s]

LEMMA EnsureFields ==
  ASSUME NEW pg \in Page, NEW t \in Task, NEW act \in Activation,
         tasks \in [Slot -> Activation], EnsureCollections(t, act, pg)
  PROVE  Ensured(t, act, pg)
  <1>1. \A on \in Loader \cup {"ok", None} :
          LET new == [act EXCEPT !.on = on] IN
          /\ new \in Activation
          /\ new.pc = act.pc /\ new.reply = act.reply /\ new.append = act.append
    BY DEF Activation
  <1>2. CASE pg.request # None
    <2> DEFINE new == [act EXCEPT !.on = pg.request]
    <2>1. /\ new \in Activation
          /\ new.pc = act.pc /\ new.reply = act.reply /\ new.append = act.append
      BY <1>1, PageFields
    <2>2. page' = pg /\ tasks' = [tasks EXCEPT ![t] = new]
      BY <1>2 DEF EnsureCollections
    <2> HIDE DEF new
    <2> QED BY <1>2, <2>1, <2>2, Names DEF Ensured
  <1>3. CASE pg.request = None
    <2>1. PICK q \in Loader :
            /\ page' = [pg EXCEPT !.request = q]
            /\ tasks' = [tasks EXCEPT ![t] = [act EXCEPT !.on = q], ![q] = Call(Idle, "clts", pg)]
      BY <1>3 DEF EnsureCollections
    <2> DEFINE new == [act EXCEPT !.on = q]
               call == Call(Idle, "clts", pg)
    <2>2. /\ new \in Activation
          /\ new.pc = act.pc /\ new.reply = act.reply /\ new.append = act.append
      BY <1>1
    <2>3. call \in Activation /\ call.pc = "clts" /\ call.reply = None
      BY CallFields, IdleFields DEF Sent, CallPc
    <2>4. tasks' = [tasks EXCEPT ![t] = new, ![q] = call]
      BY <2>1
    <2> HIDE DEF new, call
    <2>5. /\ tasks' \in [Slot -> Activation]
          /\ tasks'[t] = new /\ tasks'[q] = call
          /\ \A s \in Slot : s # t /\ s # q => tasks'[s] = tasks[s]
      BY <2>2, <2>3, <2>4, Names
    <2>6. /\ page' \in Page /\ page'.request = q
          /\ page'.session = pg.session /\ page'.clts = pg.clts /\ page'.active = pg.active
          /\ page'.newest = pg.newest /\ page'.moreOff = pg.moreOff /\ page'.grid = pg.grid
      BY <2>1, RequestFields
    <2> QED BY <1>3, <2>2, <2>3, <2>5, <2>6 DEF Ensured
  <1> QED BY <1>2, <1>3

\* What both uses of the list need of it.
LEMMA EnsuredList ==
  ASSUME NEW pg, NEW t \in Task, NEW act \in Activation,
         pg \in Page, ActiveOK(pg), TasksOK(tasks),
         Ensured(t, act, pg), act.pc \in AwaitPc, act.reply # "ok"
  PROVE  /\ page' \in Page /\ ActiveOK(page')
         /\ TasksOK(tasks')
         /\ In(page') <=> In(pg)
         /\ \A u \in Task : u # t => tasks'[u] = tasks[u]
         /\ OneList(pg, tasks) => OneList(page', tasks')
  <1>1. \A u \in Task : u # t => tasks'[u] = tasks[u]
    BY Names DEF Ensured
  <1>2. \A s \in Slot : AnswerOK(tasks'[s])
    <2>1. AnswerOK(tasks'[t])
      BY DEF Ensured, AnswerOK, AwaitPc
    <2>2. \A s \in Slot : s # t => tasks'[s] = tasks[s]
                                   \/ (tasks'[s].pc = "clts" /\ tasks'[s].reply = None)
      BY DEF Ensured
    <2>3. ASSUME NEW s \in Slot
          PROVE  AnswerOK(tasks'[s])
      <3>1. CASE tasks'[s].pc = "clts" /\ tasks'[s].reply = None
        BY <3>1, Names DEF AnswerOK
      <3> QED BY <2>1, <2>2, <3>1 DEF TasksOK
    <2> QED BY <2>3
  <1>3. TasksOK(tasks')
    <2>1. \A q \in Loader : tasks'[q].pc \in {"idle", "clts"}
      BY Names DEF Ensured, TasksOK
    <2>2. \A u \in Task : tasks'[u].pc # "clts"
      BY <1>1 DEF Ensured, TasksOK, AwaitPc
    <2>3. tasks' \in [Slot -> Activation]
      BY DEF Ensured
    <2> QED BY <1>2, <2>1, <2>2, <2>3 DEF TasksOK
  <1>4. In(page') <=> In(pg)
    BY DEF In, Ensured
  <1>5. ASSUME OneList(pg, tasks), In(pg)
        PROVE  /\ \A q \in Loader : tasks'[q].pc = "clts" => page'.request = q
               /\ page'.active # None => page'.request = "ok"
               /\ \A u \in Task : tasks'[u].pc = "saved" => page'.active # None
    <2>1. tasks'[t].pc # "saved" /\ page'.active = pg.active
      BY DEF Ensured, AwaitPc
    <2>2. CASE pg.request # None /\ page'.request = pg.request
               /\ \A s \in Slot : s # t => tasks'[s] = tasks[s]
      BY <1>5, <2>1, <2>2, Names DEF OneList
    <2>3. CASE pg.request = None /\ \E q \in Loader :
                 /\ page'.request = q
                 /\ \A s \in Slot : s # t /\ s # q => tasks'[s] = tasks[s]
      <3>1. pg.active = None /\ \A q \in Loader : tasks[q].pc # "clts"
        BY <1>5, <2>3, Names DEF OneList
      <3> QED BY <1>1, <1>5, <2>1, <2>3, <3>1, Names DEF OneList
    <2> QED BY <2>2, <2>3 DEF Ensured
  <1>6. OneList(pg, tasks) => OneList(page', tasks')
    BY <1>4, <1>5 DEF OneList
  <1>7. page' \in Page /\ ActiveOK(page')
    BY DEF ActiveOK, Ensured
  <1> QED BY <1>1, <1>3, <1>4, <1>6, <1>7

\* An add or a delete of a colour waits for the list.
LEMMA EnsureKeeps ==
  ASSUME NEW t \in Task, NEW act \in Activation, Sound(page, tasks), page.newest # t,
         act.pc \in {"awaitAdd", "awaitDelete"}, act.reply = None,
         EnsureCollections(t, act, page)
  PROVE  Keeps(page, tasks, page', tasks')
  <1>1. Ensured(t, act, page)
    BY EnsureFields DEF Sound, TasksOK
  <1>2. /\ page' \in Page /\ ActiveOK(page')
        /\ TasksOK(tasks')
        /\ In(page') <=> In(page)
        /\ \A u \in Task : u # t => tasks'[u] = tasks[u]
        /\ OneList(page, tasks) => OneList(page', tasks')
    BY <1>1, EnsuredList, Names DEF Sound, AwaitPc
  <1>3. /\ page'.newest = page.newest /\ page'.moreOff = page.moreOff
        /\ page'.active = page.active /\ page'.grid = page.grid
    BY <1>1 DEF Ensured
  <1>4. Loading(page', tasks')
    BY <1>2, <1>3 DEF Sound, Loading
  <1>5. ASSUME Listing(page, tasks)
        PROVE  Listing(page', tasks')
    <2>1. NewestOfActive(page', tasks') /\ LastShown(page', tasks') /\ OneShown(page')
      BY <1>2, <1>3, <1>5 DEF Listing, NewestOfActive, LastShown, OneShown
    <2> QED BY <1>2, <1>5, <2>1 DEF Listing
  <1> QED BY <1>2, <1>4, <1>5 DEF Keeps, Sound

\* A load becomes the newest, whatever was out before.  One that appends must
\* find the active collection in the grid.
LEMMA LoadKeeps ==
  ASSUME NEW pg, NEW t \in Task, NEW append \in BOOLEAN,
         pg \in Page, ActiveOK(pg), TasksOK(tasks),
         pg.session # None, LoadSaved(t, append, pg)
  PROVE  /\ Sound(page', tasks')
         /\ OneList(pg, tasks) /\ OneShown(pg)
            /\ (In(pg) /\ append => pg.grid \subseteq {pg.active})
              => Listing(page', tasks')
  <1> DEFINE mid == [pg EXCEPT !.newest = t, !.moreOff = TRUE]
             act == [Idle EXCEPT !.pc = "awaitSaved", !.append = append]
  <1>1. /\ mid \in Page
        /\ mid.newest = t /\ mid.moreOff = TRUE
        /\ mid.session = pg.session /\ mid.clts = pg.clts /\ mid.active = pg.active
        /\ mid.request = pg.request /\ mid.grid = pg.grid
    BY NewestFields
  <1>2. act \in Activation /\ act.pc = "awaitSaved" /\ act.reply = None /\ act.append = append
    BY DEF Idle, Activation, AwaitPc
  <1>3. EnsureCollections(t, act, mid)
    BY DEF LoadSaved
  <1> HIDE DEF mid, act
  <1>4. Ensured(t, act, mid)
    BY <1>1, <1>2, <1>3, EnsureFields DEF TasksOK
  <1>5. In(mid) <=> In(pg)
    BY <1>1 DEF In
  <1>6. /\ page' \in Page /\ ActiveOK(page')
        /\ TasksOK(tasks')
        /\ In(page') <=> In(mid)
        /\ \A u \in Task : u # t => tasks'[u] = tasks[u]
        /\ OneList(mid, tasks) => OneList(page', tasks')
    BY <1>1, <1>2, <1>4, EnsuredList, Names DEF ActiveOK, AwaitPc
  <1>7. /\ page'.newest = t /\ page'.moreOff = TRUE
        /\ page'.active = pg.active /\ page'.grid = pg.grid
        /\ tasks'[t].pc = "awaitSaved" /\ tasks'[t].append = append
    BY <1>1, <1>2, <1>4 DEF Ensured
  <1>8. Sound(page', tasks')
    BY <1>6, <1>7, Names DEF Sound, Loading, LoadPc
  <1>9. ASSUME OneList(pg, tasks), OneShown(pg),
               In(pg) /\ append => pg.grid \subseteq {pg.active}
        PROVE  Listing(page', tasks')
    <2>1. OneList(mid, tasks)
      BY <1>1, <1>5, <1>9 DEF OneList
    <2>2. NewestOfActive(page', tasks')
      BY <1>5, <1>6, <1>7, <1>9, Names DEF NewestOfActive
    <2>3. LastShown(page', tasks') /\ OneShown(page')
      BY <1>7, <1>9 DEF LastShown, OneShown
    <2> QED BY <1>6, <2>1, <2>2, <2>3 DEF Listing
  <1> QED BY <1>8, <1>9

-----------------------------------------------------------------------------
(* The turns after an answer.                                              *)

\* The request that goes out once the list is there.
LEMMA ResumeCall ==
  ASSUME NEW t \in Task, NEW pc \in CallPc, NEW act \in Activation, Sound(page, tasks),
         page.active # None, page' = page,
         tasks[t].pc \in AwaitPc, tasks' = [tasks EXCEPT ![t] = act],
         pc \in {"saved", "add", "delete"},
         pc = "saved" <=> tasks[t].pc = "awaitSaved",
         act.pc = pc, act.reply = None, act.tok = Spread(page).tok,
         act.append = tasks[t].append, act.clt = page.active
  PROVE  Keeps(page, tasks, page', tasks')
  <1>1. /\ tasks' \in [Slot -> Activation] /\ tasks'[t] = act
        /\ \A s \in Slot : s # t => tasks'[s] = tasks[s]
    BY Names DEF Sound, TasksOK
  <1>2. page \in Page /\ page.active \in Clt
    BY PageFields DEF Sound
  <1>3. AnswerOK(act)
    BY <1>2, Names DEF AnswerOK
  <1>4. TasksOK(tasks')
    BY <1>1, <1>3, Names DEF Sound, TasksOK
  <1>5. Loading(page, tasks')
    BY <1>1, Names DEF Sound, Loading, LoadPc, AwaitPc
  <1>6. ASSUME Listing(page, tasks)
        PROVE  Listing(page, tasks')
    <2>1. OneList(page, tasks')
      BY <1>1, <1>6, Names DEF Listing, OneList
    <2>2. NewestOfActive(page, tasks')
      BY <1>1, <1>6, Names DEF Listing, NewestOfActive
    <2>3. ~In(page) => act.tok = None
      BY <1>2, SpreadFields
    <2>4. LastShown(page, tasks')
      BY <1>1, <1>6, <2>3, Names DEF Listing, LastShown
    <2> QED BY <1>6, <2>1, <2>2, <2>4 DEF Listing
  <1> QED BY <1>4, <1>5, <1>6 DEF Keeps, Sound

LEMMA ResumeKeeps ==
  ASSUME NEW t \in Task, Sound(page, tasks), Resume(t)
  PROVE  Keeps(page, tasks, page', tasks')
  <1> DEFINE found == tasks[t].on = "ok" /\ page.active # None
             out == [awaitSaved |-> "saved", awaitAdd |-> "add", awaitDelete |-> "delete"]
  <1>1. tasks[t].pc \in AwaitPc /\ tasks[t] \in Activation /\ page \in Page
    BY Names DEF Resume, Ready, Sound, TasksOK
  <1>2. \/ /\ found
           /\ page' = page
           /\ tasks' = [tasks EXCEPT ![t] =
                          [Call(@, out[tasks[t].pc], page) EXCEPT !.clt = page.active]]
        \/ /\ ~found
           /\ End(t, IF tasks[t].pc = "awaitSaved" THEN LoadFailed(page, t) ELSE page)
    BY DEF Resume
  <1>3. CASE found
    <2> DEFINE pc == out[tasks[t].pc]
               sent == Call(tasks[t], pc, page)
               act == [sent EXCEPT !.clt = page.active]
    <2>1. /\ pc \in CallPc /\ pc \in {"saved", "add", "delete"}
          /\ pc = "saved" <=> tasks[t].pc = "awaitSaved"
      BY <1>1 DEF AwaitPc, CallPc
    <2>2. page' = page /\ tasks' = [tasks EXCEPT ![t] = act]
      BY <1>2, <1>3, <1>1, Names DEF Sound, TasksOK
    <2> HIDE DEF pc
    <2>3. Sent(sent, tasks[t], pc, page)
      BY <1>1, <2>1, CallFields
    <2> HIDE DEF sent
    <2>4. page.active \in Clt
      BY <1>1, <1>3, PageFields
    <2>5. /\ act \in Activation /\ act.clt = page.active
          /\ act.pc = sent.pc /\ act.reply = sent.reply
          /\ act.tok = sent.tok /\ act.append = sent.append
      BY <2>3, <2>4 DEF Sent, Activation
    <2> HIDE DEF act
    <2> QED BY <1>1, <1>3, <2>1, <2>2, <2>3, <2>5, ResumeCall DEF Sent
  <1>4. CASE ~found
    <2>1. CASE tasks[t].pc = "awaitSaved"
      <3> DEFINE new == LoadFailed(page, t)
      <3>1. Keeps(page, tasks, new, tasks) /\ new.newest # t
        BY LoadFailedKeeps
      <3>2. End(t, new)
        BY <1>2, <1>4, <2>1
      <3> HIDE DEF new
      <3>3. Keeps(new, tasks, page', tasks')
        BY <3>1, <3>2, EndKeeps DEF Keeps
      <3> QED BY <3>1, <3>3, KeepsTwice
    <2>2. CASE tasks[t].pc # "awaitSaved"
      <3>1. End(t, page) /\ page.newest # t
        BY <1>1, <1>2, <1>4, <2>2, NotNewest DEF AwaitPc, LoadPc
      <3> QED BY <3>1, EndKeeps
    <2> QED BY <2>1, <2>2
  <1> QED BY <1>3, <1>4

\* A turn that ends its activation on a page that keeps the invariant.
LEMMA EndOnKeeps ==
  ASSUME NEW t \in Task, NEW new, Keeps(page, tasks, new, tasks), new.newest # t, End(t, new)
  PROVE  Keeps(page, tasks, page', tasks')
  <1>1. Keeps(new, tasks, page', tasks')
    BY EndKeeps DEF Keeps
  <1> QED BY <1>1, KeepsTwice

\* Nothing but the answer's effect on the session.
LEMMA AnswerPageKeeps ==
  ASSUME NEW t \in Task, Sound(page, tasks), page.newest # t, End(t, AnswerPage(t))
  PROVE  Keeps(page, tasks, page', tasks')
  <1> DEFINE new == AnswerPage(t)
  <1>1. Keeps(page, tasks, new, tasks) /\ new.newest # t
    BY After401Keeps DEF AnswerPage
  <1>2. End(t, new)
    OBVIOUS
  <1> HIDE DEF new
  <1> QED BY <1>1, <1>2, EndOnKeeps

LEMMA LoginRefusedKeeps ==
  ASSUME NEW t \in Task, Sound(page, tasks), LoginToken(t), tasks[t].reply # "ok"
  PROVE  Keeps(page, tasks, page', tasks')
  BY NotNewest, AnswerPageKeeps DEF LoginToken, Answered, LoadPc

LEMMA LoginMeKeeps ==
  ASSUME NEW t \in Task, Sound(page, tasks), LoginMe(t)
  PROVE  Keeps(page, tasks, page', tasks')
  <1>1. tasks[t].pc = "loginMe" /\ page.newest # t
    BY NotNewest DEF LoginMe, Answered, LoadPc
  <1>2. CASE tasks[t].reply # "ok"
    BY <1>1, <1>2, AnswerPageKeeps DEF LoginMe
  <1>3. CASE tasks[t].reply = "ok"
    <2> DEFINE new == SetSessionNickname(page, tasks[t].got)
    <2>1. tasks[t].got \in Account /\ page \in Page
      BY <1>1, <1>3, Names DEF Sound, TasksOK, AnswerOK
    <2>2. SameList(page, new) /\ new.session # None /\ (In(new) <=> In(page))
      BY <2>1, NicknameFields
    <2>3. LoadSaved(t, FALSE, new)
      BY <1>3 DEF LoginMe
    <2> HIDE DEF new
    <2>4. Keeps(page, tasks, new, tasks)
      BY <2>2, SameListKeeps
    <2>5. /\ Sound(page', tasks')
          /\ OneList(new, tasks) /\ OneShown(new) => Listing(page', tasks')
      BY <2>2, <2>3, <2>4, LoadKeeps DEF Keeps, Sound
    <2> QED BY <2>4, <2>5 DEF Keeps, Listing
  <1> QED BY <1>2, <1>3

LEMMA LogoutKeeps ==
  ASSUME NEW t \in Task, Sound(page, tasks), LogoutDone(t)
  PROVE  Keeps(page, tasks, page', tasks')
  <1> DEFINE new == EndSession(page)
  <1>1. page.newest # t
    BY NotNewest DEF LogoutDone, Answered, LoadPc
  <1>2. Ended(page, new) /\ End(t, new)
    BY EndSessionFields DEF LogoutDone, Sound
  <1> HIDE DEF new
  <1> QED BY <1>1, <1>2, EndedKeeps, EndOnKeeps DEF Ended

LEMMA NicknameKeeps ==
  ASSUME NEW t \in Task, Sound(page, tasks), NicknameFetched(t)
  PROVE  Keeps(page, tasks, page', tasks')
  <1>1. tasks[t].pc = "openDelete" /\ page.newest # t
    BY NotNewest DEF NicknameFetched, Answered, LoadPc
  <1>2. CASE tasks[t].reply # "ok"
    BY <1>1, <1>2, AnswerPageKeeps DEF NicknameFetched
  <1>3. CASE tasks[t].reply = "ok"
    <2> DEFINE nick == tasks[t].got
               mid == SetSessionNickname(page, nick)
               new == OpenDialog(mid, nick)
    <2>1. nick \in Account /\ page \in Page
      BY <1>1, <1>3, Names DEF Sound, TasksOK, AnswerOK
    <2>2. SameList(page, mid) /\ (In(mid) <=> In(page))
      BY <2>1, NicknameFields
    <2>3. End(t, new)
      BY <1>3 DEF NicknameFetched
    <2> HIDE DEF mid, nick
    <2>4. SameList(mid, new) /\ new.session = mid.session
      BY <2>1, <2>2, DialogFields DEF OpenDialog, SameList
    <2> HIDE DEF new
    <2>5. SameList(page, new) /\ (In(new) <=> In(page))
      BY <2>2, <2>4 DEF SameList, In
    <2> QED BY <1>1, <2>3, <2>5, SameListKeeps, EndOnKeeps DEF SameList
  <1> QED BY <1>2, <1>3

LEMMA DeleteAccountKeeps ==
  ASSUME NEW t \in Task, Sound(page, tasks), DeleteAccountDone(t)
  PROVE  Keeps(page, tasks, page', tasks')
  <1> DEFINE pg == AnswerPage(t)
  <1>1. page.newest # t
    BY NotNewest DEF DeleteAccountDone, Answered, LoadPc
  <1>2. End(t, IF tasks[t].reply = "ok" THEN [EndSession(page) EXCEPT !.dialog = None]
               ELSE IF pg.session = None THEN [pg EXCEPT !.dialog = None] ELSE pg)
    BY DEF DeleteAccountDone
  <1>3. Keeps(page, tasks, pg, tasks) /\ pg.newest # t
    BY <1>1, After401Keeps DEF AnswerPage
  <1> HIDE DEF pg
  <1>4. CASE tasks[t].reply = "ok"
    <2> DEFINE mid == EndSession(page)
               new == [mid EXCEPT !.dialog = None]
    <2>1. Ended(page, mid)
      BY EndSessionFields DEF Sound
    <2> HIDE DEF mid
    <2>2. SameList(mid, new) /\ new.session = mid.session
      BY <2>1, DialogFields DEF Ended
    <2>3. End(t, new)
      BY <1>2, <1>4 DEF mid
    <2> HIDE DEF new
    <2>4. Ended(page, new)
      BY <2>1, <2>2 DEF Ended, SameList
    <2> QED BY <1>1, <2>3, <2>4, EndedKeeps, EndOnKeeps DEF Ended
  <1>5. CASE tasks[t].reply # "ok" /\ pg.session = None
    <2> DEFINE new == [pg EXCEPT !.dialog = None]
    <2>1. SameList(pg, new) /\ new.session = pg.session
      BY <1>3, DialogFields DEF Keeps, Sound
    <2>2. End(t, new)
      BY <1>2, <1>5
    <2> HIDE DEF new
    <2>3. Keeps(pg, tasks, new, tasks)
      BY <1>3, <2>1, SameListKeeps DEF Keeps, In
    <2> QED BY <1>3, <2>1, <2>2, <2>3, KeepsTwice, EndOnKeeps DEF SameList
  <1>6. CASE tasks[t].reply # "ok" /\ pg.session # None
    BY <1>2, <1>3, <1>6, EndOnKeeps
  <1> QED BY <1>4, <1>5, <1>6

LEMMA SavedKeeps ==
  ASSUME NEW t \in Task, Sound(page, tasks), SavedLoaded(t)
  PROVE  Keeps(page, tasks, page', tasks')
  <1>1. CASE tasks[t].reply = "ok"
    <2>1. PICK swatches \in SUBSET {tasks[t].clt}, cursor \in {tasks[t].clt, None} :
            End(t, LoadShown(page, t, swatches, cursor))
      BY <1>1 DEF SavedLoaded
    <2> DEFINE new == LoadShown(page, t, swatches, cursor)
    <2>2. Keeps(page, tasks, new, tasks) /\ new.newest # t
      BY <1>1, LoadShownKeeps DEF SavedLoaded, Answered
    <2>3. End(t, new)
      BY <2>1
    <2> HIDE DEF new
    <2> QED BY <2>2, <2>3, EndOnKeeps
  <1>2. CASE tasks[t].reply # "ok"
    <2> DEFINE mid == AnswerPage(t)
               new == LoadFailed(mid, t)
    <2>1. Keeps(page, tasks, mid, tasks)
      BY After401Keeps DEF AnswerPage
    <2>2. End(t, new)
      BY <1>2 DEF SavedLoaded
    <2> HIDE DEF mid
    <2>3. Keeps(mid, tasks, new, tasks) /\ new.newest # t
      BY <2>1, LoadFailedKeeps DEF Keeps
    <2> HIDE DEF new
    <2> QED BY <2>1, <2>2, <2>3, KeepsTwice, EndOnKeeps
  <1> QED BY <1>1, <1>2

LEMMA ColorAddedKeeps ==
  ASSUME NEW t \in Task, Sound(page, tasks), ColorAdded(t)
  PROVE  Keeps(page, tasks, page', tasks')
  <1>1. page.newest # t
    BY NotNewest DEF ColorAdded, Answered, LoadPc
  <1>2. CASE tasks[t].reply # "ok"
    BY <1>1, <1>2, AnswerPageKeeps DEF ColorAdded
  <1>3. CASE tasks[t].reply = "ok" /\ page.session = None
    BY <1>1, <1>3, EndKeeps DEF ColorAdded, LoadSaved
  <1>4. CASE tasks[t].reply = "ok" /\ page.session # None
    <2>1. LoadSaved(t, FALSE, page)
      BY <1>4 DEF ColorAdded
    <2>2. /\ Sound(page', tasks')
          /\ OneList(page, tasks) /\ OneShown(page) => Listing(page', tasks')
      BY <1>4, <2>1, LoadKeeps DEF Sound
    <2> QED BY <2>2 DEF Keeps, Listing
  <1> QED BY <1>2, <1>3, <1>4

LEMMA ColorDeletedKeeps ==
  ASSUME NEW t \in Task, Sound(page, tasks), ColorDeleted(t)
  PROVE  Keeps(page, tasks, page', tasks')
  <1>1. page.newest # t
    BY NotNewest DEF ColorDeleted, Answered, LoadPc
  <1>2. CASE tasks[t].reply # "ok"
    BY <1>1, <1>2, AnswerPageKeeps DEF ColorDeleted
  <1>3. CASE tasks[t].reply = "ok"
    <2>1. PICK gone \in SUBSET {tasks[t].cell} : End(t, [page EXCEPT !.grid = @ \ gone])
      BY <1>3 DEF ColorDeleted
    <2> DEFINE new == [page EXCEPT !.grid = @ \ gone]
    <2>2. Keeps(page, tasks, new, tasks) /\ new.newest # t
      BY <1>1, CellGoneKeeps
    <2>3. End(t, new)
      BY <2>1
    <2> HIDE DEF new
    <2> QED BY <2>2, <2>3, EndOnKeeps
  <1> QED BY <1>2, <1>3

\* The answer to a list request: whoever awaits it learns how it ended.
Informed(q, ts, nts) ==
  /\ nts \in [Slot -> Activation]
  /\ nts[q].pc = "idle"
  /\ \A s \in Slot : s # q =>
       /\ nts[s].pc = ts[s].pc /\ nts[s].reply = ts[s].reply /\ nts[s].got = ts[s].got
       /\ nts[s].append = ts[s].append /\ nts[s].clt = ts[s].clt /\ nts[s].tok = ts[s].tok

LEMMA InformedFields ==
  ASSUME NEW q \in Loader, tasks \in [Slot -> Activation], CollectionsLoaded(q)
  PROVE  Informed(q, tasks, tasks')
  <1> DEFINE end == IF tasks[q].reply = "ok" THEN "ok" ELSE "failed"
  <1>1. \A act \in Activation :
          LET new == [act EXCEPT !.on = end] IN
          /\ new \in Activation
          /\ new.pc = act.pc /\ new.reply = act.reply /\ new.got = act.got
          /\ new.append = act.append /\ new.clt = act.clt /\ new.tok = act.tok
    BY DEF Activation
  <1>2. tasks' = [s \in Slot |-> IF s = q THEN Idle
                                 ELSE IF tasks[s].on = q THEN [tasks[s] EXCEPT !.on = end]
                                 ELSE tasks[s]]
    BY DEF CollectionsLoaded
  <1> HIDE DEF end
  <1>3. \A s \in Slot : s # q =>
          /\ tasks'[s] \in Activation
          /\ tasks'[s].pc = tasks[s].pc /\ tasks'[s].reply = tasks[s].reply
          /\ tasks'[s].got = tasks[s].got /\ tasks'[s].append = tasks[s].append
          /\ tasks'[s].clt = tasks[s].clt /\ tasks'[s].tok = tasks[s].tok
    BY <1>1, <1>2
  <1>4. tasks'[q] = Idle
    BY <1>2, Names
  <1>5. tasks' \in [Slot -> Activation]
    BY <1>2, <1>3, <1>4, IdleFields
  <1> QED BY <1>3, <1>4, <1>5, IdleFields DEF Informed

LEMMA InformedTasks ==
  ASSUME NEW q \in Loader, NEW ts, NEW nts, TasksOK(ts), Informed(q, ts, nts)
  PROVE  TasksOK(nts)
  <1>1. \A s \in Slot : AnswerOK(nts[s])
    BY DEF Informed, TasksOK, AnswerOK
  <1>2. \A p \in Loader : nts[p].pc \in {"idle", "clts"}
    BY Names DEF Informed, TasksOK
  <1>3. \A t \in Task : nts[t].pc # "clts"
    BY Names DEF Informed, TasksOK
  <1> QED BY <1>1, <1>2, <1>3 DEF TasksOK, Informed

\* Within a login it is the only request, and what it brings is the first list.
LEMMA InformedKeeps ==
  ASSUME NEW q \in Loader, NEW pg, NEW new, NEW nts,
         Sound(pg, tasks), tasks[q].pc = "clts", Informed(q, tasks, nts),
         new \in Page, ActiveOK(new), new.session = pg.session,
         new.newest = pg.newest, new.moreOff = pg.moreOff, new.grid = pg.grid,
         \/ new.active = pg.active
         \/ new.active # None /\ new.request = IF pg.request = q THEN "ok" ELSE pg.request
  PROVE  Keeps(pg, tasks, new, nts)
  <1>1. TasksOK(nts)
    BY InformedTasks DEF Sound
  <1>2. Loading(new, nts)
    BY Names DEF Sound, Loading, Informed
  <1>3. In(new) <=> In(pg)
    BY DEF In
  <1>4. ASSUME Listing(pg, tasks)
        PROVE  Listing(new, nts)
    <2>1. In(pg) => /\ pg.request = q /\ pg.active = None /\ pg.request # "ok"
                    /\ \A p \in Loader : p # q => tasks[p].pc # "clts"
                    /\ \A t \in Task : tasks[t].pc # "saved"
      BY <1>4, Names DEF Listing, OneList
    <2>2. OneList(new, nts)
      BY <1>3, <2>1, Names DEF OneList, Informed
    <2>3. pg.grid \in SUBSET Clt
      BY PageFields DEF Sound
    <2>4. In(pg) => /\ \A t \in Task : nts[t].pc # "saved"
                    /\ pg.newest = None => pg.grid = {}
                    /\ \A t \in Task : pg.newest = t /\ nts[t].append => pg.grid = {}
      BY <1>4, <2>1, <2>3, Names DEF Listing, NewestOfActive, Informed
    <2>5. NewestOfActive(new, nts)
      BY <1>3, <2>4 DEF NewestOfActive
    <2>6. LastShown(new, nts)
      BY <1>3, <1>4, Names DEF Listing, LastShown, Informed
    <2>7. OneShown(new)
      BY <1>4 DEF Listing, OneShown
    <2> QED BY <2>2, <2>5, <2>6, <2>7 DEF Listing
  <1> QED BY <1>1, <1>2, <1>4 DEF Keeps, Sound

LEMMA CollectionsKeep ==
  ASSUME NEW q \in Loader, Sound(page, tasks), CollectionsLoaded(q)
  PROVE  Keeps(page, tasks, page', tasks')
  <1>1. Informed(q, tasks, tasks') /\ tasks[q].pc = "clts"
    BY InformedFields DEF CollectionsLoaded, Answered, Sound, TasksOK
  <1>2. CASE tasks[q].reply = "ok"
    <2> DEFINE a == tasks[q].got
               c == PickCollection(page, a)
               request == IF page.request = q THEN "ok" ELSE page.request
    <2>1. a \in Account /\ page \in Page
      BY <1>1, <1>2, Names DEF Sound, TasksOK, AnswerOK
    <2>2. page' = [page EXCEPT !.clts = CltsOf(a), !.active = c, !.request = request]
      BY <1>2 DEF CollectionsLoaded
    <2>3. c \in CltsOf(a) /\ CltsOf(a) \subseteq Clt
      BY <2>1, CltTypes DEF PickCollection
    <2>4. request \in Loader \cup {"ok", None}
      BY <2>1, PageFields
    <2> DEFINE clts == CltsOf(a)
    <2>5. page' = [page EXCEPT !.clts = clts, !.active = c, !.request = request]
      BY <2>2
    <2>6. c \in clts /\ clts \in SUBSET Clt /\ c \in Clt /\ c # None
      BY <2>3, Names
    <2>7. request = IF page.request = q THEN "ok" ELSE page.request
      OBVIOUS
    <2> HIDE DEF c, request, clts
    <2>8. /\ page' \in Page
          /\ page'.clts = clts /\ page'.active = c /\ page'.request = request
          /\ page'.session = page.session /\ page'.newest = page.newest
          /\ page'.moreOff = page.moreOff /\ page'.grid = page.grid
      BY <2>1, <2>4, <2>5, <2>6 DEF Page
    <2>9. ActiveOK(page')
      BY <2>6, <2>8 DEF ActiveOK
    <2> QED BY <1>1, <2>6, <2>7, <2>8, <2>9, InformedKeeps
  <1>3. CASE tasks[q].reply # "ok"
    <2> DEFINE mid == AnswerPage(q)
    <2>1. Keeps(page, tasks, mid, tasks)
      BY After401Keeps DEF AnswerPage
    <2>2. page' = [mid EXCEPT !.request = None]
      BY <1>3 DEF CollectionsLoaded, RequestFailed
    <2> HIDE DEF mid
    <2>3. mid \in Page /\ ActiveOK(mid)
      BY <2>1 DEF Keeps, Sound
    <2>4. /\ page' \in Page
          /\ page'.session = mid.session /\ page'.clts = mid.clts /\ page'.active = mid.active
          /\ page'.newest = mid.newest /\ page'.moreOff = mid.moreOff /\ page'.grid = mid.grid
      BY <2>2, <2>3, RequestFields
    <2>5. Keeps(mid, tasks, page', tasks')
      BY <1>1, <2>1, <2>3, <2>4, InformedKeeps DEF Keeps, ActiveOK
    <2> QED BY <2>1, <2>5, KeepsTwice
  <1> QED BY <1>2, <1>3

-----------------------------------------------------------------------------
(* What the user does.                                                     *)

LEMMA TurnNotNewest ==
  ASSUME NEW t \in Task, Sound(page, tasks), Turn(t)
  PROVE  page.newest # t
  BY NotNewest DEF Turn, LoadPc

LEMMA AskingKeeps ==
  ASSUME NEW t \in Task, Sound(page, tasks),
         ClickLogin(t) \/ ClickLogout(t) \/ SubmitDelete(t)
  PROVE  Keeps(page, tasks, page', tasks')
  <1>1. Turn(t)
    BY DEF ClickLogin, ClickLogout, SubmitDelete, Event
  <1>2. Ask(t, "login") \/ Ask(t, "logout") \/ Ask(t, "deleteMe")
    BY DEF ClickLogin, ClickLogout, SubmitDelete
  <1> QED BY <1>1, <1>2, TurnNotNewest, AskKeeps DEF CallPc

\* The dialog opens or closes, or a GET /me goes out for it.
LEMMA DialogKeeps ==
  ASSUME NEW t \in Task, Sound(page, tasks), OpenDeleteAccount(t) \/ CancelDelete(t)
  PROVE  Keeps(page, tasks, page', tasks')
  <1>1. page \in Page /\ page.newest # t
    BY TurnNotNewest DEF OpenDeleteAccount, CancelDelete, Event, Sound
  <1>2. ASSUME NEW n \in Account \cup {None}, End(t, [page EXCEPT !.dialog = n])
        PROVE  Keeps(page, tasks, page', tasks')
    <2> DEFINE new == [page EXCEPT !.dialog = n]
    <2>1. SameList(page, new) /\ new.session = page.session
      BY <1>1, DialogFields
    <2>2. End(t, new)
      BY <1>2
    <2> HIDE DEF new
    <2>3. Keeps(page, tasks, new, tasks) /\ new.newest # t
      BY <1>1, <2>1, SameListKeeps DEF In, SameList
    <2> QED BY <2>2, <2>3, EndOnKeeps
  <1>3. CASE OpenDeleteAccount(t) /\ page.session.nick # None
    <2>1. End(t, [page EXCEPT !.dialog = page.session.nick])
      BY <1>3 DEF OpenDeleteAccount, OpenDialog
    <2>2. page.session.nick \in Account \cup {None}
      BY <1>1, <1>3, PageFields, SessionFields DEF OpenDeleteAccount
    <2> QED BY <1>2, <2>1, <2>2
  <1>4. CASE OpenDeleteAccount(t) /\ page.session.nick = None
    <2>1. Ask(t, "openDelete")
      BY <1>4 DEF OpenDeleteAccount
    <2> QED BY <1>1, <2>1, AskKeeps DEF CallPc
  <1>5. CASE CancelDelete(t)
    BY <1>2, <1>5 DEF CancelDelete
  <1> QED BY <1>3, <1>4, <1>5

\* The grid of the new choice is loaded whatever it showed before.
LEMMA SelectKeeps ==
  ASSUME NEW t \in Task, NEW c \in Clt, Sound(page, tasks), SelectCollection(t, c)
  PROVE  Keeps(page, tasks, page', tasks')
  <1> DEFINE new == SetActiveCollection(page, c)
  <1>1. page \in Page /\ c \in page.clts
    BY DEF SelectCollection, Sound
  <1>2. /\ new \in Page
        /\ new.active = c /\ new.session # None /\ (In(new) <=> In(page))
        /\ new.clts = page.clts /\ new.request = page.request /\ new.grid = page.grid
    BY <1>1, SetActiveFields
  <1>3. LoadSaved(t, FALSE, new)
    BY DEF SelectCollection
  <1> HIDE DEF new
  <1>4. ActiveOK(new) /\ page.active # None
    BY <1>1, <1>2, Names DEF ActiveOK, Sound
  <1>5. /\ Sound(page', tasks')
        /\ OneList(new, tasks) /\ OneShown(new) => Listing(page', tasks')
    BY <1>2, <1>3, <1>4, LoadKeeps DEF Sound
  <1>6. OneList(page, tasks) => OneList(new, tasks)
    BY <1>2, <1>4, Names DEF OneList
  <1>7. OneShown(page) => OneShown(new)
    BY <1>2 DEF OneShown
  <1> QED BY <1>5, <1>6, <1>7 DEF Keeps, Listing

\* A grid is continued only when no load is out, so it shows what is active.
LEMMA ReloadGridKeeps ==
  ASSUME NEW t \in Task, Sound(page, tasks), ChangeControl(t) \/ ClickLoadMore(t)
  PROVE  Keeps(page, tasks, page', tasks')
  <1>1. page \in Page /\ ActiveOK(page) /\ TasksOK(tasks)
    BY DEF Sound
  <1>2. CASE ChangeControl(t)
    <2>1. page.session # None /\ LoadSaved(t, FALSE, page)
      BY <1>2 DEF ChangeControl
    <2>2. /\ Sound(page', tasks')
          /\ OneList(page, tasks) /\ OneShown(page) => Listing(page', tasks')
      BY <1>1, <2>1, LoadKeeps
    <2> QED BY <2>2 DEF Keeps, Listing
  <1>3. CASE ClickLoadMore(t)
    <2>1. page.session # None /\ LoadSaved(t, TRUE, page) /\ page.newest = None
      BY <1>3 DEF ClickLoadMore, Sound, Loading
    <2>2. /\ Sound(page', tasks')
          /\ OneList(page, tasks) /\ OneShown(page)
             /\ (In(page) => page.grid \subseteq {page.active}) => Listing(page', tasks')
      BY <1>1, <2>1, LoadKeeps
    <2> QED BY <2>1, <2>2 DEF Keeps, Listing, NewestOfActive
  <1> QED BY <1>2, <1>3

LEMMA ColorClickKeeps ==
  ASSUME NEW t \in Task, Sound(page, tasks),
         ClickAdd(t) \/ \E c \in Clt : ClickDelete(t, c)
  PROVE  Keeps(page, tasks, page', tasks')
  <1>1. page.newest # t
    BY TurnNotNewest DEF ClickAdd, ClickDelete, Event
  <1>2. CASE ClickAdd(t)
    <2> DEFINE act == [Idle EXCEPT !.pc = "awaitAdd"]
    <2>1. act \in Activation /\ act.pc = "awaitAdd" /\ act.reply = None
      BY DEF Idle, Activation, AwaitPc
    <2>2. EnsureCollections(t, act, page)
      BY <1>2 DEF ClickAdd
    <2> HIDE DEF act
    <2> QED BY <1>1, <2>1, <2>2, EnsureKeeps
  <1>3. ASSUME NEW c \in Clt, ClickDelete(t, c)
        PROVE  Keeps(page, tasks, page', tasks')
    <2> DEFINE act == [Idle EXCEPT !.pc = "awaitDelete", !.cell = c]
    <2>1. act \in Activation /\ act.pc = "awaitDelete" /\ act.reply = None
      BY DEF Idle, Activation, AwaitPc
    <2>2. EnsureCollections(t, act, page)
      BY <1>3 DEF ClickDelete
    <2> HIDE DEF act
    <2> QED BY <1>1, <2>1, <2>2, EnsureKeeps
  <1> QED BY <1>2, <1>3

\* A fresh page: logged out, or loading the grid of the stored session.
Fresh(t) ==
  \/ /\ page' = BlankPage
     /\ tasks' = [u \in Slot |-> Idle]
  \/ /\ In(page) /\ In(page') /\ page' \in Page
     /\ page'.clts = {} /\ page'.active = None /\ page'.grid = {}
     /\ page'.newest = t /\ page'.moreOff = TRUE
     /\ tasks' \in [Slot -> Activation]
     /\ tasks'[t].pc = "awaitSaved" /\ tasks'[t].reply = None
     /\ \E q \in Loader : /\ page'.request = q
                          /\ tasks'[q].pc = "clts" /\ tasks'[q].reply = None
                          /\ \A u \in Slot : u # t /\ u # q => tasks'[u] = Idle

LEMMA ReloadFields ==
  ASSUME NEW t \in Task, page \in Page, Reload(t)
  PROVE  Fresh(t)
  <1>1. PICK s \in {None, page.session}, q \in Loader :
          LET fresh == [BlankPage EXCEPT !.session = s]
              blank == [u \in Slot |-> Idle]
          IN /\ s # None => s.tok # None
             /\ \/ s = None /\ page' = fresh /\ tasks' = blank
                \/ /\ s # None
                   /\ page' = [fresh EXCEPT !.newest = t, !.moreOff = TRUE, !.request = q]
                   /\ tasks' = [blank EXCEPT ![t] = [Idle EXCEPT !.pc = "awaitSaved", !.on = q],
                                             ![q] = Call(Idle, "clts", fresh)]
    BY DEF Reload
  <1> DEFINE fresh == [BlankPage EXCEPT !.session = s]
             blank == [u \in Slot |-> Idle]
  <1>2. CASE s = None
    <2>1. \A pg \in Page : pg.session = s => [pg EXCEPT !.session = s] = pg
      BY DEF Page
    <2>2. fresh = BlankPage
      BY <1>2, <2>1, BlankFields
    <2> QED BY <1>1, <1>2, <2>2 DEF Fresh
  <1>3. CASE s # None
    <2>1. s \in Session /\ s = page.session /\ s.tok # None
      BY <1>1, <1>3, PageFields
    <2> DEFINE act == [Idle EXCEPT !.pc = "awaitSaved", !.on = q]
               call == Call(Idle, "clts", fresh)
    <2>2. /\ fresh \in Page /\ fresh.session = s
          /\ fresh.clts = {} /\ fresh.active = None /\ fresh.grid = {}
      BY <2>1, BlankFields DEF Page
    <2>3. /\ page' = [fresh EXCEPT !.newest = t, !.moreOff = TRUE, !.request = q]
          /\ tasks' = [blank EXCEPT ![t] = act, ![q] = call]
      BY <1>1, <1>3
    <2>4. act \in Activation /\ act.pc = "awaitSaved" /\ act.reply = None
      BY DEF Idle, Activation, AwaitPc
    <2> HIDE DEF fresh, act
    <2>5. call \in Activation /\ call.pc = "clts" /\ call.reply = None
      BY <2>2, CallFields, IdleFields DEF Sent, CallPc
    <2> HIDE DEF call
    <2>6. /\ page' \in Page /\ page'.session = s
          /\ page'.clts = {} /\ page'.active = None /\ page'.grid = {}
          /\ page'.newest = t /\ page'.moreOff = TRUE /\ page'.request = q
      BY <2>2, <2>3 DEF Page
    <2>7. blank \in [Slot -> Activation] /\ \A u \in Slot : blank[u] = Idle
      BY IdleFields
    <2> HIDE DEF blank
    <2>8. /\ tasks' \in [Slot -> Activation]
          /\ tasks'[t] = act /\ tasks'[q] = call
          /\ \A u \in Slot : u # t /\ u # q => tasks'[u] = Idle
      BY <2>3, <2>4, <2>5, <2>7, Names
    <2>9. In(page) /\ In(page')
      BY <1>3, <2>1, <2>6 DEF In
    <2> QED BY <2>4, <2>5, <2>6, <2>8, <2>9 DEF Fresh
  <1> QED BY <1>2, <1>3

LEMMA IdleOK == AnswerOK(Idle)
  BY Names, IdleFields DEF AnswerOK

LEMMA BlankKeeps ==
  ASSUME NEW nts, nts = [u \in Slot |-> Idle]
  PROVE  Sound(BlankPage, nts) /\ Listing(BlankPage, nts)
  <1>1. nts \in [Slot -> Activation] /\ \A u \in Slot : nts[u] = Idle
    BY IdleFields
  <1>2. TasksOK(nts)
    BY <1>1, IdleFields, IdleOK, Names DEF TasksOK
  <1>3. Sound(BlankPage, nts)
    BY <1>2, BlankFields, Names DEF Sound, ActiveOK, Loading
  <1>4. ~In(BlankPage)
    BY BlankFields DEF In
  <1>5. Listing(BlankPage, nts)
    BY <1>4, BlankFields, Names DEF Listing, OneList, NewestOfActive, LastShown, OneShown
  <1> QED BY <1>3, <1>5

LEMMA FreshKeeps ==
  ASSUME NEW t \in Task, Fresh(t)
  PROVE  Sound(page', tasks') /\ Listing(page', tasks')
  <1>1. CASE page' = BlankPage /\ tasks' = [u \in Slot |-> Idle]
    BY <1>1, BlankKeeps
  <1>2. CASE ~(page' = BlankPage /\ tasks' = [u \in Slot |-> Idle])
    <2>1. PICK q \in Loader : /\ page'.request = q
                              /\ tasks'[q].pc = "clts" /\ tasks'[q].reply = None
                              /\ \A u \in Slot : u # t /\ u # q => tasks'[u] = Idle
      BY <1>2 DEF Fresh
    <2>2. /\ In(page') /\ page' \in Page
          /\ page'.clts = {} /\ page'.active = None /\ page'.grid = {}
          /\ page'.newest = t /\ page'.moreOff = TRUE
          /\ tasks' \in [Slot -> Activation]
          /\ tasks'[t].pc = "awaitSaved" /\ tasks'[t].reply = None
      BY <1>2 DEF Fresh
    <2>3. \A u \in Slot : AnswerOK(tasks'[u])
      <3>1. AnswerOK(tasks'[t]) /\ AnswerOK(tasks'[q])
        BY <2>1, <2>2, Names DEF AnswerOK
      <3> QED BY <2>1, <3>1, IdleOK
    <2>4. TasksOK(tasks')
      BY <2>1, <2>2, <2>3, IdleFields, Names DEF TasksOK
    <2>5. Sound(page', tasks')
      BY <2>2, <2>4, Names DEF Sound, ActiveOK, Loading, LoadPc
    <2>6. OneList(page', tasks')
      BY <2>1, <2>2, IdleFields, Names DEF OneList
    <2>7. NewestOfActive(page', tasks') /\ LastShown(page', tasks') /\ OneShown(page')
      BY <2>2 DEF NewestOfActive, LastShown, OneShown
    <2> QED BY <2>5, <2>6, <2>7 DEF Listing
  <1> QED BY <1>1, <1>2

LEMMA UserKeeps ==
  ASSUME NEW t \in Task, Sound(page, tasks), User(t)
  PROVE  Keeps(page, tasks, page', tasks')
  <1>1. CASE Reload(t)
    BY <1>1, ReloadFields, FreshKeeps DEF Keeps, Sound
  <1>2. CASE ~Reload(t)
    BY <1>2, AskingKeeps, DialogKeeps, SelectKeeps, ReloadGridKeeps, ColorClickKeeps DEF User
  <1> QED BY <1>1, <1>2

-----------------------------------------------------------------------------
(* The first login.                                                        *)

Client == \/ \E t \in Task : User(t) \/ Continue(t)
          \/ \E q \in Loader : CollectionsLoaded(q)

\* Only the server grants a login.
NoGrant == \A s \in Slot : Granted(tasks'[s]) => Granted(tasks[s])

LEMMA EndGrants ==
  ASSUME NEW t \in Task, NEW pg, tasks \in [Slot -> Activation], End(t, pg)
  PROVE  NoGrant
  BY IdleFields, Names DEF End, NoGrant, Granted

LEMMA LoadGrants ==
  ASSUME NEW t \in Task, NEW pg \in Page, NEW append \in BOOLEAN,
         tasks \in [Slot -> Activation], LoadSaved(t, append, pg)
  PROVE  NoGrant
  <1>1. CASE pg.session = None
    BY <1>1, EndGrants DEF LoadSaved
  <1>2. CASE pg.session # None
    <2> DEFINE mid == [pg EXCEPT !.newest = t, !.moreOff = TRUE]
               act == [Idle EXCEPT !.pc = "awaitSaved", !.append = append]
    <2>1. mid \in Page
      BY NewestFields
    <2>2. act \in Activation /\ act.pc = "awaitSaved"
      BY DEF Idle, Activation, AwaitPc
    <2>3. EnsureCollections(t, act, mid)
      BY <1>2 DEF LoadSaved
    <2> HIDE DEF mid, act
    <2>4. Ensured(t, act, mid)
      BY <2>1, <2>2, <2>3, EnsureFields
    <2> QED BY <2>2, <2>4, Names DEF Ensured, NoGrant, Granted
  <1> QED BY <1>1, <1>2

LEMMA ReplacedGrants ==
  ASSUME NEW t \in Task, NEW act, tasks \in [Slot -> Activation], act.reply # "ok",
         tasks' = [tasks EXCEPT ![t] = act]
  PROVE  NoGrant
  BY Names DEF NoGrant, Granted

LEMMA AskGrants ==
  ASSUME NEW t \in Task, NEW pc \in CallPc, Sound(page, tasks), Ask(t, pc)
  PROVE  NoGrant
  <1> DEFINE act == Call(Idle, pc, page)
  <1>1. act.reply # "ok"
    BY CallFields, IdleFields, Names DEF Sent, Sound
  <1>2. tasks' = [tasks EXCEPT ![t] = act] /\ tasks \in [Slot -> Activation]
    BY DEF Ask, Sound, TasksOK
  <1> HIDE DEF act
  <1> QED BY <1>1, <1>2, ReplacedGrants

LEMMA EnsureGrants ==
  ASSUME NEW t \in Task, Sound(page, tasks), ClickAdd(t) \/ \E c \in Clt : ClickDelete(t, c)
  PROVE  NoGrant
  <1>1. ASSUME NEW act \in Activation, act.pc \in AwaitPc, EnsureCollections(t, act, page)
        PROVE  NoGrant
    <2>1. Ensured(t, act, page)
      BY <1>1, EnsureFields DEF Sound, TasksOK
    <2> QED BY <1>1, <2>1, Names DEF Ensured, NoGrant, Granted, AwaitPc
  <1>2. CASE ClickAdd(t)
    <2> DEFINE act == [Idle EXCEPT !.pc = "awaitAdd"]
    <2>1. act \in Activation /\ act.pc \in AwaitPc
      BY DEF Idle, Activation, AwaitPc
    <2>2. EnsureCollections(t, act, page)
      BY <1>2 DEF ClickAdd
    <2> HIDE DEF act
    <2> QED BY <1>1, <2>1, <2>2
  <1>3. ASSUME NEW c \in Clt, ClickDelete(t, c)
        PROVE  NoGrant
    <2> DEFINE act == [Idle EXCEPT !.pc = "awaitDelete", !.cell = c]
    <2>1. act \in Activation /\ act.pc \in AwaitPc
      BY DEF Idle, Activation, AwaitPc
    <2>2. EnsureCollections(t, act, page)
      BY <1>3 DEF ClickDelete
    <2> HIDE DEF act
    <2> QED BY <1>1, <2>1, <2>2
  <1> QED BY <1>2, <1>3

LEMMA UserGrants ==
  ASSUME NEW t \in Task, Sound(page, tasks), User(t)
  PROVE  NoGrant
  <1>1. page \in Page /\ tasks \in [Slot -> Activation]
    BY DEF Sound, TasksOK
  <1>2. CASE ClickLogin(t) \/ ClickLogout(t) \/ SubmitDelete(t)
    BY <1>2, AskGrants DEF ClickLogin, ClickLogout, SubmitDelete, CallPc
  <1>3. CASE OpenDeleteAccount(t) \/ CancelDelete(t)
    BY <1>1, <1>3, AskGrants, EndGrants DEF OpenDeleteAccount, CancelDelete, CallPc
  <1>4. CASE \E c \in Clt : SelectCollection(t, c)
    <2>1. PICK c \in Clt : LoadSaved(t, FALSE, SetActiveCollection(page, c))
      BY <1>4 DEF SelectCollection
    <2>2. SetActiveCollection(page, c) \in Page
      BY <1>1, SetActiveFields
    <2> QED BY <1>1, <2>1, <2>2, LoadGrants
  <1>5. CASE ChangeControl(t) \/ ClickLoadMore(t)
    BY <1>1, <1>5, LoadGrants DEF ChangeControl, ClickLoadMore
  <1>6. CASE ClickAdd(t) \/ \E c \in Clt : ClickDelete(t, c)
    BY <1>6, EnsureGrants
  <1>7. CASE Reload(t)
    <2>1. Fresh(t)
      BY <1>1, <1>7, ReloadFields
    <2> QED BY <2>1, IdleFields, Names DEF Fresh, NoGrant, Granted
  <1> QED BY <1>2, <1>3, <1>4, <1>5, <1>6, <1>7 DEF User

LEMMA ResumeGrants ==
  ASSUME NEW t \in Task, Sound(page, tasks), Resume(t)
  PROVE  NoGrant
  <1> DEFINE out == [awaitSaved |-> "saved", awaitAdd |-> "add", awaitDelete |-> "delete"]
             act == [Call(tasks[t], out[tasks[t].pc], page) EXCEPT !.clt = page.active]
  <1>1. tasks[t].pc \in AwaitPc /\ tasks \in [Slot -> Activation] /\ t \in Slot /\ page \in Page
    BY Names DEF Resume, Ready, Sound, TasksOK
  <1>2. \/ tasks' = [tasks EXCEPT ![t] = act]
        \/ End(t, IF tasks[t].pc = "awaitSaved" THEN LoadFailed(page, t) ELSE page)
    BY <1>1 DEF Resume
  <1>3. act.reply # "ok"
    <2> DEFINE pc == out[tasks[t].pc]
               sent == Call(tasks[t], pc, page)
    <2>1. pc \in CallPc
      BY <1>1 DEF AwaitPc, CallPc
    <2> HIDE DEF pc
    <2>2. sent \in Activation /\ sent.reply = None
      BY <1>1, <2>1, CallFields DEF Sent
    <2> HIDE DEF sent
    <2>3. [sent EXCEPT !.clt = page.active].reply = sent.reply
      BY <2>2 DEF Activation
    <2> QED BY <2>2, <2>3, Names DEF sent, pc
  <1> HIDE DEF act
  <1> QED BY <1>1, <1>2, <1>3, EndGrants, ReplacedGrants

LEMMA ContinueGrants ==
  ASSUME NEW t \in Task, Sound(page, tasks), Continue(t)
  PROVE  NoGrant
  <1>1. page \in Page /\ tasks \in [Slot -> Activation] /\ AnswerOK(tasks[t])
    BY Names DEF Sound, TasksOK
  <1>2. CASE Resume(t)
    BY <1>2, ResumeGrants
  <1>3. CASE LoginToken(t)
    <2>1. CASE tasks[t].reply # "ok"
      BY <1>1, <1>3, <2>1, EndGrants DEF LoginToken
    <2>2. CASE tasks[t].reply = "ok"
      <3> DEFINE pg == StartSession(page, tasks[t].got)
                 act == Call(Idle, "loginMe", pg)
      <3>1. pg \in Page
        BY <1>1, <1>3, <2>2, StartSessionFields DEF AnswerOK, LoginToken, Answered
      <3>2. tasks' = [tasks EXCEPT ![t] = act]
        BY <1>3, <2>2 DEF LoginToken
      <3> HIDE DEF pg
      <3>3. Sent(act, Idle, "loginMe", pg)
        <4>1. "loginMe" \in CallPc
          BY DEF CallPc
        <4> QED BY <3>1, <4>1, CallFields, IdleFields
      <3> HIDE DEF act
      <3>4. act.reply # "ok"
        BY <3>3, Names DEF Sent
      <3> QED BY <1>1, <3>2, <3>4, ReplacedGrants
    <2> QED BY <2>1, <2>2
  <1>4. CASE LoginMe(t)
    <2>1. CASE tasks[t].reply # "ok"
      BY <1>1, <1>4, <2>1, EndGrants DEF LoginMe
    <2>2. CASE tasks[t].reply = "ok"
      <3>1. SetSessionNickname(page, tasks[t].got) \in Page
        BY <1>1, <1>4, <2>2, NicknameFields DEF AnswerOK, LoginMe, Answered, SameList
      <3>2. LoadSaved(t, FALSE, SetSessionNickname(page, tasks[t].got))
        BY <1>4, <2>2 DEF LoginMe
      <3> QED BY <1>1, <3>1, <3>2, LoadGrants
    <2> QED BY <2>1, <2>2
  <1>5. CASE LogoutDone(t) \/ NicknameFetched(t) \/ DeleteAccountDone(t)
    BY <1>1, <1>5, EndGrants DEF LogoutDone, NicknameFetched, DeleteAccountDone
  <1>6. CASE SavedLoaded(t) \/ ColorDeleted(t)
    BY <1>1, <1>6, EndGrants DEF SavedLoaded, ColorDeleted
  <1>7. CASE ColorAdded(t)
    BY <1>1, <1>7, EndGrants, LoadGrants DEF ColorAdded
  <1> QED BY <1>2, <1>3, <1>4, <1>5, <1>6, <1>7 DEF Continue

LEMMA ClientGrants ==
  ASSUME Sound(page, tasks), Client
  PROVE  NoGrant
  <1>1. ASSUME NEW q \in Loader, CollectionsLoaded(q)
        PROVE  NoGrant
    BY <1>1, InformedFields DEF Sound, TasksOK, Informed, NoGrant, Granted
  <1> QED BY <1>1, UserGrants, ContinueGrants DEF Client

\* Before the first login ends there is nothing else a client's turn can do.
LEMMA BeforeTurn ==
  ASSUME tasks \in [Slot -> Activation], Before(page, tasks), Client,
         \A t \in Task : LoginToken(t) => tasks[t].reply # "ok"
  PROVE  Before(page', tasks')
  <1>1. /\ page = BlankPage /\ page.session = None /\ page.dialog = None
        /\ \A s \in Slot : tasks[s].pc \in {"idle", "login"}
    BY BlankFields DEF Before
  <1>2. ASSUME NEW t \in Task, End(t, page)
        PROVE  Before(page', tasks')
    BY <1>1, <1>2, IdleFields DEF End, Before
  <1>3. ASSUME NEW q \in Loader, CollectionsLoaded(q)
        PROVE  FALSE
    BY <1>1, <1>3, Names DEF CollectionsLoaded, Answered
  <1>4. ASSUME NEW t \in Task, Continue(t)
        PROVE  Before(page', tasks')
    <2>1. tasks[t].pc \in {"idle", "login"}
      BY <1>1, Names
    <2>2. LoginToken(t)
      BY <1>4, <2>1 DEF Continue, Resume, Ready, AwaitPc, LoginMe, LogoutDone, NicknameFetched,
                        DeleteAccountDone, SavedLoaded, ColorAdded, ColorDeleted, Answered
    <2>3. End(t, AnswerPage(t))
      BY <2>2 DEF LoginToken
    <2>4. AnswerPage(t) = page
      BY <1>1 DEF AnswerPage, After401
    <2> QED BY <1>2, <2>3, <2>4
  <1>5. ASSUME NEW t \in Task, User(t)
        PROVE  Before(page', tasks')
    <2>1. CASE ClickLogin(t)
      <3> DEFINE act == Call(Idle, "login", page)
      <3>1. page \in Page /\ "login" \in CallPc
        BY <1>1, BlankFields DEF CallPc
      <3>2. Sent(act, Idle, "login", page)
        BY <3>1, CallFields, IdleFields
      <3>3. page' = page /\ tasks' = [tasks EXCEPT ![t] = act]
        BY <2>1 DEF ClickLogin, Ask
      <3> HIDE DEF act
      <3> QED BY <1>1, <3>2, <3>3 DEF Before, Sent
    <2>2. CASE Reload(t)
      <3>1. Fresh(t) /\ ~In(page)
        BY <1>1, <2>2, BlankFields, ReloadFields DEF In
      <3> QED BY <3>1, IdleFields DEF Fresh, Before
    <2> QED BY <1>1, <1>5, <2>1, <2>2
            DEF User, ClickLogout, OpenDeleteAccount, SubmitDelete, CancelDelete,
                SelectCollection, ClickDelete, ChangeControl, ClickLoadMore, ClickAdd
  <1> QED BY <1>3, <1>4, <1>5 DEF Client

LEMMA FirstLoginKept ==
  ASSUME FirstLogin, UNCHANGED owner, NoGrant, Before(page, tasks) => Before(page', tasks')
  PROVE  FirstLogin'
  <1>1. (\A k \in Token : owner'[k] = None) => Before(page', tasks')
    BY DEF FirstLogin
  <1>2. \A s \in Slot : Granted(tasks'[s]) => Before(page', tasks')
    BY DEF FirstLogin, NoGrant
  <1>3. \A s, u \in Slot : Granted(tasks'[s]) /\ Granted(tasks'[u]) => s = u
    BY DEF FirstLogin, NoGrant
  <1> QED BY <1>1, <1>2, <1>3 DEF FirstLogin, Before, Granted

\* Soundness depends on the server only by the tokens that were minted.
LEMMA SoundPrime ==
  ASSUME UNCHANGED owner, Sound(page', tasks')
  PROVE  Sound(page, tasks)'
  <1>1. \A s \in Slot : AnswerOK(tasks'[s])
    BY DEF Sound, TasksOK
  <1>2. \A s \in Slot : AnswerOK(tasks[s])'
    BY <1>1 DEF AnswerOK
  <1>3. TasksOK(tasks)'
    BY <1>2 DEF Sound, TasksOK
  <1>4. page' \in Page /\ ActiveOK(page') /\ Loading(page', tasks')
    BY DEF Sound
  <1> QED BY <1>3, <1>4 DEF Sound, ActiveOK, Loading

\* A login is answered: the grid is the old session's, if there was one.
LEMMA LoginGranted ==
  ASSUME NEW t \in Task, IInv, LoginToken(t), tasks[t].reply = "ok"
  PROVE  /\ Sound(page', tasks')
         /\ OneLogin => FirstLogin' /\ Listing(page', tasks')
  <1> DEFINE k == tasks[t].got
             new == StartSession(page, k)
             act == Call(Idle, "loginMe", new)
  <1>1. /\ Sound(page, tasks) /\ page \in Page /\ TasksOK(tasks) /\ Loading(page, tasks)
        /\ tasks \in [Slot -> Activation] /\ t \in Slot
        /\ Granted(tasks[t]) /\ page.newest # t
    BY NotNewest, Names DEF IInv, Sound, TasksOK, LoginToken, Answered, Granted, LoadPc
  <1>2. k \in Token /\ owner[k] # None
    BY <1>1 DEF TasksOK, AnswerOK, Granted
  <1>3. page' = new /\ tasks' = [tasks EXCEPT ![t] = act] /\ UNCHANGED server
    BY DEF LoginToken
  <1> HIDE DEF k
  <1>4. /\ new \in Page
        /\ new.session \in Session /\ new.session.tok = k
        /\ new.clts = {} /\ new.active = None /\ new.request = None
        /\ new.grid = page.grid /\ new.newest = page.newest /\ new.moreOff = page.moreOff
    BY <1>1, <1>2, StartSessionFields
  <1> HIDE DEF new
  <1>5. Sent(act, Idle, "loginMe", new)
    <2>1. "loginMe" \in CallPc
      BY DEF CallPc
    <2> QED BY <1>4, <2>1, CallFields, IdleFields
  <1> HIDE DEF act
  <1>6. /\ tasks' \in [Slot -> Activation] /\ tasks'[t] = act
        /\ \A s \in Slot : s # t => tasks'[s] = tasks[s]
    BY <1>1, <1>3, <1>5 DEF Sent
  <1>7. act.pc = "loginMe" /\ act.reply = None /\ AnswerOK(act)
    BY <1>5, Names DEF Sent, AnswerOK
  <1>8. TasksOK(tasks')
    BY <1>1, <1>6, <1>7, Names DEF TasksOK
  <1>9. Sound(page', tasks')
    BY <1>1, <1>3, <1>4, <1>6, <1>7, <1>8, Names DEF Sound, ActiveOK, Loading
  <1>10. ASSUME OneLogin
         PROVE  FirstLogin' /\ Listing(page', tasks')
    <2>1. /\ Before(page, tasks)
          /\ \A s \in Slot : Granted(tasks[s]) => s = t
      BY <1>1, <1>10 DEF IInv, FirstLogin
    <2>2. \A s \in Slot : ~Granted(tasks'[s])
      BY <1>6, <1>7, <2>1 DEF Granted
    <2>3. ~ \A l \in Token : owner'[l] = None
      BY <1>2, <1>3 DEF server
    <2>4. FirstLogin'
      BY <2>2, <2>3 DEF FirstLogin, Granted
    <2>5. /\ page'.grid = {} /\ page'.newest = None /\ page'.active = None
          /\ \A s \in Slot : tasks'[s].pc \in {"idle", "login", "loginMe"}
      BY <1>3, <1>4, <1>6, <1>7, <2>1, BlankFields DEF Before
    <2>6. OneList(page', tasks') /\ LastShown(page', tasks')
      BY <2>5, Names DEF OneList, LastShown
    <2>7. NewestOfActive(page', tasks') /\ OneShown(page')
      BY <2>5, Names DEF NewestOfActive, OneShown
    <2> QED BY <2>4, <2>6, <2>7 DEF Listing
  <1> QED BY <1>9, <1>10

\* Every turn of the client.
LEMMA ClientStep ==
  ASSUME IInv, Client, UNCHANGED server
  PROVE  IInv'
  <1>1. Sound(page, tasks) /\ tasks \in [Slot -> Activation]
    BY DEF IInv, Sound, TasksOK
  <1>2. UNCHANGED owner /\ (OneLogin' <=> OneLogin) /\ Server'
    BY DEF server, OneLogin, IInv, Server
  <1>3. CASE \E t \in Task : LoginToken(t) /\ tasks[t].reply = "ok"
    <2>1. /\ Sound(page', tasks')
          /\ OneLogin => FirstLogin' /\ Listing(page', tasks')
      BY <1>3, LoginGranted
    <2>2. Listing(page', tasks') => Listing(page, tasks)'
      BY DEF Listing, OneList, NewestOfActive, LastShown, OneShown, In
    <2> QED BY <1>2, <2>1, <2>2, SoundPrime DEF IInv
  <1>4. CASE ~ \E t \in Task : LoginToken(t) /\ tasks[t].reply = "ok"
    <2>1. ASSUME NEW t \in Task, Continue(t)
          PROVE  Keeps(page, tasks, page', tasks')
      BY <1>1, <1>4, <2>1, ResumeKeeps, LoginRefusedKeeps, LoginMeKeeps, LogoutKeeps,
         NicknameKeeps, DeleteAccountKeeps, SavedKeeps, ColorAddedKeeps, ColorDeletedKeeps
         DEF Continue
    <2>2. Keeps(page, tasks, page', tasks')
      BY <1>1, <2>1, UserKeeps, CollectionsKeep DEF Client
    <2>3. NoGrant /\ (Before(page, tasks) => Before(page', tasks'))
      BY <1>1, <1>4, ClientGrants, BeforeTurn
    <2>4. FirstLogin => FirstLogin'
      BY <1>2, <2>3, FirstLoginKept
    <2>5. Listing(page', tasks') => Listing(page, tasks)'
      BY DEF Listing, OneList, NewestOfActive, LastShown, OneShown, In
    <2> QED BY <1>2, <2>2, <2>4, <2>5, SoundPrime DEF IInv, Keeps
  <1> QED BY <1>3, <1>4

-----------------------------------------------------------------------------
(* The server's answers.                                                   *)

\* Only the reply and what came with it change.
Replied(s, reply, got) ==
  /\ page' = page
  /\ tasks' \in [Slot -> Activation]
  /\ \A u \in Slot : /\ tasks'[u].pc = tasks[u].pc /\ tasks'[u].append = tasks[u].append
                     /\ tasks'[u].clt = tasks[u].clt /\ tasks'[u].tok = tasks[u].tok
  /\ tasks'[s].reply = reply /\ tasks'[s].got = got
  /\ \A u \in Slot : u # s => tasks'[u] = tasks[u]

LEMMA ReplyFields ==
  ASSUME NEW s \in Slot, NEW reply \in {"ok", "401", "failed"},
         NEW got \in Token \cup Account \cup {None},
         tasks \in [Slot -> Activation], Reply(s, reply, got)
  PROVE  Replied(s, reply, got)
  <1> DEFINE act == [tasks[s] EXCEPT !.reply = reply, !.got = got]
  <1>1. /\ act \in Activation
        /\ act.pc = tasks[s].pc /\ act.append = tasks[s].append
        /\ act.clt = tasks[s].clt /\ act.tok = tasks[s].tok
        /\ act.reply = reply /\ act.got = got
    BY DEF Activation
  <1>2. tasks' = [tasks EXCEPT ![s] = act] /\ page' = page
    BY DEF Reply
  <1> HIDE DEF act
  <1> QED BY <1>1, <1>2 DEF Replied

\* An answer that holds what its request asked for keeps all but FirstLogin.
LEMMA ReplyKeeps ==
  ASSUME NEW s \in Slot, NEW reply \in {"ok", "401", "failed"},
         NEW got \in Token \cup Account \cup {None},
         Sound(page, tasks), Reply(s, reply, got),
         \A k \in Token : owner[k] # None => owner'[k] # None,
         reply = "ok" /\ tasks[s].pc = "login" => got \in Token /\ owner'[got] # None,
         reply = "ok" /\ tasks[s].pc \in {"loginMe", "openDelete", "clts"} => got \in Account,
         reply = "ok" /\ tasks[s].pc = "saved" => tasks[s].tok # None
  PROVE  /\ Sound(page, tasks)'
         /\ Listing(page, tasks) => Listing(page, tasks)'
         /\ Before(page, tasks) => Before(page, tasks)'
  <1>1. Replied(s, reply, got) /\ tasks \in [Slot -> Activation]
    BY ReplyFields DEF Sound, TasksOK
  <1>2. \A u \in Slot : AnswerOK(tasks[u])
    BY DEF Sound, TasksOK
  <1>3. AnswerOK(tasks[s])'
    BY <1>1, <1>2 DEF Replied, AnswerOK
  <1>4. \A u \in Slot : u # s => AnswerOK(tasks[u])'
    BY <1>1, <1>2 DEF Replied, AnswerOK
  <1>5. /\ \A q \in Loader : tasks'[q].pc \in {"idle", "clts"}
        /\ \A t \in Task : tasks'[t].pc # "clts"
    BY <1>1, Names DEF Replied, Sound, TasksOK
  <1>6. \A u \in Slot : AnswerOK(tasks[u])'
    BY <1>3, <1>4
  <1>7. TasksOK(tasks)'
    BY <1>1, <1>5, <1>6 DEF TasksOK, Replied
  <1>8. page' \in Page /\ ActiveOK(page)' /\ Loading(page, tasks)'
    BY <1>1, Names DEF Replied, Sound, ActiveOK, Loading
  <1>9. Listing(page, tasks) => Listing(page, tasks)'
    <2>1. OneList(page, tasks) => OneList(page, tasks)'
      BY <1>1, Names DEF Replied, OneList, In
    <2>2. NewestOfActive(page, tasks) => NewestOfActive(page, tasks)'
      BY <1>1, Names DEF Replied, NewestOfActive, In
    <2>3. LastShown(page, tasks) => LastShown(page, tasks)'
      BY <1>1, Names DEF Replied, LastShown, In
    <2>4. OneShown(page) => OneShown(page)'
      BY <1>1 DEF Replied, OneShown
    <2> QED BY <2>1, <2>2, <2>3, <2>4 DEF Listing
  <1>10. Before(page, tasks) => Before(page, tasks)'
    BY <1>1 DEF Replied, Before
  <1> QED BY <1>7, <1>8, <1>9, <1>10 DEF Sound

\* Every answer but a granted login.
LEMMA OtherReply ==
  ASSUME NEW s \in Slot, NEW reply \in {"ok", "401", "failed"},
         NEW got \in Token \cup Account \cup {None},
         IInv, Reply(s, reply, got), owner' = owner, live' \subseteq live,
         reply = "ok" => tasks[s].pc # "login",
         reply = "ok" /\ tasks[s].pc \in {"loginMe", "openDelete", "clts"} => got \in Account,
         reply = "ok" /\ tasks[s].pc = "saved" => tasks[s].tok # None
  PROVE  IInv'
  <1>1. /\ Sound(page, tasks)'
        /\ Listing(page, tasks) => Listing(page, tasks)'
        /\ Before(page, tasks) => Before(page, tasks)'
    BY ReplyKeeps DEF IInv
  <1>2. Server' /\ (OneLogin' <=> OneLogin)
    BY DEF IInv, Server, OneLogin
  <1>3. NoGrant
    <2>1. Replied(s, reply, got)
      BY ReplyFields DEF IInv, Sound, TasksOK
    <2> QED BY <2>1 DEF Replied, NoGrant, Granted
  <1>4. Before(page, tasks) => Before(page', tasks')
    BY <1>1 DEF Before
  <1>5. FirstLogin => FirstLogin'
    BY <1>3, <1>4, FirstLoginKept
  <1> QED BY <1>1, <1>2, <1>5 DEF IInv

LEMMA ServedLogin ==
  ASSUME NEW s \in Slot, IInv, ServeLogin(s)
  PROVE  IInv'
  <1>1. CASE Reply(s, "401", None) /\ UNCHANGED server
    BY <1>1, Names, OtherReply DEF server
  <1>2. ASSUME NEW k \in Token, NEW a \in Account,
               owner[k] = None, owner' = [owner EXCEPT ![k] = a],
               live' = live \cup {k}, Reply(s, "ok", k)
        PROVE  IInv'
    <2>1. /\ owner \in [Token -> Account \cup {None}] /\ Sound(page, tasks)
          /\ tasks[s].pc = "login"
      BY DEF IInv, Server, ServeLogin
    <2>2. /\ owner' \in [Token -> Account \cup {None}] /\ owner'[k] # None
          /\ \A l \in Token : l # k => owner'[l] = owner[l]
      BY <1>2, <2>1, Names
    <2>3. Server'
      BY <1>2, <2>2 DEF IInv, Server
    <2>4. /\ Sound(page, tasks)'
          /\ Listing(page, tasks) => Listing(page, tasks)'
          /\ Before(page, tasks) => Before(page, tasks)'
      BY <1>2, <2>1, <2>2, ReplyKeeps
    <2>5. ASSUME OneLogin'
          PROVE  FirstLogin' /\ Listing(page, tasks)'
      <3>1. \A l \in Token : owner[l] = None
        BY <1>2, <2>2, <2>5 DEF OneLogin
      <3>2. Before(page, tasks) /\ Listing(page, tasks)
        BY <3>1 DEF IInv, OneLogin, FirstLogin
      <3>3. \A u \in Slot : ~Granted(tasks[u])
        BY <2>1, <3>1 DEF Sound, TasksOK, AnswerOK, Granted
      <3>4. \A u \in Slot : Granted(tasks'[u]) => u = s
        <4>1. Replied(s, "ok", k)
          BY <1>2, <2>1, ReplyFields DEF Sound, TasksOK
        <4> QED BY <3>3, <4>1 DEF Replied
      <3>5. \A u, v \in Slot : Granted(tasks[u])' /\ Granted(tasks[v])' => u = v
        BY <3>4 DEF Granted
      <3> QED BY <2>4, <3>2, <3>5 DEF FirstLogin
    <2> QED BY <2>3, <2>4, <2>5 DEF IInv
  <1> QED BY <1>1, <1>2 DEF ServeLogin

LEMMA ServedAuthed ==
  ASSUME NEW s \in Slot, IInv, ServeAuthed(s)
  PROVE  IInv'
  <1> DEFINE a == owner[tasks[s].tok]
             got == IF tasks[s].pc \in {"loginMe", "openDelete", "clts"} THEN a ELSE None
  <1>1. tasks[s].pc # "login"
    BY DEF ServeAuthed
  <1>2. CASE Reply(s, "401", None) /\ UNCHANGED server
    BY <1>2, Names, OtherReply DEF server
  <1>3. CASE Authenticated(s) /\ Reply(s, "ok", got)
             /\ owner' = owner /\ live' \subseteq live
    <2>1. tasks[s].tok \in Token /\ a \in Account
      BY <1>3 DEF IInv, Server, Authenticated
    <2>2. got \in Token \cup Account \cup {None}
      BY <2>1
    <2>3. tasks[s].pc \in {"loginMe", "openDelete", "clts"} => got \in Account
      BY <2>1
    <2>4. tasks[s].tok # None
      BY <2>1, Names
    <2> HIDE DEF got
    <2> QED BY <1>1, <1>3, <2>2, <2>3, <2>4, OtherReply
  <1> QED BY <1>2, <1>3 DEF ServeAuthed

LEMMA Failed ==
  ASSUME NEW s \in Slot, IInv, Fail(s)
  PROVE  IInv'
  BY OtherReply DEF Fail, server

LEMMA ServerOnly ==
  ASSUME IInv, UNCHANGED <<page, tasks, owner>>, live' \subseteq live
  PROVE  IInv'
  <1>1. Server' /\ (OneLogin' <=> OneLogin)
    BY DEF IInv, Server, OneLogin
  <1>2. Sound(page, tasks)'
    BY SoundPrime DEF IInv
  <1>3. Listing(page, tasks) => Listing(page, tasks)'
    BY DEF Listing, OneList, NewestOfActive, LastShown, OneShown, In
  <1>4. FirstLogin => FirstLogin'
    BY DEF FirstLogin, Before, Granted
  <1> QED BY <1>1, <1>2, <1>3, <1>4 DEF IInv

-----------------------------------------------------------------------------
(* The invariant, and what it says of the runs' properties.                *)

LEMMA InitIInv == Init => IInv
  <1> SUFFICES ASSUME Init PROVE IInv
    OBVIOUS
  <1>1. Server
    BY DEF Init, Server
  <1>2. Sound(page, tasks) /\ Listing(page, tasks)
    BY BlankKeeps DEF Init
  <1>3. FirstLogin
    BY IdleFields DEF Init, FirstLogin, Before, Granted
  <1> QED BY <1>1, <1>2, <1>3 DEF IInv

LEMMA NextIInv == IInv /\ [Next]_vars => IInv'
  <1> SUFFICES ASSUME IInv, [Next]_vars PROVE IInv'
    OBVIOUS
  <1>1. ASSUME NEW t \in Task, User(t) \/ Continue(t)
        PROVE  IInv'
    <2>1. UNCHANGED server
      BY <1>1 DEF User, Continue, ClickLogin, ClickLogout, OpenDeleteAccount, SubmitDelete,
                  CancelDelete, SelectCollection, ClickDelete, ChangeControl, ClickLoadMore,
                  ClickAdd, Reload, Event, Turn, Resume, LoginToken, LoginMe, LogoutDone,
                  NicknameFetched, DeleteAccountDone, SavedLoaded, ColorAdded, ColorDeleted
    <2> QED BY <1>1, <2>1, ClientStep DEF Client
  <1>2. ASSUME NEW q \in Loader, CollectionsLoaded(q)
        PROVE  IInv'
    <2>1. UNCHANGED server
      BY <1>2 DEF CollectionsLoaded
    <2> QED BY <1>2, <2>1, ClientStep DEF Client
  <1>3. ASSUME NEW s \in Slot, ServeLogin(s) \/ ServeAuthed(s) \/ Fail(s)
        PROVE  IInv'
    BY <1>3, ServedLogin, ServedAuthed, Failed
  <1>4. ASSUME NEW k \in Token, TokenEnds(k)
        PROVE  IInv'
    BY <1>4, ServerOnly DEF TokenEnds
  <1>5. CASE UNCHANGED vars
    BY <1>5, ServerOnly DEF vars
  <1> QED BY <1>1, <1>2, <1>3, <1>4, <1>5 DEF Next

\* The invariant holds in every reachable state.
THEOREM WebClientInvariance == Spec => []IInv
  BY InitIInv, NextIInv, PTL DEF Spec

\* What the model's variables hold: sessions, answers and minted tokens have the
\* shape the client and the server read them with.
THEOREM WebClientTypes == Spec => []TypeOK
  <1>1. IInv => TypeOK
    BY DEF IInv, Server, Sound, TasksOK, TypeOK
  <1> QED BY <1>1, WebClientInvariance, PTL

\* MoreOffWhileLoading: whatever loads overlap, fail or are left behind by the end
\* of their session, the load-more button comes back with the newest of them.
THEOREM LoadMoreNeverStuck == Spec => []MoreOffWhileLoading
  <1>1. IInv => MoreOffWhileLoading
    <2> SUFFICES ASSUME IInv PROVE MoreOffWhileLoading
      OBVIOUS
    <2>1. page.newest \in Task \cup {None} /\ Loading(page, tasks)
      BY PageFields DEF IInv, Sound
    <2> QED BY <2>1, Names DEF Loading, LoadPc, MoreOffWhileLoading
  <1> QED BY <1>1, WebClientInvariance, PTL

\* ActiveInList: the collection in use belongs to the list that is shown, through
\* every reset, reload and failed request.
THEOREM ActiveIsListed == Spec => []ActiveInList
  <1>1. IInv => ActiveInList
    BY DEF IInv, Sound, ActiveOK, ActiveInList
  <1> QED BY <1>1, WebClientInvariance, PTL

\* OneListingShown: within one login a late page of an earlier listing never
\* joins the swatches of a later one.
THEOREM GridOfOneListing == Spec => []OneListingShown
  <1>1. IInv => OneListingShown
    <2> SUFFICES ASSUME IInv, OneLogin PROVE Cardinality(page.grid) <= 1
      BY DEF OneListingShown
    <2>1. \A c, d \in page.grid : c = d
      BY DEF IInv, Listing, OneShown
    <2>2. CASE page.grid = {}
      BY <2>2, FS_EmptySet
    <2>3. CASE page.grid # {}
      <3>1. PICK c \in page.grid : page.grid = {c}
        BY <2>1, <2>3
      <3>2. Cardinality({c}) = 1
        BY FS_Singleton
      <3> QED BY <3>1, <3>2
    <2> QED BY <2>2, <2>3
  <1> QED BY <1>1, WebClientInvariance, PTL

\* GridIsSelected: within one login, when every activation has ended, the swatches
\* shown are of the collection the select box names.
THEOREM GridFollowsSelection == Spec => []GridIsSelected
  <1>1. IInv => GridIsSelected
    <2> SUFFICES ASSUME IInv, OneLogin, AtRest, LoggedIn
                 PROVE  page.grid \subseteq {page.active}
      BY DEF GridIsSelected
    <2>1. page.newest = None
      <3>1. page.newest \in Task \cup {None} /\ Loading(page, tasks)
        BY PageFields DEF IInv, Sound
      <3> QED BY <3>1, Names DEF AtRest, Loading, LoadPc
    <2> QED BY <2>1 DEF IInv, Listing, NewestOfActive, LoggedIn, In
  <1> QED BY <1>1, WebClientInvariance, PTL

=============================================================================
