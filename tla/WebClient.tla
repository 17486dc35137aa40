------------------------------ MODULE WebClient -----------------------------
(***************************************************************************)
(* The browser client (web/app.js): the session, the list of collections   *)
(* and the grid of saved colours, shared by async functions that overlap   *)
(* at every await.                                                         *)
(*                                                                         *)
(* A task is one activation of an async function.  JavaScript runs it to   *)
(* the next await in one turn, so a step is one turn: a user event, or the *)
(* continuation after a response.  Responses arrive in any order.  What    *)
(* awaits a settled promise continues before the next event.               *)
(*                                                                         *)
(* The server is what a client sees of it: tokens that are live or not,    *)
(* and a fixed set of collections for each account.                        *)
(***************************************************************************)
EXTENDS Integers, FiniteSets

CONSTANTS Task,      \* activations started by the user
          Loader,    \* activations of loadCollections
          Token,
          Account,
          CltCount,  \* collections of an account; the first is its default
          None

Slot == Task \cup Loader
Clt == Account \X (1..CltCount)
CltsOf(a) == {a} \X (1..CltCount)
DefaultOf(a) == <<a, 1>>

ASSUME CltAssumption == CltCount \in Nat \ {0}

VARIABLES page,   \* the module's let bindings and what the DOM shows
          tasks,  \* [Slot -> the activation]
          owner,  \* server: [Token -> the account it was minted for, or None]
          live    \* server: the tokens that still authenticate

vars == <<page, tasks, owner, live>>
server == <<owner, live>>

Session == [tok : Token \cup {None}, nick : Account \cup {None}, clt : Clt \cup {None}]

ASSUME NameAssumption ==
  /\ Task \cap Loader = {} /\ Loader \cap {"ok", "failed"} = {}
  /\ None \notin Slot \cup Token \cup Account \cup Clt \cup Session \cup {"ok", "401", "failed"}

Page == [session : Session \cup {None},
         clts    : SUBSET Clt,               \* collections
         active  : Clt \cup {None},          \* activeCollection
         request : Loader \cup {"ok", None}, \* collectionsRequest, "ok" once resolved
         newest  : Task \cup {None},         \* the loadSaved that holds savedGeneration
         grid    : SUBSET Clt,               \* whose swatches #saved shows
         cursor  : Clt \cup {None},          \* nextCursor, as the collection it is for
         moreOff : BOOLEAN,                  \* #load-more is disabled
         dialog  : Account \cup {None}]      \* the nickname #account-delete asks for, if open

\* Awaiting ensureCollections, or the response of a request.
AwaitPc == {"awaitSaved", "awaitAdd", "awaitDelete"}
CallPc == {"login", "loginMe", "logout", "openDelete", "deleteMe", "clts", "saved", "add", "delete"}

Activation == [pc     : AwaitPc \cup CallPc \cup {"idle"},
               tok    : Token \cup {None},             \* the token its request carries
               reply  : {"ok", "401", "failed", None},
               got    : Token \cup Account \cup {None},
               append : BOOLEAN,
               on     : Loader \cup {"ok", "failed", None},
               clt    : Clt \cup {None},               \* the collection in its path
               cell   : Clt \cup {None}]               \* whose swatch was clicked

BlankPage == [session |-> None, clts |-> {}, active |-> None, request |-> None,
              newest |-> None, grid |-> {}, cursor |-> None, moreOff |-> FALSE,
              dialog |-> None]

Idle == [pc |-> "idle", tok |-> None, reply |-> None, got |-> None,
         append |-> FALSE, on |-> None, clt |-> None, cell |-> None]

-----------------------------------------------------------------------------
(* The functions that run within one turn, as functions of the page.       *)

\* Mutant: the active collection outlives its list.
ResetCollectionsKeepActive(pg) == [pg EXCEPT !.clts = {}, !.request = None]

ResetCollections(pg) == [pg EXCEPT !.clts = {}, !.active = None, !.request = None]

\* Its renderSession drops the cursor and empties the grid.
EndSession(pg) == [ResetCollections(pg) EXCEPT !.session = None, !.cursor = None, !.grid = {}]

StartSession(pg, tok) ==
  [ResetCollections(pg) EXCEPT !.session = [tok |-> tok, nick |-> None, clt |-> None]]

\* { ...session, key: value }, where session may be null.
Spread(pg) == IF pg.session = None THEN [tok |-> None, nick |-> None, clt |-> None]
                                   ELSE pg.session

SetSessionNickname(pg, nick) == [pg EXCEPT !.session = [Spread(pg) EXCEPT !.nick = nick]]

SetActiveCollection(pg, c) == [pg EXCEPT !.active = c,
                                         !.session = [Spread(pg) EXCEPT !.clt = c]]

\* The stored one if the account still has it, else the default.
PickCollection(pg, a) ==
  LET preferred == Spread(pg).clt IN
  IF preferred \in CltsOf(a) THEN preferred ELSE DefaultOf(a)

\* call(): a 401 ends whatever session there is when it arrives.
After401(pg, reply) ==
  IF reply = "401" /\ pg.session # None THEN EndSession(pg) ELSE pg

\* call(): the request goes out with the token in hand now.
Call(act, pc, pg) == [act EXCEPT !.pc = pc, !.reply = None, !.got = None, !.on = None,
                                 !.tok = Spread(pg).tok]

\* Mutant: every load re-enables the button.
LoadDoneAlways(pg, t) == [pg EXCEPT !.newest = IF @ = t THEN None ELSE @, !.moreOff = FALSE]

\* The finally of loadSaved.
LoadDone(pg, t) == IF pg.newest = t THEN [pg EXCEPT !.newest = None, !.moreOff = FALSE]
                                    ELSE pg

LoadFailed(pg, t) ==
  LoadDone(IF pg.newest = t
             THEN [pg EXCEPT !.cursor = None, !.grid = IF tasks[t].append THEN @ ELSE {}]
             ELSE pg, t)

\* What a page of the listing does to the grid; it may hold no swatch.
Shown(pg, t, swatches, cursor) ==
  [pg EXCEPT !.cursor = cursor,
             !.grid = IF tasks[t].append THEN @ \cup swatches ELSE swatches]

\* Mutant: no generation.
LoadShownAny(pg, t, swatches, cursor) == LoadDone(Shown(pg, t, swatches, cursor), t)

LoadShown(pg, t, swatches, cursor) ==
  LoadDone(IF pg.newest = t THEN Shown(pg, t, swatches, cursor) ELSE pg, t)

\* The catch of ensureCollections: the next click asks again.
RequestFailed(pg) == [pg EXCEPT !.request = None]

-----------------------------------------------------------------------------
(* Turns. *)

Ready(t) == tasks[t].pc \in AwaitPc /\ tasks[t].on \in {"ok", "failed"}

\* An event is handled when no promise continuation is waiting to run.
NoneReady == \A t \in Task : ~Ready(t)

\* The activation t ends.
End(t, pg) == /\ page' = pg
              /\ tasks' = [tasks EXCEPT ![t] = Idle]

\* await ensureCollections(): the pending or resolved list, or a new request.
EnsureCollections(t, act, pg) ==
  \/ /\ pg.request # None
     /\ page' = pg
     /\ tasks' = [tasks EXCEPT ![t] = [act EXCEPT !.on = pg.request]]
  \/ /\ pg.request = None
     /\ \E q \in Loader :
          /\ tasks[q].pc = "idle"
          /\ page' = [pg EXCEPT !.request = q]
          /\ tasks' = [tasks EXCEPT ![t] = [act EXCEPT !.on = q],
                                    ![q] = Call(Idle, "clts", pg)]

LoadSaved(t, append, pg) ==
  \/ pg.session = None /\ End(t, pg)
  \/ /\ pg.session # None
     /\ EnsureCollections(t, [Idle EXCEPT !.pc = "awaitSaved", !.append = append],
                          [pg EXCEPT !.newest = t, !.moreOff = TRUE])

\* The list is there, or its request failed.
Resume(t) ==
  /\ Ready(t)
  /\ LET found == tasks[t].on = "ok" /\ page.active # None
         out == [awaitSaved |-> "saved", awaitAdd |-> "add", awaitDelete |-> "delete"]
     IN \/ /\ found
           /\ page' = page
           /\ tasks' = [tasks EXCEPT ![t] =
                          [Call(@, out[tasks[t].pc], page) EXCEPT !.clt = page.active]]
        \/ /\ ~found
           /\ End(t, IF tasks[t].pc = "awaitSaved" THEN LoadFailed(page, t) ELSE page)
  /\ UNCHANGED server

\* The response of t arrives and call() goes on.
Answered(t, pc) == tasks[t].pc = pc /\ tasks[t].reply # None /\ NoneReady

AnswerPage(t) == After401(page, tasks[t].reply)

\* login(): the token, then GET /me, then the grid.
LoginToken(t) ==
  /\ Answered(t, "login")
  /\ IF tasks[t].reply = "ok"
       THEN LET pg == StartSession(page, tasks[t].got) IN
            /\ page' = pg
            /\ tasks' = [tasks EXCEPT ![t] = Call(Idle, "loginMe", pg)]
       ELSE End(t, AnswerPage(t))
  /\ UNCHANGED server

LoginMe(t) ==
  /\ Answered(t, "loginMe")
  /\ IF tasks[t].reply = "ok"
       THEN LoadSaved(t, FALSE, SetSessionNickname(page, tasks[t].got))
       ELSE End(t, AnswerPage(t))
  /\ UNCHANGED server

\* The logout handler ends the session whatever the answer.
LogoutDone(t) == /\ Answered(t, "logout")
                 /\ End(t, EndSession(page))
                 /\ UNCHANGED server

\* openDeleteAccount has a nickname in hand.
OpenDialog(pg, nick) == [pg EXCEPT !.dialog = nick]

NicknameFetched(t) ==
  /\ Answered(t, "openDelete")
  /\ LET nick == tasks[t].got
     IN End(t, IF tasks[t].reply = "ok" THEN OpenDialog(SetSessionNickname(page, nick), nick)
                                        ELSE AnswerPage(t))
  /\ UNCHANGED server

\* A failure leaves the dialog open unless the session is gone.
DeleteAccountDone(t) ==
  /\ Answered(t, "deleteMe")
  /\ LET pg == AnswerPage(t) IN
     End(t, IF tasks[t].reply = "ok" THEN [EndSession(page) EXCEPT !.dialog = None]
            ELSE IF pg.session = None THEN [pg EXCEPT !.dialog = None] ELSE pg)
  /\ UNCHANGED server

\* loadCollections, and the catch of ensureCollections.  Whoever awaits this
\* promise learns how it ended.
CollectionsLoaded(q) ==
  LET ok == tasks[q].reply = "ok"
      a == tasks[q].got
  IN /\ Answered(q, "clts")
     /\ page' = IF ok
                  THEN [page EXCEPT !.clts = CltsOf(a), !.active = PickCollection(page, a),
                                    !.request = IF @ = q THEN "ok" ELSE @]
                  ELSE RequestFailed(AnswerPage(q))
     /\ tasks' = [t \in Slot |->
                    IF t = q THEN Idle
                    ELSE IF tasks[t].on = q
                    THEN [tasks[t] EXCEPT !.on = IF ok THEN "ok" ELSE "failed"]
                    ELSE tasks[t]]
     /\ UNCHANGED server

\* A page of the listing, with or without a cursor for the next one.
SavedLoaded(t) ==
  /\ Answered(t, "saved")
  /\ IF tasks[t].reply = "ok"
       THEN \E swatches \in SUBSET {tasks[t].clt}, cursor \in {tasks[t].clt, None} :
              /\ swatches = {} => cursor = None
              /\ End(t, LoadShown(page, t, swatches, cursor))
       ELSE End(t, LoadFailed(AnswerPage(t), t))
  /\ UNCHANGED server

ColorAdded(t) ==
  /\ Answered(t, "add")
  /\ IF tasks[t].reply = "ok" THEN LoadSaved(t, FALSE, page) ELSE End(t, AnswerPage(t))
  /\ UNCHANGED server

\* The cell goes; it may be the last of its collection in the grid.
ColorDeleted(t) ==
  /\ Answered(t, "delete")
  /\ IF tasks[t].reply = "ok"
       THEN \E gone \in SUBSET {tasks[t].cell} : End(t, [page EXCEPT !.grid = @ \ gone])
       ELSE End(t, AnswerPage(t))
  /\ UNCHANGED server

Continue(t) == \/ Resume(t)
               \/ LoginToken(t) \/ LoginMe(t) \/ LogoutDone(t)
               \/ NicknameFetched(t) \/ DeleteAccountDone(t)
               \/ SavedLoaded(t) \/ ColorAdded(t) \/ ColorDeleted(t)

-----------------------------------------------------------------------------
(* What the user does.  The dialog for login opens only while logged out;  *)
(* everything else below is shown only while logged in.  #account-delete   *)
(* is modal: while it is open nothing outside it can be clicked.           *)

Turn(t) == tasks[t].pc = "idle" /\ NoneReady /\ UNCHANGED server
Event(t) == Turn(t) /\ page.dialog = None

Ask(t, pc) == /\ page' = page
              /\ tasks' = [tasks EXCEPT ![t] = Call(Idle, pc, page)]

ClickLogin(t) == Event(t) /\ page.session = None /\ Ask(t, "login")
ClickLogout(t) == Event(t) /\ page.session # None /\ Ask(t, "logout")

\* sessionNickname: the stored nickname, or one GET /me.
OpenDeleteAccount(t) ==
  /\ Event(t) /\ page.session # None
  /\ IF page.session.nick # None THEN End(t, OpenDialog(page, page.session.nick))
                                 ELSE Ask(t, "openDelete")

\* The nickname is typed and the form submitted, or the dialog is left.
SubmitDelete(t) == Turn(t) /\ page.dialog # None /\ Ask(t, "deleteMe")
CancelDelete(t) == Turn(t) /\ page.dialog # None /\ End(t, [page EXCEPT !.dialog = None])

SelectCollection(t, c) ==
  /\ Event(t)
  /\ page.session # None
  /\ c \in page.clts \ {page.active}
  /\ LoadSaved(t, FALSE, SetActiveCollection(page, c))

\* Sort, order and limit all reload the grid.
ChangeControl(t) == /\ Event(t)
                    /\ page.session # None
                    /\ LoadSaved(t, FALSE, page)

ClickLoadMore(t) == /\ Event(t)
                    /\ page.session # None
                    /\ page.cursor # None
                    /\ ~page.moreOff
                    /\ LoadSaved(t, TRUE, page)

ClickAdd(t) == /\ Event(t)
               /\ page.session # None
               /\ EnsureCollections(t, [Idle EXCEPT !.pc = "awaitAdd"], page)

\* The cross of one swatch of the grid.
ClickDelete(t, c) ==
  /\ Event(t)
  /\ page.session # None
  /\ c \in page.grid
  /\ EnsureCollections(t, [Idle EXCEPT !.pc = "awaitDelete", !.cell = c], page)

\* loadSession takes back the stored session unless it has no token or has
\* expired, and the page loads its grid.
Reload(t) ==
  /\ NoneReady
  /\ \E s \in {None, page.session}, q \in Loader :
       LET fresh == [BlankPage EXCEPT !.session = s]
           blank == [u \in Slot |-> Idle]
       IN /\ s = None => Spread(page).tok \notin live
          /\ s # None => s.tok # None
          /\ \/ s = None /\ page' = fresh /\ tasks' = blank
             \/ /\ s # None
                /\ page' = [fresh EXCEPT !.newest = t, !.moreOff = TRUE, !.request = q]
                /\ tasks' = [blank EXCEPT ![t] = [Idle EXCEPT !.pc = "awaitSaved", !.on = q],
                                          ![q] = Call(Idle, "clts", fresh)]
  /\ UNCHANGED server

User(t) == \/ ClickLogin(t) \/ ClickLogout(t)
           \/ OpenDeleteAccount(t) \/ SubmitDelete(t) \/ CancelDelete(t)
           \/ \E c \in Clt : SelectCollection(t, c) \/ ClickDelete(t, c)
           \/ ChangeControl(t) \/ ClickLoadMore(t) \/ ClickAdd(t) \/ Reload(t)

-----------------------------------------------------------------------------
(* The server and the network.                                             *)

Waiting(t) == tasks[t].pc \in CallPc /\ tasks[t].reply = None

Reply(t, reply, got) ==
  /\ tasks' = [tasks EXCEPT ![t].reply = reply, ![t].got = got]
  /\ UNCHANGED page

Authenticated(t) == tasks[t].tok \in live

\* POST /tokens.  A token whose answer is lost is one that nobody holds: to the
\* page that is Fail.
ServeLogin(t) ==
  /\ Waiting(t)
  /\ tasks[t].pc = "login"
  /\ \/ \E k \in Token, a \in Account :
           /\ owner[k] = None
           /\ owner' = [owner EXCEPT ![k] = a]
           /\ live' = live \cup {k}
           /\ Reply(t, "ok", k)
     \/ Reply(t, "401", None) /\ UNCHANGED server

\* The other requests carry a token.
ServeAuthed(t) ==
  LET a == owner[tasks[t].tok] IN
  /\ Waiting(t)
  /\ tasks[t].pc # "login"
  /\ \/ ~Authenticated(t) /\ Reply(t, "401", None) /\ UNCHANGED server
     \/ /\ Authenticated(t)
        /\ tasks[t].pc \in {"saved", "add", "delete"} => tasks[t].clt \in CltsOf(a)
        /\ Reply(t, "ok", IF tasks[t].pc \in {"loginMe", "openDelete", "clts"} THEN a ELSE None)
        /\ live' = CASE tasks[t].pc = "logout" -> live \ {tasks[t].tok}
                     [] tasks[t].pc = "deleteMe" -> {k \in live : owner[k] # a}
                     [] OTHER -> live
        /\ owner' = owner

\* 404 for another account's collection, a server error, or no connection.
Fail(t) == /\ Waiting(t)
           /\ Reply(t, "failed", None)
           /\ UNCHANGED server

\* It expires, or is revoked from another tab.
TokenEnds(k) == /\ k \in live
                /\ live' = live \ {k}
                /\ UNCHANGED <<page, tasks, owner>>

-----------------------------------------------------------------------------

Init == /\ page = BlankPage
        /\ tasks = [t \in Slot |-> Idle]
        /\ owner = [k \in Token |-> None]
        /\ live = {}

Next == \/ \E t \in Task : User(t) \/ Continue(t)
        \/ \E q \in Loader : CollectionsLoaded(q)
        \/ \E t \in Slot : ServeLogin(t) \/ ServeAuthed(t) \/ Fail(t)
        \/ \E k \in Token : TokenEnds(k)

Spec == Init /\ [][Next]_vars

-----------------------------------------------------------------------------

TypeOK == /\ page \in Page
          /\ tasks \in [Slot -> Activation]
          /\ owner \in [Token -> Account \cup {None}]
          /\ live \subseteq Token

\* The load-more button is disabled exactly while a load is out: never stuck
\* after one, never clickable during one, however loads overlap and fail.
MoreOffWhileLoading ==
  page.moreOff <=> \E t \in Task : tasks[t].pc \in {"awaitSaved", "saved"} /\ page.newest = t

\* The collection in use is one of the list: a reset and a reload take both away
\* together, and a stored id is checked against the list.
ActiveInList == page.active # None => page.active \in page.clts

\* No second token was minted: after a second login the grid may still hold what
\* the first one left there, or was sent for it.
OneLogin == \A k, l \in Token : owner[k] # None /\ owner[l] # None => k = l

\* Within one login the grid never shows swatches of two collections: a page is
\* appended only to the listing it continues.
OneListingShown == OneLogin => Cardinality(page.grid) <= 1

\* The session has the token it started with: a GET /me answered after a logout
\* leaves one with a nickname and no token, which no request can use.
LoggedIn == page.session # None /\ page.session.tok # None

\* Within one login, once nothing is in flight, the grid shows the collection
\* that is selected.
AtRest == \A t \in Slot : tasks[t].pc = "idle"
GridIsSelected == OneLogin /\ AtRest /\ LoggedIn => page.grid \subseteq {page.active}

-----------------------------------------------------------------------------
(* What the comments of app.js say and overlapping turns break.            *)

\* 55-56: the session is a token, its expiry and what was fetched with it.
SessionHasToken == page.session # None => page.session.tok # None

\* 152-153: a 401 that ends the session means that the session's token is
\* finished.  (The logout handler ends it whatever the answer.)
Only401OfThisToken ==
  [][\A t \in Slot :
       /\ tasks[t].reply = "401" /\ tasks[t].pc # "logout" /\ tasks'[t].pc = "idle"
       /\ page.session # None /\ page.session.tok # None /\ page'.session = None
       => page.session.tok \notin live]_vars

\* The account of the session.
Mine(c) == c \in CltsOf(owner[page.session.tok])

\* 291-292: the old account's list does not appear under the new account.
ListOfThisAccount == LoggedIn => \A c \in page.clts : Mine(c)

\* 1629-1630: the old account's swatches do not appear under the new one.
GridOfThisAccount == LoggedIn => \A c \in page.grid : Mine(c)

\* 509-510: the active collection is the one the grid shows, so the cross of a
\* swatch deletes from the collection the swatch is of.
DeletesWhatIsShown == \A t \in Task : tasks[t].pc = "delete" => tasks[t].clt = tasks[t].cell

\* 58-63: a nickname is "safe stale", although it is "the word the delete dialog
\* checks the typed name against": the account that a confirmed deletion goes to
\* is the one whose nickname was typed.
DeletesNamedAccount ==
  [][\A t \in Task :
       tasks[t].pc # "deleteMe" /\ tasks'[t].pc = "deleteMe" /\ LoggedIn =>
         owner[tasks'[t].tok] = page.dialog]_vars
=============================================================================
